----------------------------- MODULE Interrupts -----------------------------
(***************************************************************************)
(* Exceptions and interrupts of the simulated CPU: the interrupt           *)
(* controller (Peripherals/SimpleInterruptController.cpp), exception entry *)
(* and return (Context.cpp, Instructions/Rts.cpp) and the loop of          *)
(* RunSimulation that drives them: execute one instruction, update the     *)
(* devices, then the interrupt controller, which every configuration under *)
(* Config/ lists last.                                                     *)
(*                                                                         *)
(* A device is the level of its interrupt line: each of its updates either *)
(* asserts the request or withdraws it (SimpleTimer.cpp:134-154,           *)
(* SimpleUART.cpp:330-364), but a device that is switched off is not       *)
(* updated at all.  The program is any sequence of the instructions below. *)
(***************************************************************************)
EXTENDS Integers, Sequences

CONSTANTS
  Sources,       \* interrupt sources the devices are configured with
  IcrValues,     \* values the program puts into an interrupt control register
  DeviceVector,  \* the vector each device passes with its request
  MaskLevels,    \* interrupt mask levels the program puts into SR
  MaxFrames      \* bound: depth of exception frames on the stack

Vectors == {"spurious", "uninitialized", "device"}

ASSUME SourceAssumption ==
  /\ Sources \subseteq Nat
  /\ DeviceVector \in [Sources -> Vectors]
ASSUME LevelAssumption ==
  /\ IcrValues \subseteq [level : 0..7, priority : 0..3, auto : BOOLEAN]
  /\ MaskLevels \subseteq 0..7
  /\ MaxFrames \in Nat

VARIABLES
  ph,       \* where the loop is, or that it has been left
  level,    \* CPU::sr.i, the interrupt mask level
  frames,   \* exception frames: the level of the interrupt taken, the saved SR.i
  pending,  \* icm::interrupt_pending
  masked,   \* icm::interrupt_mask
  vectors,  \* icm::vectors
  icrs,     \* icm::icrs
  enabled,  \* devices that are switched on
  line,     \* devices whose interrupt condition holds
  repeat    \* pc points at an instruction that has been completed already

cpu  == <<level, frames>>
icm  == <<pending, masked, vectors, icrs>>
devs == <<enabled, line>>
vars == <<ph, cpu, icm, devs, repeat>>

Frame == [taken : 0..7, saved : 0..7]

Init ==
  /\ ph = "execute" /\ level = 0 /\ frames = <<>>
  /\ pending = {} /\ masked = Sources
  /\ vectors = [s \in Sources |-> "spurious"]
  /\ icrs \in [Sources -> IcrValues]
  /\ enabled = {} /\ line = {} /\ repeat = FALSE

-----------------------------------------------------------------------------
(* Executing one instruction *)

(* In the loop the peripherals are updated next; OneStep updates nothing.  *)
Executed == ph' = (IF ph = "execute" THEN "update" ELSE "stopped")
Ready    == ph \in {"execute", "single"}

(* CPU::EnterException for anything but an interrupt                       *)
Enter == /\ Len(frames) < MaxFrames
         /\ frames' = Append(frames, [taken |-> 0, saved |-> level])
         /\ level' = 0

Compute ==
  /\ Ready /\ Executed /\ repeat' = FALSE
  /\ UNCHANGED <<cpu, icm, devs>>

WriteIMR(m) ==
  /\ Ready /\ Executed /\ repeat' = FALSE
  /\ masked' = m
  /\ UNCHANGED <<cpu, pending, vectors, icrs, devs>>

WriteICR(s, icr) ==
  /\ Ready /\ Executed /\ repeat' = FALSE
  /\ icrs' = [icrs EXCEPT ![s] = icr]
  /\ UNCHANGED <<cpu, pending, masked, vectors, devs>>

(* The program switches a device on or off.  A disabled device is not      *)
(* asked for its condition, which then stays as it is.                     *)
SwitchDevice(s) ==
  /\ Ready /\ Executed /\ repeat' = FALSE
  /\ enabled' = IF s \in enabled THEN enabled \ {s} ELSE enabled \cup {s}
  /\ UNCHANGED <<cpu, icm, line>>

(* MOVE to SR outside of any handler                                       *)
SetMaskLevel(l) ==
  /\ Ready /\ Executed /\ repeat' = FALSE
  /\ frames = <<>>
  /\ level' = l
  /\ UNCHANGED <<frames, icm, devs>>

Trap ==
  /\ Ready /\ Executed /\ repeat' = FALSE
  /\ Enter
  /\ UNCHANGED <<icm, devs>>

(* StepOut leaves the loop at a return, before the peripherals are updated. *)
Rte ==
  /\ Ready /\ repeat' = FALSE
  /\ Executed \/ (ph = "execute" /\ ph' = "stopped")
  /\ frames # <<>>
  /\ level' = frames[Len(frames)].saved
  /\ frames' = SubSeq(frames, 1, Len(frames) - 1)
  /\ UNCHANGED <<icm, devs>>

(* A faulting instruction is reported to the debugger, which stops the     *)
(* loop and keeps pc on it; when single-stepped from there it enters the   *)
(* exception.                                                              *)
Fault ==
  /\ ph = "execute"
  /\ ph' = "reported"
  /\ UNCHANGED <<cpu, icm, devs, repeat>>

EnterFault ==
  /\ ph = "single" /\ Executed /\ repeat' = FALSE
  /\ Enter
  /\ UNCHANGED <<icm, devs>>

-----------------------------------------------------------------------------
(* Updating the devices *)

(* Faulty variant of UpdateDevices: InterruptClear is never called.        *)
UpdateDevicesNoWithdraw ==
  /\ ph = "update"
  /\ \E on \in SUBSET enabled : line' = (line \ enabled) \cup on
  /\ pending' = pending \cup (line' \cap enabled)
  /\ vectors' = [s \in Sources |->
       IF s \in (pending' \ pending) \ masked THEN DeviceVector[s] ELSE vectors[s]]
  /\ ph' = "deliver"
  /\ UNCHANGED <<cpu, masked, icrs, enabled, repeat>>

(* Interrupt conditions come and go with time and input.  InterruptAssert  *)
(* leaves a pending request alone and notes the vector only of a request   *)
(* that is not masked; InterruptClear forgets it.                          *)
UpdateDevices ==
  /\ ph = "update"
  /\ \E on \in SUBSET enabled : line' = (line \ enabled) \cup on
  /\ pending' = (pending \ enabled) \cup (line' \cap enabled)
  /\ vectors' = [s \in Sources |->
       IF s \in (pending' \ pending) \ masked THEN DeviceVector[s]
       ELSE IF s \in pending \ pending' THEN "spurious" ELSE vectors[s]]
  /\ ph' = "deliver"
  /\ UNCHANGED <<cpu, masked, icrs, enabled, repeat>>

-----------------------------------------------------------------------------
(* Updating the interrupt controller: SimpleInterruptController::Update *)

Requests == pending \ masked

(* The order in which the loop over the sources lets one replace another.  *)
Beats(s, r) ==
  \/ icrs[s].level > icrs[r].level
  \/ icrs[s].level = icrs[r].level /\ icrs[s].priority > icrs[r].priority
  \/ icrs[s].level = icrs[r].level /\ icrs[s].priority = icrs[r].priority /\ s < r

(* Faulty variant of Chosen: the priority alone decides.                   *)
ChosenByPriority(s) ==
  /\ ph = "deliver" /\ level # 7
  /\ s \in Requests /\ icrs[s].level > level
  /\ \A r \in Requests \ {s} : icrs[s].priority >= icrs[r].priority

Chosen(s) ==
  /\ ph = "deliver" /\ level # 7
  /\ s \in Requests /\ icrs[s].level > level
  /\ \A r \in Requests \ {s} : Beats(s, r)

Reported(s) == ~icrs[s].auto /\ vectors[s] \in {"spurious", "uninitialized"}

NothingToDeliver ==
  /\ ph = "deliver"
  /\ \A s \in Requests : icrs[s].level <= level
  /\ ph' = "execute"
  /\ UNCHANGED <<cpu, icm, devs, repeat>>

(* Faulty variant of Deliver: SetInterruptLevel is not called.             *)
DeliverUnmasked(s) ==
  /\ Chosen(s) /\ ~Reported(s) /\ Len(frames) < MaxFrames
  /\ frames' = Append(frames, [taken |-> icrs[s].level, saved |-> level])
  /\ level' = 0
  /\ pending' = pending \ {s}
  /\ ph' = "execute"
  /\ UNCHANGED <<masked, vectors, icrs, devs, repeat>>

Deliver(s) ==
  /\ Chosen(s) /\ ~Reported(s) /\ Len(frames) < MaxFrames
  /\ frames' = Append(frames, [taken |-> icrs[s].level, saved |-> level])
  /\ level' = icrs[s].level
  /\ pending' = pending \ {s}
  /\ ph' = "execute"
  /\ UNCHANGED <<masked, vectors, icrs, devs, repeat>>

(* The vector is one the debugger wants to see: Context::EnterException    *)
(* calls it and Debugger::Exception moves pc to current_opcode_addr_, the  *)
(* instruction that was executed last.                                     *)
DeliverReported(s) ==
  /\ Chosen(s) /\ Reported(s)
  /\ repeat' = TRUE
  /\ ph' = "reported"
  /\ UNCHANGED <<cpu, icm, devs>>

(* Exception entry faults: before the frame is pushed, or when the first   *)
(* opcode of the handler cannot be fetched, the frame being pushed and     *)
(* SR.i cleared.  FaultOnFault ends the loop; the request stays pending.   *)
DeliverFaults(s) ==
  /\ Chosen(s) /\ ~Reported(s)
  /\ \/ UNCHANGED cpu
     \/ Enter
  /\ ph' = "stopped"
  /\ UNCHANGED <<icm, devs, repeat>>

-----------------------------------------------------------------------------
(* The user's commands while the simulator is stopped *)

Go ==
  /\ ph \in {"reported", "stopped"}
  /\ ph' = "execute"
  /\ UNCHANGED <<cpu, icm, devs, repeat>>

StepIntoException ==
  /\ ph = "reported"
  /\ ph' = "single"
  /\ UNCHANGED <<cpu, icm, devs, repeat>>

(* Simulator::Reset: registers, controller and timers; a UART stays on.    *)
(* (The user may have broken the loop before any instruction.)             *)
Restart ==
  /\ ph \in {"execute", "reported", "stopped"}
  /\ ph' = "execute" /\ level' = 0 /\ frames' = <<>>
  /\ pending' = {} /\ masked' = Sources
  /\ enabled' \in SUBSET enabled /\ line' = line \cap enabled'
  /\ repeat' = FALSE
  /\ UNCHANGED <<vectors, icrs>>

-----------------------------------------------------------------------------

Instruction ==
  \/ Compute \/ Trap \/ Rte \/ Fault \/ EnterFault
  \/ \E m \in SUBSET Sources : WriteIMR(m)
  \/ \E s \in Sources : SwitchDevice(s) \/ \E icr \in IcrValues : WriteICR(s, icr)
  \/ \E l \in MaskLevels : SetMaskLevel(l)

Controller ==
  \/ NothingToDeliver
  \/ \E s \in Sources : Deliver(s) \/ DeliverReported(s) \/ DeliverFaults(s)

Next ==
  \/ Instruction \/ UpdateDevices \/ Controller
  \/ Go \/ StepIntoException \/ Restart

Spec == Init /\ [][Next]_vars

-----------------------------------------------------------------------------
(* Properties *)

(* Every variable stays in its range.                                      *)
TypeOK ==
  /\ ph \in {"execute", "update", "deliver", "single", "reported", "stopped"}
  /\ level \in 0..7 /\ frames \in Seq(Frame) /\ Len(frames) <= MaxFrames
  /\ pending \subseteq Sources /\ masked \subseteq Sources
  /\ vectors \in [Sources -> Vectors] /\ icrs \in [Sources -> IcrValues]
  /\ enabled \subseteq Sources /\ line \subseteq Sources
  /\ repeat \in BOOLEAN

(* A handler is interrupted only by a higher level: of two interrupt       *)
(* frames next to each other on the stack the upper was taken at a higher  *)
(* level and returns to the level of the lower, whatever the program does  *)
(* to the controller's registers meanwhile, as long as handlers leave SR   *)
(* alone (SimpleInterruptController::Update, CPU::EnterException, Rte).    *)
NestsUpward ==
  \A i \in 1 .. Len(frames) - 1 :
    frames[i].taken > 0 /\ frames[i + 1].taken > 0 =>
      frames[i].taken < frames[i + 1].taken /\ frames[i + 1].saved = frames[i].taken

(* The loop goes on only when no request is left that the CPU would let    *)
(* through: neither a later nor a better request is overlooked by Update.  *)
NothingOverlooked ==
  [][ph = "deliver" /\ ph' = "execute" =>
       \A s \in pending' \ masked' : icrs'[s].level <= level']_vars

(* An interrupt is taken only for a device that still asserts it or that   *)
(* the program switched off with the request standing: every update of a   *)
(* device withdraws what it no longer wants.                               *)
CauseStands ==
  [][\A s \in Sources : Deliver(s) => s \in line \/ s \notin enabled]_vars

(* What the comment at Debugger.cpp:433 says: pc is moved back to the      *)
(* offending instruction, so no instruction is executed twice.             *)
NoRepeat == ~repeat
=============================================================================
