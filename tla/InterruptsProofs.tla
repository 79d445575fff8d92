-------------------------- MODULE InterruptsProofs --------------------------
(***************************************************************************)
(* Proofs about Interrupts, for any sources, control register values,      *)
(* vectors, mask levels and stack depth.  The central invariant, Linked,   *)
(* ties each exception frame to the one below it and the interrupt mask    *)
(* level of the CPU to the frame on top.                                   *)
(***************************************************************************)
EXTENDS Interrupts, SequenceTheorems, TLAPS

(* Pushing a frame on the stack of a CPU that may nest once more.          *)
LEMMA PushType ==
  ASSUME frames \in Seq(Frame), MaxFrames \in Nat, Len(frames) < MaxFrames,
         NEW f \in Frame
  PROVE  Append(frames, f) \in Seq(Frame) /\ Len(Append(frames, f)) <= MaxFrames
OBVIOUS

(* What RTE leaves of the stack of frames.                                 *)
LEMMA PopFrames ==
  ASSUME frames \in Seq(Frame), frames # <<>>
  PROVE  LET rest == SubSeq(frames, 1, Len(frames) - 1)
         IN  /\ rest \in Seq(Frame) /\ Len(rest) = Len(frames) - 1
             /\ \A i \in 1 .. Len(frames) - 1 : rest[i] = frames[i]
<1>. DEFINE n == Len(frames) - 1
            rest == SubSeq(frames, 1, n)
<1>1. Len(frames) \in Nat /\ Len(frames) >= 1 /\ n \in Int
  OBVIOUS
<1>2. \A i \in 1 .. n : frames[i] \in Frame
  BY <1>1
<1>3. /\ rest \in Seq(Frame)
      /\ Len(rest) = IF 1 <= n THEN n - 1 + 1 ELSE 0
      /\ \A i \in 1 .. n - 1 + 1 : rest[i] = frames[1 + i - 1]
  <2>. HIDE DEF n
  <2>. QED
    BY <1>1, <1>2, SubSeqProperties
<1>4. Len(rest) = n /\ \A i \in 1 .. n : rest[i] = frames[i]
  <2>1. n >= 0
    BY <1>1
  <2>. HIDE DEF n, rest
  <2>. QED
    BY <1>1, <1>3, <2>1
<1>. QED
  BY <1>3, <1>4, Zenon

(* A control register of a source holds one of the values the program      *)
(* writes there.                                                           *)
LEMMA LevelOf ==
  ASSUME TypeOK, NEW s \in Sources
  PROVE  icrs[s].level \in 0..7 /\ icrs[s].priority \in 0..3
BY LevelAssumption DEF TypeOK

(* Entering an exception pushes a frame that is no interrupt's.            *)
LEMMA EnterType ==
  ASSUME TypeOK, Enter
  PROVE  level' \in 0..7 /\ frames' \in Seq(Frame) /\ Len(frames') <= MaxFrames
<1>1. [taken |-> 0, saved |-> level] \in Frame
  BY DEF TypeOK, Frame
<1>. QED
  BY <1>1, PushType, LevelAssumption DEF TypeOK, Enter

LEMMA TypeInit == Init => TypeOK
<1>. SUFFICES ASSUME Init PROVE TypeOK
  OBVIOUS
<1>1. frames \in Seq(Frame) /\ Len(frames) <= MaxFrames
  BY LevelAssumption DEF Init
<1>2. vectors \in [Sources -> Vectors]
  BY DEF Init, Vectors
<1>3. ph = "execute" /\ level \in 0..7 /\ icrs \in [Sources -> IcrValues]
  BY DEF Init
<1>4. pending \subseteq Sources /\ masked \subseteq Sources
  BY DEF Init
<1>5. enabled \subseteq Sources /\ line \subseteq Sources /\ repeat \in BOOLEAN
  BY DEF Init
<1>. QED
  BY <1>1, <1>2, <1>3, <1>4, <1>5 DEF TypeOK

LEMMA TypeStep == TypeOK /\ [Next]_vars => TypeOK'
<1>. SUFFICES ASSUME TypeOK, [Next]_vars PROVE TypeOK'
  OBVIOUS
<1>. USE DEF TypeOK, cpu, icm, devs
<1>1. CASE UNCHANGED vars
  BY <1>1 DEF vars
<1>2. CASE Compute
  BY <1>2 DEF Compute, Executed
<1>3. CASE Trap \/ EnterFault
  <2>1. level' \in 0..7 /\ frames' \in Seq(Frame) /\ Len(frames') <= MaxFrames
    BY <1>3, EnterType DEF Trap, EnterFault
  <2>. QED
    BY <1>3, <2>1 DEF Trap, EnterFault, Executed
<1>4. CASE Rte
  <2>1. frames[Len(frames)] \in Frame /\ frames' \in Seq(Frame) /\ Len(frames') <= MaxFrames
    BY <1>4, PopFrames, LevelAssumption DEF Rte
  <2>2. level' \in 0..7
    BY <1>4, <2>1 DEF Rte, Frame
  <2>. QED
    BY <1>4, <2>1, <2>2 DEF Rte, Executed
<1>5. CASE Fault
  BY <1>5 DEF Fault
<1>6. ASSUME NEW m \in SUBSET Sources, WriteIMR(m) PROVE TypeOK'
  BY <1>6 DEF WriteIMR, Executed
<1>7. ASSUME NEW s \in Sources, SwitchDevice(s) PROVE TypeOK'
  BY <1>7 DEF SwitchDevice, Executed
<1>8. ASSUME NEW s \in Sources, NEW icr \in IcrValues, WriteICR(s, icr) PROVE TypeOK'
  BY <1>8 DEF WriteICR, Executed
<1>9. ASSUME NEW l \in MaskLevels, SetMaskLevel(l) PROVE TypeOK'
  BY <1>9, LevelAssumption DEF SetMaskLevel, Executed
<1>10. CASE UpdateDevices
  <2>1. line' \subseteq Sources /\ pending' \subseteq Sources
    BY <1>10 DEF UpdateDevices
  <2>2. vectors' \in [Sources -> Vectors]
    BY <1>10, SourceAssumption DEF UpdateDevices, Vectors
  <2>. QED
    BY <1>10, <2>1, <2>2 DEF UpdateDevices
<1>11. CASE NothingToDeliver
  BY <1>11 DEF NothingToDeliver
<1>12. ASSUME NEW s \in Sources, Deliver(s) PROVE TypeOK'
  <2>1. [taken |-> icrs[s].level, saved |-> level] \in Frame /\ icrs[s].level \in 0..7
    BY LevelOf DEF Frame
  <2>2. frames' \in Seq(Frame) /\ Len(frames') <= MaxFrames
    BY <1>12, <2>1, PushType, LevelAssumption DEF Deliver
  <2>. QED
    BY <1>12, <2>1, <2>2 DEF Deliver
<1>13. ASSUME NEW s \in Sources, DeliverReported(s) PROVE TypeOK'
  BY <1>13 DEF DeliverReported
<1>14. ASSUME NEW s \in Sources, DeliverFaults(s) PROVE TypeOK'
  <2>1. level' \in 0..7 /\ frames' \in Seq(Frame) /\ Len(frames') <= MaxFrames
    BY <1>14, EnterType DEF DeliverFaults
  <2>. QED
    BY <1>14, <2>1 DEF DeliverFaults
<1>15. CASE Go \/ StepIntoException
  BY <1>15 DEF Go, StepIntoException
<1>16. CASE Restart
  <2>1. frames' \in Seq(Frame) /\ Len(frames') <= MaxFrames /\ level' \in 0..7
    BY <1>16, LevelAssumption DEF Restart
  <2>2. enabled' \subseteq Sources /\ line' \subseteq Sources
    BY <1>16 DEF Restart
  <2>. QED
    BY <1>16, <2>1, <2>2 DEF Restart
<1>. QED
  BY <1>1, <1>2, <1>3, <1>4, <1>5, <1>6, <1>7, <1>8, <1>9, <1>10, <1>11, <1>12, <1>13,
    <1>14, <1>15, <1>16 DEF Next, Instruction, Controller

(* The registers of the CPU, the interrupt controller and the devices keep *)
(* to their ranges through exceptions, faults, reports and resets.         *)
THEOREM TypeCorrect == Spec => []TypeOK
BY TypeInit, TypeStep, PTL DEF Spec

-----------------------------------------------------------------------------
(* Every frame saves the level of the frame below it, the CPU runs at the  *)
(* level of the frame on top, and an interrupt frame was taken at a higher *)
(* level than it returns to.                                               *)
Linked ==
  /\ \A i \in 1 .. Len(frames) - 1 : frames[i + 1].saved = frames[i].taken
  /\ frames # <<>> => level = frames[Len(frames)].taken
  /\ \A i \in 1 .. Len(frames) : frames[i].taken > 0 => frames[i].saved < frames[i].taken

LEMMA LinkedPush ==
  ASSUME TypeOK, Linked, NEW l \in 0..7, l > 0 => level < l,
         frames' = Append(frames, [taken |-> l, saved |-> level]), level' = l
  PROVE  Linked'
<1>1. Len(frames) \in Nat /\ Len(frames') = Len(frames) + 1
  BY DEF TypeOK
<1>2. \A i \in 1 .. Len(frames) : frames'[i] = frames[i]
  BY DEF TypeOK
<1>3. frames'[Len(frames) + 1] = [taken |-> l, saved |-> level]
  BY DEF TypeOK
<1>4. ASSUME NEW i \in 1 .. Len(frames') - 1 PROVE frames'[i + 1].saved = frames'[i].taken
  <2>1. CASE i = Len(frames)
    BY <1>1, <1>2, <1>3, <2>1 DEF Linked, TypeOK
  <2>2. CASE i < Len(frames)
    BY <1>1, <1>2, <2>2 DEF Linked
  <2>. QED
    BY <1>1, <2>1, <2>2
<1>5. level' = frames'[Len(frames')].taken
  BY <1>1, <1>3
<1>6. ASSUME NEW i \in 1 .. Len(frames'), frames'[i].taken > 0
      PROVE  frames'[i].saved < frames'[i].taken
  BY <1>1, <1>2, <1>3, <1>6 DEF Linked
<1>. QED
  BY <1>4, <1>5, <1>6 DEF Linked

LEMMA LinkedSame ==
  ASSUME Linked, frames' = frames, level' = level \/ frames = <<>>
  PROVE  Linked'
BY DEF Linked

LEMMA LinkedStep == TypeOK /\ Linked /\ [Next]_vars => Linked'
<1>. SUFFICES ASSUME TypeOK, Linked, [Next]_vars PROVE Linked'
  OBVIOUS
<1>. USE DEF cpu, icm, devs
<1>0. ASSUME Enter PROVE Linked'
  BY <1>0, LinkedPush DEF Enter
<1>1. CASE UNCHANGED vars
  BY <1>1, LinkedSame DEF vars
<1>2. CASE Compute \/ Fault \/ UpdateDevices \/ NothingToDeliver \/ Go \/ StepIntoException
  BY <1>2, LinkedSame DEF Compute, Fault, UpdateDevices, NothingToDeliver, Go,
    StepIntoException
<1>3. CASE Trap \/ EnterFault
  BY <1>0, <1>3 DEF Trap, EnterFault
<1>4. CASE Rte
  <2>. DEFINE n == Len(frames)
  <2>1. n \in Nat /\ n >= 1 /\ Len(frames') = n - 1
    BY <1>4, PopFrames DEF Rte, TypeOK
  <2>2. \A i \in 1 .. n - 1 : frames'[i] = frames[i]
    BY <1>4, PopFrames DEF Rte, TypeOK
  <2>3. ASSUME frames' # <<>> PROVE level' = frames'[Len(frames')].taken
    <3>1. n - 1 \in 1 .. n - 1 /\ frames[(n - 1) + 1] = frames[n]
      <4>1. frames' \in Seq(Frame)
        BY <1>4, PopFrames DEF Rte, TypeOK
      <4>. QED
        BY <2>1, <2>3, <4>1
    <3>. QED
      BY <1>4, <2>1, <2>2, <3>1 DEF Rte, Linked
  <2>. QED
    BY <2>1, <2>2, <2>3 DEF Linked
<1>5. CASE \/ \E m \in SUBSET Sources : WriteIMR(m)
           \/ \E s \in Sources : SwitchDevice(s) \/ \E icr \in IcrValues : WriteICR(s, icr)
           \/ \E s \in Sources : DeliverReported(s)
  BY <1>5, LinkedSame DEF WriteIMR, SwitchDevice, WriteICR, DeliverReported
<1>6. ASSUME NEW l \in MaskLevels, SetMaskLevel(l) PROVE Linked'
  BY <1>6, LinkedSame DEF SetMaskLevel
<1>7. ASSUME NEW s \in Sources, Deliver(s) PROVE Linked'
  BY <1>7, LevelOf, LinkedPush DEF Deliver, Chosen
<1>8. ASSUME NEW s \in Sources, DeliverFaults(s) PROVE Linked'
  BY <1>0, <1>8, LinkedSame DEF DeliverFaults
<1>9. CASE Restart
  BY <1>9 DEF Restart, Linked
<1>. QED
  BY <1>1, <1>2, <1>3, <1>4, <1>5, <1>6, <1>7, <1>8, <1>9 DEF Next, Instruction, Controller

(* Whatever the program writes to the controller and whatever the devices  *)
(* ask for, a handler is interrupted only by a higher level and finds the  *)
(* level of the interrupted handler in its frame.                          *)
THEOREM InterruptsNestUpward == Spec => []NestsUpward
<1>1. Init => Linked
  BY DEF Init, Linked
<1>2. TypeOK /\ Linked => NestsUpward
  <2>. SUFFICES ASSUME TypeOK, Linked, NEW i \in 1 .. Len(frames) - 1,
                       frames[i].taken > 0, frames[i + 1].taken > 0
                PROVE  /\ frames[i].taken < frames[i + 1].taken
                       /\ frames[i + 1].saved = frames[i].taken
    BY DEF NestsUpward
  <2>1. Len(frames) \in Nat /\ i + 1 \in 1 .. Len(frames)
    BY DEF TypeOK
  <2>. QED
    BY <2>1 DEF Linked
<1>. QED
  BY <1>1, <1>2, LinkedStep, TypeCorrect, PTL DEF Spec

-----------------------------------------------------------------------------
(* Whatever the number of requests, their levels and their priorities, the *)
(* loop over the sources leaves none behind that the CPU would let through *)
(* when it lets the program go on.                                         *)
THEOREM UpdateOverlooksNothing == Spec => NothingOverlooked
<1>1. ASSUME TypeOK, Next, ph = "deliver", ph' = "execute"
      PROVE  \A s \in pending' \ masked' : icrs'[s].level <= level'
  <2>. USE DEF cpu, icm, devs
  <2>1. CASE NothingToDeliver
    BY <1>1, <2>1 DEF NothingToDeliver, Requests
  <2>2. ASSUME NEW s \in Sources, Deliver(s)
        PROVE  \A r \in pending' \ masked' : icrs'[r].level <= level'
    <3>. SUFFICES ASSUME NEW r \in pending' \ masked' PROVE icrs[r].level <= icrs[s].level
      BY <2>2 DEF Deliver
    <3>1. r \in Requests \ {s} /\ r \in Sources
      BY <1>1, <2>2 DEF Deliver, Requests, TypeOK
    <3>2. Beats(s, r)
      BY <2>2, <3>1 DEF Deliver, Chosen
    <3>. QED
      BY <1>1, <3>1, <3>2, LevelOf DEF Beats
  <2>. QED
    BY <1>1, <2>1, <2>2 DEF Next, Instruction, Controller, Compute, Trap, Rte, Fault,
      EnterFault, WriteIMR, SwitchDevice, WriteICR, SetMaskLevel, Ready, Executed,
      UpdateDevices, DeliverReported, DeliverFaults, Go, StepIntoException, Restart
<1>. QED
  BY <1>1, TypeCorrect, PTL DEF Spec, NothingOverlooked

(* After the devices have been updated, the requests of those that are     *)
(* switched on are the ones they still make.                               *)
Current == ph = "deliver" => pending \cap enabled \subseteq line

(* However long a request stays masked or outranked, by the time it is     *)
(* delivered its device still asks for it or has been switched off.        *)
THEOREM DeliveredForACause == Spec => CauseStands
<1>1. Init => Current
  BY DEF Init, Current
<1>2. Current /\ [Next]_vars => Current'
  <2>. SUFFICES ASSUME Current, [Next]_vars PROVE Current'
    OBVIOUS
  <2>. USE DEF Current, cpu, icm, devs
  <2>1. CASE UpdateDevices
    BY <2>1 DEF UpdateDevices
  <2>2. CASE UNCHANGED vars
    BY <2>2 DEF vars
  <2>3. CASE ph' # "deliver"
    BY <2>3
  <2>. QED
    BY <2>1, <2>2, <2>3 DEF Next, Instruction, Controller, Compute, Trap, Rte, Fault,
      EnterFault, WriteIMR, SwitchDevice, WriteICR, SetMaskLevel, Ready, Executed,
      NothingToDeliver, Deliver, DeliverReported, DeliverFaults, Go, StepIntoException,
      Restart
<1>3. Current => \A s \in Sources : Deliver(s) => s \in line \/ s \notin enabled
  BY DEF Current, Deliver, Chosen, Requests
<1>. QED
  BY <1>1, <1>2, <1>3, PTL DEF Spec, CauseStands
=============================================================================
