------------------------------ MODULE Execution ------------------------------
(***************************************************************************)
(* What the execution control of the simulator promises its user, as one   *)
(* machine without threads, thread objects, messages or windows: a program *)
(* at rest, which commands move, reload and abort, or a run, which goes    *)
(* from one instruction to the next until something ends it.  SimControl   *)
(* says how the code does it, and that it does this when the user waits    *)
(* for one execution thread to end before starting the next.               *)
(***************************************************************************)
EXTENDS Naturals

CONSTANTS
  Addr, MonitorStart, CodeStart,
  Behaviour      \* [Addr -> SUBSET [kind, to]]: what the instruction there may do

VARIABLES
  mode,     \* what the status says
  pc,       \* where the program is
  halted,   \* is the CPU halted?
  breaks,   \* [Addr -> SUBSET {"EXECUTE", "TEMP_EXEC"}]
  asked,    \* has the run been asked to stop?
  run       \* the run: where it is, until when it goes on, what it ends with

vars == <<mode, pc, halted, breaks, asked, run>>

(* A run is before its first instruction, between two ("check"), committed *)
(* to the next one ("execute"), or over but for the announcement ("end").  *)
Run(at, cond) == [at |-> at, cond |-> cond, outcome |-> "none"]
Ending(mo)    == [at |-> "end", cond |-> "Run", outcome |-> mo]
Rest          == Run("rest", "Run")

Runnable == {"OK", "STOPPED", "BREAKPOINT_HIT", "EXCEPTION"}
Running  == mode = "IS_RUNNING"
NoBreaks == [a \in Addr |-> {}]
AtCheck  == run.at \in {"first", "check"}

Stopped(h) == IF h THEN "FINISHED" ELSE "STOPPED"

Init ==
  /\ mode = "FINISHED" /\ halted = TRUE /\ pc = MonitorStart
  /\ breaks = NoBreaks /\ asked = FALSE /\ run = Rest

-----------------------------------------------------------------------------
(* A run *)

(* It begins with no stop request: an old one is forgotten, no new one lost. *)
Start(cond) ==
  /\ mode \in Runnable /\ ~halted /\ run = Rest
  /\ mode' = "IS_RUNNING" /\ asked' = FALSE
  /\ run' = Run("first", cond)
  /\ UNCHANGED <<pc, halted, breaks>>

Ask ==
  /\ Running /\ asked' = TRUE
  /\ UNCHANGED <<mode, pc, halted, breaks, run>>

(* Between two instructions a stop request comes first, then HALT, then    *)
(* the breakpoints, of which a permanent one does not count at the start.  *)
StopAsked ==
  /\ AtCheck /\ asked
  /\ run' = Ending(Stopped(halted))
  /\ UNCHANGED <<mode, pc, halted, breaks, asked>>

StopHalted ==
  /\ AtCheck /\ ~asked /\ halted
  /\ run' = Ending("FINISHED")
  /\ UNCHANGED <<mode, pc, halted, breaks, asked>>

StopTemp ==
  /\ AtCheck /\ ~asked /\ ~halted /\ "TEMP_EXEC" \in breaks[pc]
  /\ breaks' = [breaks EXCEPT ![pc] = @ \ {"TEMP_EXEC"}]
  /\ run' = Ending("STOPPED")
  /\ UNCHANGED <<mode, pc, halted, asked>>

StopBreak ==
  /\ run.at = "check" /\ ~asked /\ ~halted /\ breaks[pc] = {"EXECUTE"}
  /\ run' = Ending("BREAKPOINT_HIT")
  /\ UNCHANGED <<mode, pc, halted, breaks, asked>>

Commit ==
  /\ ~asked /\ ~halted
  /\ \/ AtCheck /\ breaks[pc] = {}
     \/ run.at = "first" /\ breaks[pc] = {"EXECUTE"}
  /\ run' = Run("execute", run.cond)
  /\ UNCHANGED <<mode, pc, halted, breaks, asked>>

(* One instruction; it ends a single step, and a return ends a step out.   *)
Ends(e) == run.cond = "SingleStep" \/ (run.cond = "TillRet" /\ e.kind = "return")

Perform(e) ==
  /\ run.at = "execute" /\ e.kind \in {"step", "return", "halt"}
  /\ pc' = e.to /\ halted' = (e.kind = "halt")
  /\ run' = IF Ends(e) THEN Ending(Stopped(e.kind = "halt")) ELSE Run("check", run.cond)
  /\ UNCHANGED <<mode, breaks, asked>>

(* A reported exception ends the run at the instruction that raised it ... *)
Fault(e) ==
  /\ run.at = "execute" /\ e.kind = "fault"
  /\ asked' = TRUE /\ run' = Ending("EXCEPTION")
  /\ UNCHANGED <<mode, pc, halted, breaks>>

(* ... a fault on fault as if the user had asked for it ...                *)
Double(e) ==
  /\ run.at = "execute" /\ e.kind = "double"
  /\ pc' = e.to /\ run' = Ending("STOPPED")
  /\ UNCHANGED <<mode, halted, breaks, asked>>

(* ... and an internal error for good.                                     *)
Error(e) ==
  /\ run.at = "execute" /\ e.kind = "error"
  /\ mode' = "INTERNAL_ERROR" /\ asked' = FALSE /\ run' = Rest
  /\ UNCHANGED <<pc, halted, breaks>>

(* The temporary breakpoint of a step over goes when the run has ended.    *)
Tidy(a) ==
  /\ run.at = "end"
  /\ breaks' = [breaks EXCEPT ![a] = @ \ {"TEMP_EXEC"}]
  /\ UNCHANGED <<mode, pc, halted, asked, run>>

Finish ==
  /\ run.at = "end"
  /\ mode' = run.outcome /\ asked' = FALSE /\ run' = Rest
  /\ UNCHANGED <<pc, halted, breaks>>

-----------------------------------------------------------------------------
(* The user: no program is moved, reloaded or aborted that runs *)

AtRest == ~Running /\ run = Rest

SkipTo(a) ==
  /\ AtRest /\ mode \in Runnable
  /\ pc' = a
  /\ UNCHANGED <<mode, halted, breaks, asked, run>>

(* One instruction that enters exceptions.  A fault on fault and an        *)
(* internal error move the program and say nothing.                        *)
StepInto(e) ==
  /\ AtRest /\ mode = "EXCEPTION"
  /\ pc' = e.to /\ halted' = (e.kind = "halt")
  /\ mode' = IF e.kind \in {"double", "error"} THEN mode ELSE Stopped(halted')
  /\ UNCHANGED <<breaks, asked, run>>

Abort ==
  /\ AtRest
  /\ mode' = "FINISHED" /\ halted' = TRUE
  /\ UNCHANGED <<pc, breaks, asked, run>>

Load(kept) ==
  /\ AtRest
  /\ mode' = "STOPPED" /\ halted' = FALSE /\ pc' = MonitorStart
  /\ breaks' \in {kept, [kept EXCEPT ![CodeStart] = {"TEMP_EXEC"}]}
  /\ UNCHANGED <<asked, run>>

(* Permanent breakpoints are put and removed at any time, temporary ones   *)
(* put before a run only.                                                  *)
EditBreaks ==
  /\ \A a \in Addr : breaks'[a] = breaks[a] \/ breaks'[a] \in {{}, {"EXECUTE"}}
  /\ UNCHANGED <<mode, pc, halted, asked, run>>

PutTemp(a) ==
  /\ AtRest /\ mode \in Runnable
  /\ breaks' = [breaks EXCEPT ![a] = {"TEMP_EXEC"}]
  /\ UNCHANGED <<mode, pc, halted, asked, run>>

Next ==
  \/ \E cond \in {"Run", "TillRet", "SingleStep"} : Start(cond)
  \/ Ask \/ StopAsked \/ StopHalted \/ StopTemp \/ StopBreak \/ Commit \/ Finish
  \/ \E e \in Behaviour[pc] :
       Perform(e) \/ Fault(e) \/ Double(e) \/ Error(e) \/ StepInto(e)
  \/ Abort \/ Load(breaks) \/ Load(NoBreaks) \/ EditBreaks
  \/ \E a \in Addr : Tidy(a) \/ SkipTo(a) \/ PutTemp(a)

Spec == Init /\ [][Next]_vars
=============================================================================
