----------------------------- MODULE SimControl -----------------------------
(***************************************************************************)
(* The debugger's control of the simulator: the user-interface thread      *)
(* (Studio/MainFrame.cpp, Studio/Debugger.cpp), which issues run, step,    *)
(* break, stop, restart and breakpoint commands, and the execution threads *)
(* that Simulator::Impl::Run starts (ColdFire/Simulator.cpp), which share  *)
(* plain, unsynchronised members of Simulator::Impl with it and report     *)
(* back through messages posted to the main window.                        *)
(*                                                                         *)
(* One action is one stretch of code between two accesses to shared state  *)
(* that another thread may separate.  A simulated instruction is abstract: *)
(* Behaviour[a] is the set of effects executing the code at a may have.    *)
(***************************************************************************)
EXTENDS Naturals

CONSTANTS
  Addr,          \* code addresses of the simulated program
  MonitorStart,  \* where the monitor code (CPU initialisation) begins
  CodeStart,     \* GetProgramStart() of the assembled program
  Behaviour,     \* [Addr -> SUBSET Effect]
  Returns,       \* [subset of Addr -> Addr]: SUBROUTINE instructions, and what follows them
  Lines,         \* addresses the user points at, in the editor or the disassembly
  Threads,       \* bound: as many execution threads alive at the same time
  Serialised     \* does the user wait for the last thread to end before a run command?

NoAddr == 0      \* no address: a zero temp_bp_addr_to_clear_, a ~0 program counter

Status  == {"OK", "STOPPED", "BREAKPOINT_HIT", "EXCEPTION", "IS_RUNNING",
            "FINISHED", "INTERNAL_ERROR"}
BptType == {"EXECUTE", "TEMP_EXEC"}
Condition == {"Run", "TillRet", "SingleStep"}
Effect  == [kind : {"step", "return", "halt", "fault", "double", "error"}, to : Addr]
Events  == {"RUNNING", "STOPPED"}
Loaded  == {"none", "misfit", "fits"}
Phase   == {"gone", "start", "announce", "loop", "exec", "caught", "leave",
            "publish", "event", "post", "join", "detach"}
UiPhase == {"idle", "assembled", "run", "detach", "clear", "spawn", "swap", "marks"}

ASSUME AddrAssumption ==
  /\ Addr \subseteq Nat \ {NoAddr}
  /\ {MonitorStart, CodeStart} \subseteq Addr
  /\ Lines \subseteq Addr
ASSUME ProgramAssumption ==
  /\ Behaviour \in [Addr -> SUBSET Effect]
  /\ \A a \in DOMAIN Returns : a \in Addr /\ Returns[a] \in Addr
ASSUME BoundAssumption ==
  /\ Threads # {}
  /\ Serialised \in BOOLEAN

VARIABLES
  status,     \* Simulator::Impl::status_
  stopExec,   \* Simulator::Impl::stop_execution_
  halted,     \* Context::halted_
  bp,         \* Simulator::Impl::breakpoints_: {} where the map has no entry
  tempAddr,   \* Simulator::Impl::temp_bp_addr_to_clear_
  joinable,   \* Simulator::Impl::exec_.joinable()
  pc,         \* the simulated program counter
  th,         \* the execution threads
  ui,         \* what the user-interface thread is doing
  marks,      \* breakpoint marks of the editor
  loaded,     \* Debugger::code_ and debug_info_: none, or a program that fits memory or not
  curPC,      \* Debugger::cur_prog_counter_
  posted,     \* kinds of WM_APP_STATE_CHANGED messages not handled yet
  view        \* what the views show: instruction pointer and CPU status

simVars == <<status, stopExec, halted, bp, tempAddr, joinable, pc>>
uiVars  == <<ui, marks, loaded>>
vars    == <<simVars, th, uiVars, curPC, posted, view>>

(* The control state of a thread: where it is and, where they matter, its  *)
(* cond argument, exec_pending and the status it carries.                  *)
ThreadType == [ph : Phase, cond : Condition, pending : BOOLEAN, ret : Status]
UiType     == [ph : UiPhase, cond : Condition, then : {"idle", "marks"}]
BpMap      == [Addr -> {{}} \cup {{type} : type \in BptType}]

At(ph, ret)    == [ph |-> ph, cond |-> "Run", pending |-> FALSE, ret |-> ret]
Ui(ph, c, nxt) == [ph |-> ph, cond |-> c, then |-> nxt]

IdleThread == At("gone", "STOPPED")
IdleUi     == Ui("idle", "Run", "idle")

(* After LoadMonitorCode: the monitor is loaded and the program aborted.   *)
Init ==
  /\ status = "FINISHED" /\ stopExec = FALSE /\ halted = TRUE
  /\ bp = [a \in Addr |-> {}] /\ tempAddr = NoAddr /\ joinable = FALSE
  /\ pc = MonitorStart
  /\ th = [t \in Threads |-> IdleThread]
  /\ ui = IdleUi /\ marks = {} /\ loaded = "none"
  /\ curPC = NoAddr /\ posted = {}
  /\ view = [ptr |-> NoAddr, status |-> "FINISHED"]

-----------------------------------------------------------------------------
(* Status predicates and the breakpoint map *)

CanRun    == status \in {"OK", "STOPPED", "BREAKPOINT_HIT", "EXCEPTION"}
IsStopped == status \in {"STOPPED", "BREAKPOINT_HIT", "EXCEPTION"}
IsRunning == status = "IS_RUNNING"

Hit(a)            == bp[a] \cap BptType # {}
SetBp(a, type)    == [bp EXCEPT ![a] = {type}]
ClearTemp(a)      == [bp EXCEPT ![a] = @ \ {"TEMP_EXEC"}]
ClearIfTemp(a)    == IF a = NoAddr THEN bp ELSE ClearTemp(a)

(* Debugger::SimEvent: what a non-RUNNING event makes cur_prog_counter_,   *)
(* given the status it read and the program counter.                       *)
EventPC(stat, p) == IF stat \in {"IS_RUNNING", "FINISHED"} THEN NoAddr ELSE p

PostStop(stat, p) == /\ curPC' = EventPC(stat, p)
                     /\ posted' = posted \cup {"STOPPED"}

Live  == {t \in Threads : th[t].ph # "gone"}
Quiet == ui.ph = "idle" /\ Live = {}

-----------------------------------------------------------------------------
(* The user-interface thread: commands *)

MayCommand == ui.ph = "idle" /\ (Serialised => Live = {})

Command(c, nxt) == ui' = Ui("run", c, nxt)

(* OnSimGo, OnSimStepOut, OnStepInto: nothing before Simulator::Impl::Run *)
Go(c) ==
  /\ MayCommand /\ IsStopped
  /\ Command(c, "idle")
  /\ UNCHANGED <<simVars, th, marks, loaded, curPC, posted, view>>

(* OnStepOver -> Simulator::Impl::StepOver: over a SUBROUTINE instruction  *)
(* run to a temporary breakpoint behind it, else a single step.            *)
StepOver ==
  /\ MayCommand /\ IsStopped
  /\ IF pc \in DOMAIN Returns
       THEN /\ bp' = SetBp(Returns[pc], "TEMP_EXEC")
            /\ tempAddr' = Returns[pc]
            /\ Command("Run", "idle")
       ELSE /\ Command("SingleStep", "idle")
            /\ UNCHANGED <<bp, tempAddr>>
  /\ UNCHANGED <<status, stopExec, halted, joinable, pc, th, marks, loaded, curPC,
                 posted, view>>

(* OnSimRunToLine -> Simulator::RunToAddress *)
RunToLine(a) ==
  /\ MayCommand /\ IsStopped /\ loaded # "none"
  /\ bp' = SetBp(a, "TEMP_EXEC")
  /\ Command("Run", "idle")
  /\ UNCHANGED <<status, stopExec, halted, tempAddr, joinable, pc, th, marks, loaded,
                 curPC, posted, view>>

(* Faulty variant of SkipToLine: no E_REGISTER event.                      *)
SkipToLineSilently(a) ==
  /\ MayCommand /\ IsStopped /\ loaded # "none"
  /\ pc' = a
  /\ UNCHANGED <<status, stopExec, halted, bp, tempAddr, joinable, th, uiVars, curPC,
                 posted, view>>

(* OnSimSkipToLine -> Debugger::SkipToAddress -> SetRegister, which sends  *)
(* an E_REGISTER event                                                     *)
SkipToLine(a) ==
  /\ MayCommand /\ IsStopped /\ loaded # "none"
  /\ pc' = a
  /\ PostStop(status, a)
  /\ UNCHANGED <<status, stopExec, halted, bp, tempAddr, joinable, th, uiVars, view>>

(* OnStepIntoExcp -> Simulator::OneStep: one instruction, in this thread,  *)
(* entering exceptions instead of reporting them.  A fault on fault leaves *)
(* through Call() and an internal error too: no status, no event.          *)
StepIntoException ==
  /\ MayCommand /\ status = "EXCEPTION"
  /\ \E e \in Behaviour[pc] :
       /\ pc' = IF halted THEN pc ELSE e.to
       /\ halted' = (halted \/ e.kind = "halt")
       /\ IF e.kind \in {"double", "error"} /\ ~halted
            THEN UNCHANGED <<status, curPC, posted>>
            ELSE /\ status' = IF halted' THEN "FINISHED" ELSE "STOPPED"
                 /\ PostStop(status', pc')
  /\ UNCHANGED <<stopExec, bp, tempAddr, joinable, th, uiVars, view>>

(* OnSimBreak -> Simulator::BreakExecution *)
Break ==
  /\ ui.ph = "idle" /\ IsRunning
  /\ stopExec' = TRUE
  /\ UNCHANGED <<status, halted, bp, tempAddr, joinable, pc, th, uiVars, curPC, posted,
                 view>>

Abort == /\ halted' = TRUE
         /\ status' = "FINISHED"
         /\ PostStop("FINISHED", pc)

(* OnSimDebugStop -> Simulator::AbortExecution; the command is enabled     *)
(* whatever the status, because Debugger::IsActive() is TRUE.              *)
DebugStop ==
  /\ MayCommand
  /\ Abort
  /\ UNCHANGED <<stopExec, bp, tempAddr, joinable, pc, th, uiVars, view>>

(* Debugger::Restart up to the call of Run: Simulator::Reset, the monitor  *)
(* and the program loaded, PC at the monitor, a temporary breakpoint at    *)
(* the program's start.  The events these calls send are posted one after  *)
(* the other and find the same state, so they are one message here.        *)
Reset == /\ status' = "STOPPED" /\ halted' = FALSE /\ pc' = MonitorStart
         /\ PostStop("STOPPED", MonitorStart)

Reload(map, nxt) ==
  /\ Reset
  /\ bp' = [map EXCEPT ![CodeStart] = {"TEMP_EXEC"}]
  /\ Command("Run", nxt)

(* OnSimRestart *)
Restart ==
  /\ MayCommand /\ IsStopped /\ loaded = "fits"
  /\ Reload(bp, "idle")
  /\ UNCHANGED <<stopExec, tempAddr, joinable, th, marks, loaded, view>>

(* MainFrame::Assemble(true): AbortProg first, then (the assembler having  *)
(* run) all breakpoints are cleared and the new program is loaded ...      *)
AssembleAbort ==
  /\ MayCommand
  /\ Abort
  /\ ui' = Ui("assembled", "Run", "idle")
  /\ UNCHANGED <<stopExec, bp, tempAddr, joinable, pc, th, marks, loaded, view>>

AssembleFail ==
  /\ ui.ph = "assembled"
  /\ ui' = IdleUi
  /\ UNCHANGED <<simVars, th, marks, loaded, curPC, posted, view>>

AssembleLoad ==
  /\ ui.ph = "assembled"
  /\ loaded' = "fits"
  /\ Reload([a \in Addr |-> {}], "marks")
  /\ UNCHANGED <<stopExec, tempAddr, joinable, th, marks, view>>

(* ... unless the program does not fit the memory: then SetProgram throws  *)
(* after the reset and Assemble returns early.  (Restart would throw out   *)
(* of a message handler that catches nothing: it is left out for misfits.) *)
AssembleMisfit ==
  /\ ui.ph = "assembled"
  /\ loaded' = "misfit"
  /\ Reset
  /\ bp' = [a \in Addr |-> {}]
  /\ ui' = IdleUi
  /\ UNCHANGED <<stopExec, tempAddr, joinable, th, marks, view>>

(* ... and, with the monitor already running, the editor's breakpoints are *)
(* set again.                                                              *)
SetMarks ==
  /\ ui.ph = "marks"
  /\ bp' = [a \in Addr |-> IF a \in marks THEN {"EXECUTE"} ELSE bp[a]]
  /\ ui' = IdleUi
  /\ UNCHANGED <<status, stopExec, halted, tempAddr, joinable, pc, th, marks, loaded,
                 curPC, posted, view>>

(* Debugger::ToggleBreakpoint(addr).  GetBreakpoint is true only where the  *)
(* entry is exactly EXECUTE; Remove erases the entry.                      *)
Toggled(a) == IF bp[a] # {"EXECUTE"} THEN SetBp(a, "EXECUTE") ELSE [bp EXCEPT ![a] = {}]

(* MainFrame::OnSimBreakpoint: a breakpoint in the editor, and its mark    *)
ToggleBreakpoint(a) ==
  /\ ui.ph = "idle" /\ loaded # "none"
  /\ bp' = Toggled(a)
  /\ marks' = IF bp[a] # {"EXECUTE"} THEN marks \cup {a} ELSE marks \ {a}
  /\ UNCHANGED <<status, stopExec, halted, tempAddr, joinable, pc, th, ui, loaded, curPC,
                 posted, view>>

(* DisasmView::OnLButtonDown: a breakpoint at any disassembled address,    *)
(* whatever is loaded, and no mark in the editor                           *)
ToggleInDisassembly(a) ==
  /\ ui.ph = "idle"
  /\ bp' = Toggled(a)
  /\ UNCHANGED <<status, stopExec, halted, tempAddr, joinable, pc, th, uiVars, curPC,
                 posted, view>>

-----------------------------------------------------------------------------
(* The user-interface thread: Simulator::Impl::Run, and the message loop *)

UiNext   == Ui(ui.then, "Run", "idle")
UiAt(ph) == Ui(ph, ui.cond, ui.then)

(* Faulty variant of RunCheck: the old thread object is not detached.      *)
RunCheckKeepsThread ==
  /\ ui.ph = "run"
  /\ ui' = IF CanRun THEN UiAt("clear") ELSE UiNext
  /\ UNCHANGED <<simVars, th, marks, loaded, curPC, posted, view>>

RunCheck ==
  /\ ui.ph = "run"
  /\ ui' = IF CanRun THEN UiAt(IF joinable THEN "detach" ELSE "clear") ELSE UiNext
  /\ UNCHANGED <<simVars, th, marks, loaded, curPC, posted, view>>

(* exec_.detach() throws where the ending thread detached it meanwhile;    *)
(* Call() turns that into a return value and nothing is started.           *)
RunDetach ==
  /\ ui.ph = "detach"
  /\ joinable' = FALSE
  /\ ui' = IF joinable THEN UiAt("clear") ELSE UiNext
  /\ UNCHANGED <<status, stopExec, halted, bp, tempAddr, pc, th, marks, loaded, curPC,
                 posted, view>>

(* Faulty variant of RunClear: an old stop request stays.                  *)
RunClearKeepsRequest ==
  /\ ui.ph = "clear"
  /\ ui' = UiAt("spawn")
  /\ UNCHANGED <<simVars, th, marks, loaded, curPC, posted, view>>

RunClear ==
  /\ ui.ph = "clear"
  /\ stopExec' = FALSE
  /\ ui' = UiAt("spawn")
  /\ UNCHANGED <<status, halted, bp, tempAddr, joinable, pc, th, marks, loaded, curPC,
                 posted, view>>

RunSpawn(t) ==
  /\ ui.ph = "spawn"
  /\ t \notin Live
  /\ th' = [th EXCEPT ![t] =
              [ph |-> "start", cond |-> ui.cond, pending |-> FALSE, ret |-> "STOPPED"]]
  /\ ui' = Ui("swap", "Run", ui.then)
  /\ UNCHANGED <<simVars, marks, loaded, curPC, posted, view>>

(* exec_.swap(the new thread object) *)
RunSwap ==
  /\ ui.ph = "swap"
  /\ joinable' = TRUE
  /\ ui' = UiNext
  /\ UNCHANGED <<status, stopExec, halted, bp, tempAddr, pc, th, marks, loaded, curPC,
                 posted, view>>

(* MainFrame::OnExecEvent: every event refreshes the CPU status, all but   *)
(* E_RUNNING the instruction pointer.  The handler shows what it finds, not *)
(* what was posted, so messages of a kind that are pending together are    *)
(* one here.                                                               *)
OnExecEvent(event) ==
  /\ ui.ph = "idle" /\ event \in posted
  /\ posted' = posted \ {event}
  /\ view' = [ptr    |-> IF event = "RUNNING" THEN view.ptr ELSE curPC,
              status |-> status]
  /\ UNCHANGED <<simVars, th, uiVars, curPC>>

-----------------------------------------------------------------------------
(* An execution thread: Simulator::Impl::RunThread and RunSimulation *)

Goto(t, ph)           == th' = [th EXCEPT ![t].ph = ph]
Become(t, ph, ret)    == th' = [th EXCEPT ![t] = At(ph, ret)]
LeaveLoop(t)          == Become(t, "leave", "STOPPED")
ReturnWith(t, result) == Become(t, "publish", result)
End(t)                == Become(t, "gone", "STOPPED")

ThreadStart(t) ==
  /\ th[t].ph = "start"
  /\ status' = "IS_RUNNING"
  /\ Goto(t, "announce")
  /\ UNCHANGED <<stopExec, halted, bp, tempAddr, joinable, pc, uiVars, curPC, posted, view>>

ThreadAnnounce(t) ==
  /\ th[t].ph = "announce"
  /\ posted' = posted \cup {"RUNNING"}
  /\ Goto(t, "loop")
  /\ UNCHANGED <<simVars, uiVars, curPC, view>>

(* Faulty variant of LoopStop: the stop request is read once, before the loop. *)
LoopStopAtStartOnly(t) ==
  /\ th[t].ph = "loop" /\ stopExec /\ ~th[t].pending
  /\ LeaveLoop(t)
  /\ UNCHANGED <<simVars, uiVars, curPC, posted, view>>

(* The top of the loop: the stop request, the halted flag, a breakpoint    *)
(* (an EXECUTE breakpoint does not count for the first instruction).       *)
LoopStop(t) ==
  /\ th[t].ph = "loop" /\ stopExec
  /\ LeaveLoop(t)
  /\ UNCHANGED <<simVars, uiVars, curPC, posted, view>>

(* Faulty variant of LoopHalted: the halted flag is read once, before the loop. *)
LoopHaltedAtStartOnly(t) ==
  /\ th[t].ph = "loop" /\ ~stopExec /\ halted /\ ~th[t].pending
  /\ ReturnWith(t, "FINISHED")
  /\ UNCHANGED <<simVars, uiVars, curPC, posted, view>>

LoopHalted(t) ==
  /\ th[t].ph = "loop" /\ ~stopExec /\ halted
  /\ ReturnWith(t, "FINISHED")
  /\ UNCHANGED <<simVars, uiVars, curPC, posted, view>>

LoopBreakpoint(t) ==
  /\ th[t].ph = "loop" /\ ~stopExec /\ ~halted /\ Hit(pc)
  /\ \/ "TEMP_EXEC" \in bp[pc] /\ ReturnWith(t, "STOPPED")
     \/ "TEMP_EXEC" \notin bp[pc] /\ th[t].pending /\ ReturnWith(t, "BREAKPOINT_HIT")
  /\ bp' = ClearTemp(pc)
  /\ UNCHANGED <<status, stopExec, halted, tempAddr, joinable, pc, uiVars, curPC, posted,
                 view>>

LoopContinue(t) ==
  /\ th[t].ph = "loop" /\ ~stopExec /\ ~halted
  /\ Hit(pc) => "TEMP_EXEC" \notin bp[pc] /\ ~th[t].pending
  /\ th' = [th EXCEPT ![t] =
              [ph |-> "exec", cond |-> th[t].cond, pending |-> TRUE, ret |-> "STOPPED"]]
  /\ UNCHANGED <<simVars, uiVars, curPC, posted, view>>

(* ExecuteInstruction, the TillRet test, the peripherals, the SingleStep   *)
(* test.  Halted meanwhile, ExecuteInstruction does nothing.               *)
ExecuteSkip(t) ==
  /\ th[t].ph = "exec" /\ halted
  /\ IF th[t].cond = "SingleStep" THEN LeaveLoop(t) ELSE Goto(t, "loop")
  /\ UNCHANGED <<simVars, uiVars, curPC, posted, view>>

Execute(t, e) ==
  /\ th[t].ph = "exec" /\ ~halted /\ e \in Behaviour[pc]
  /\ e.kind \in {"step", "return", "halt"}
  /\ pc' = e.to
  /\ halted' = (e.kind = "halt")
  /\ IF \/ th[t].cond = "SingleStep"
        \/ th[t].cond = "TillRet" /\ e.kind = "return"
       THEN LeaveLoop(t) ELSE Goto(t, "loop")
  /\ UNCHANGED <<status, stopExec, bp, tempAddr, joinable, uiVars, curPC, posted, view>>

(* An exception the debugger wants to see: Debugger::Exception breaks the  *)
(* execution and rewinds PC (an E_REGISTER event).                         *)
ExecuteFault(t, e) ==
  /\ th[t].ph = "exec" /\ ~halted /\ e \in Behaviour[pc] /\ e.kind = "fault"
  /\ stopExec' = TRUE
  /\ PostStop(status, pc)
  /\ Goto(t, "caught")
  /\ UNCHANGED <<status, halted, bp, tempAddr, joinable, pc, uiVars, view>>

(* ExceptionReported leaves RunSimulation through its early return.        *)
Caught(t) ==
  /\ th[t].ph = "caught"
  /\ ReturnWith(t, IF halted THEN "FINISHED" ELSE "EXCEPTION")
  /\ UNCHANGED <<simVars, uiVars, curPC, posted, view>>

(* FaultOnFault is swallowed: execution stops as if nothing happened.      *)
ExecuteDouble(t, e) ==
  /\ th[t].ph = "exec" /\ ~halted /\ e \in Behaviour[pc] /\ e.kind = "double"
  /\ pc' = e.to
  /\ LeaveLoop(t)
  /\ UNCHANGED <<status, stopExec, halted, bp, tempAddr, joinable, uiVars, curPC, posted,
                 view>>

(* Faulty variant of ExecuteError: the catch-all leaves status_ alone.     *)
ExecuteErrorSilently(t, e) ==
  /\ th[t].ph = "exec" /\ ~halted /\ e \in Behaviour[pc] /\ e.kind = "error"
  /\ End(t)
  /\ UNCHANGED <<simVars, uiVars, curPC, posted, view>>

(* Any other C++ exception: RunThread's catch-all, and the thread is gone. *)
ExecuteError(t, e) ==
  /\ th[t].ph = "exec" /\ ~halted /\ e \in Behaviour[pc] /\ e.kind = "error"
  /\ status' = "INTERNAL_ERROR"
  /\ End(t)
  /\ UNCHANGED <<stopExec, halted, bp, tempAddr, joinable, pc, uiVars, curPC, posted, view>>

(* Faulty variant of Leave: STOPPED even for a halted CPU.                 *)
LeaveStopped(t) ==
  /\ th[t].ph = "leave"
  /\ bp' = ClearIfTemp(tempAddr)
  /\ tempAddr' = NoAddr
  /\ ReturnWith(t, "STOPPED")
  /\ UNCHANGED <<status, stopExec, halted, joinable, pc, uiVars, curPC, posted, view>>

(* Behind the loop: the temporary breakpoint of StepOver is cleared.       *)
Leave(t) ==
  /\ th[t].ph = "leave"
  /\ bp' = ClearIfTemp(tempAddr)
  /\ tempAddr' = NoAddr
  /\ ReturnWith(t, IF halted THEN "FINISHED" ELSE "STOPPED")
  /\ UNCHANGED <<status, stopExec, halted, joinable, pc, uiVars, curPC, posted, view>>

Publish(t) ==
  /\ th[t].ph = "publish"
  /\ status' = th[t].ret
  /\ Become(t, "event", "STOPPED")
  /\ UNCHANGED <<stopExec, halted, bp, tempAddr, joinable, pc, uiVars, curPC, posted, view>>

(* SimEvent reads the status, then stores the position and posts.          *)
EventRead(t) ==
  /\ th[t].ph = "event"
  /\ Become(t, "post", status)
  /\ UNCHANGED <<simVars, uiVars, curPC, posted, view>>

(* Faulty variant of EventPost: no message to the main window.             *)
EventPostNothing(t) ==
  /\ th[t].ph = "post"
  /\ curPC' = EventPC(th[t].ret, pc)
  /\ Become(t, "join", "STOPPED")
  /\ UNCHANGED <<simVars, uiVars, posted, view>>

EventPost(t) ==
  /\ th[t].ph = "post"
  /\ PostStop(th[t].ret, pc)
  /\ Become(t, "join", "STOPPED")
  /\ UNCHANGED <<simVars, uiVars, view>>

ThreadJoinable(t) ==
  /\ th[t].ph = "join"
  /\ Become(t, IF joinable THEN "detach" ELSE "gone", "STOPPED")
  /\ UNCHANGED <<simVars, uiVars, curPC, posted, view>>

(* detach() throws where the user-interface thread detached exec_ in       *)
(* between, and the catch-all overwrites the status.                       *)
ThreadDetach(t) ==
  /\ th[t].ph = "detach"
  /\ joinable' = FALSE
  /\ status' = IF joinable THEN status ELSE "INTERNAL_ERROR"
  /\ End(t)
  /\ UNCHANGED <<stopExec, halted, bp, tempAddr, pc, uiVars, curPC, posted, view>>

-----------------------------------------------------------------------------

User ==
  \/ \E c \in Condition : Go(c)
  \/ StepOver \/ StepIntoException \/ Break \/ DebugStop \/ Restart \/ AssembleAbort
  \/ \E a \in Lines : \/ RunToLine(a) \/ SkipToLine(a)
                      \/ ToggleBreakpoint(a) \/ ToggleInDisassembly(a)

UiStep ==
  \/ AssembleFail \/ AssembleLoad \/ AssembleMisfit \/ SetMarks
  \/ RunCheck \/ RunDetach \/ RunClear \/ RunSwap
  \/ \E t \in Threads : RunSpawn(t)
  \/ \E event \in Events : OnExecEvent(event)

ThreadStep(t) ==
  \/ ThreadStart(t) \/ ThreadAnnounce(t)
  \/ LoopStop(t) \/ LoopHalted(t) \/ LoopBreakpoint(t) \/ LoopContinue(t)
  \/ ExecuteSkip(t)
  \/ \E e \in Behaviour[pc] : \/ Execute(t, e) \/ ExecuteFault(t, e)
                              \/ ExecuteDouble(t, e) \/ ExecuteError(t, e)
  \/ Caught(t) \/ Leave(t) \/ Publish(t) \/ EventRead(t) \/ EventPost(t)
  \/ ThreadJoinable(t) \/ ThreadDetach(t)

Next == User \/ UiStep \/ \E t \in Threads : ThreadStep(t)

Spec == Init /\ [][Next]_vars

(* The operating system schedules every thread that can run.  Windows      *)
(* hands out posted messages before input, so commands cannot keep the     *)
(* message loop from a posted event for ever (strong fairness: a command   *)
(* in progress disables the handler).  The user need never do anything.    *)
Fairness ==
  /\ WF_vars(UiStep)
  /\ \A event \in Events : SF_vars(OnExecEvent(event))
  /\ \A t \in Threads : WF_vars(ThreadStep(t))

FairSpec == Spec /\ Fairness

-----------------------------------------------------------------------------
(* Properties *)

(* Every variable stays in its range; a breakpoint entry never combines    *)
(* bits (Breakpoints::Set overwrites the entry).                           *)
TypeOK ==
  /\ status \in Status /\ stopExec \in BOOLEAN /\ halted \in BOOLEAN
  /\ bp \in BpMap
  /\ tempAddr \in Addr \cup {NoAddr} /\ joinable \in BOOLEAN /\ pc \in Addr
  /\ th \in [Threads -> ThreadType] /\ ui \in UiType
  /\ marks \subseteq Addr /\ loaded \in Loaded
  /\ curPC \in Addr \cup {NoAddr}
  /\ posted \subseteq Events
  /\ view \in [ptr : Addr \cup {NoAddr}, status : Status]

(* The status says "running" only while some execution thread will still   *)
(* replace it: RunThread cannot leave the debugger, whose commands all     *)
(* test the status, waiting for a thread that is gone, whatever commands,  *)
(* aborts and second threads interleave with it.                           *)
Working == {"announce", "loop", "exec", "caught", "leave", "publish"}
RunningHasThread == IsRunning => \E t \in Threads : th[t].ph \in Working

(* Simulator::Impl::Run never replaces a std::thread object that is still  *)
(* joinable, which would terminate the process.                            *)
NoTerminate == ui.ph \in {"clear", "spawn", "swap"} => ~joinable

(* A stop request that stands while the program runs and no Run command is *)
(* in progress is honoured: Run's stop_execution_ = false cannot swallow   *)
(* it, because the status must have left "running" for Run to get there.   *)
BreakStops == (stopExec /\ IsRunning /\ ui.ph = "idle") ~> ~IsRunning

(* A halted simulator (HALT, or AbortExecution under a running program)    *)
(* gets rid of all its threads, unless it is reset first.                  *)
HaltStopsThreads == halted ~> (Live = {} \/ ~halted)

(* Once everything is quiet the halted flag and the status agree: the Go   *)
(* command is offered exactly when the CPU would execute (AbortExecution,  *)
(* Reset and the returns of RunSimulation).                                *)
HaltedIffFinished ==
  Quiet /\ status # "INTERNAL_ERROR" => (halted <=> status = "FINISHED")

(* Once everything is quiet and all messages are handled, the views show   *)
(* the status and position the simulator is in (SimEvent, OnExecEvent).    *)
ViewSettles ==
  Quiet /\ posted = {} => view = [ptr |-> EventPC(status, pc), status |-> status]

(* The user who broke the execution gets to see that it stopped, unless    *)
(* they start the program again first.                                     *)
BreakShown ==
  (stopExec /\ IsRunning /\ ui.ph = "idle") ~> (view.status # "IS_RUNNING" \/ ~stopExec)

(* The run the only execution thread carries out, as Execution sees it: no *)
(* run before RunThread has set the status, none after its second setting. *)
RunSeen(r) ==
  CASE r.ph \in {"announce", "loop"} ->
         [at |-> IF r.pending THEN "check" ELSE "first", cond |-> r.cond, outcome |-> "none"]
    [] r.ph = "exec"    -> [at |-> "execute", cond |-> r.cond, outcome |-> "none"]
    [] r.ph = "caught"  -> [at |-> "end", cond |-> "Run", outcome |-> "EXCEPTION"]
    [] r.ph = "leave"   -> [at |-> "end", cond |-> "Run",
                            outcome |-> IF halted THEN "FINISHED" ELSE "STOPPED"]
    [] r.ph = "publish" -> [at |-> "end", cond |-> "Run", outcome |-> r.ret]
    [] OTHER            -> [at |-> "rest", cond |-> "Run", outcome |-> "none"]

CurrentRun ==
  IF Live = {} THEN RunSeen(IdleThread) ELSE RunSeen(th[CHOOSE t \in Live : TRUE])

Exec == INSTANCE Execution WITH
  mode <- status, breaks <- bp, asked <- IsRunning /\ stopExec, run <- CurrentRun

(* With a user who waits for the thread, Run, RunThread and RunSimulation, *)
(* with all they share, amount to a machine without threads: a stop        *)
(* request made after the status became IS_RUNNING is neither lost nor     *)
(* left over for the next run, lets one instruction finish at most, a      *)
(* single step takes one instruction at most, a run ends with the status   *)
(* that says why, and no command touches a program that runs.              *)
ImplementsExecution == Exec!Spec
=============================================================================
