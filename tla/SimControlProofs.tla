-------------------------- MODULE SimControlProofs --------------------------
(***************************************************************************)
(* Proofs about SimControl, for any program, any number of threads and any *)
(* editor lines.  The theorems named Serialised... are about the user who  *)
(* waits for one execution thread to end before starting the next,         *)
(* SerialisedViewSettles also about a program that meets no internal error *)
(* and steps into no fault on fault; the others hold without these         *)
(* assumptions.                                                            *)
(***************************************************************************)
EXTENDS SimControl, TLAPS

(* Types of the values the operators on threads and commands build.        *)
LEMMA AtType ==
  ASSUME NEW ph \in Phase, NEW ret \in Status PROVE At(ph, ret) \in ThreadType
BY DEF At, ThreadType, Condition

LEMMA UiTypeOK ==
  ASSUME NEW ph \in UiPhase, NEW c \in Condition, NEW nxt \in {"idle", "marks"}
  PROVE  Ui(ph, c, nxt) \in UiType
BY DEF Ui, UiType

LEMMA UiFields ==
  ASSUME ui \in UiType
  PROVE  /\ ui.ph \in UiPhase /\ ui.cond \in Condition /\ ui.then \in {"idle", "marks"}
         /\ UiNext \in UiType
         /\ \A ph \in UiPhase : UiAt(ph) \in UiType
BY DEF UiType, UiNext, UiAt, Ui, UiPhase, Condition

LEMMA GotoType ==
  ASSUME NEW t \in Threads, NEW ph \in Phase, th \in [Threads -> ThreadType], Goto(t, ph)
  PROVE  th' \in [Threads -> ThreadType]
BY DEF Goto, ThreadType

LEMMA BecomeType ==
  ASSUME NEW t \in Threads, NEW ph \in Phase, NEW ret \in Status,
         th \in [Threads -> ThreadType], Become(t, ph, ret)
  PROVE  th' \in [Threads -> ThreadType]
BY AtType DEF Become

(* Setting, removing and clearing leave a map of breakpoint entries.       *)
LEMMA BpType ==
  ASSUME bp \in BpMap, NEW a \in Addr, NEW type \in BptType
  PROVE  /\ SetBp(a, type) \in BpMap
         /\ [bp EXCEPT ![a] = {}] \in BpMap
BY DEF BpMap, SetBp, BptType

LEMMA ClearType ==
  ASSUME bp \in BpMap, NEW a \in Addr \cup {NoAddr}
  PROVE  /\ a \in Addr => ClearTemp(a) \in BpMap
         /\ ClearIfTemp(a) \in BpMap
<1>1. \A x \in Addr : ClearTemp(x) \in BpMap
  BY DEF BpMap, ClearTemp, BptType
<1>. QED
  BY <1>1 DEF ClearIfTemp

(* Executing code stays in the program.                                    *)
LEMMA EffectTo ==
  ASSUME pc \in Addr, NEW e \in Behaviour[pc] PROVE e \in Effect /\ e.to \in Addr
BY ProgramAssumption DEF Effect

LEMMA EmptyType == [a \in Addr |-> {}] \in BpMap
BY DEF BpMap

LEMMA TempType ==
  ASSUME bp \in BpMap
  PROVE  /\ [bp EXCEPT ![CodeStart] = {"TEMP_EXEC"}] \in BpMap
         /\ [[a \in Addr |-> {}] EXCEPT ![CodeStart] = {"TEMP_EXEC"}] \in BpMap
BY DEF BpMap, BptType

LEMMA MarksType ==
  ASSUME bp \in BpMap
  PROVE  [a \in Addr |-> IF a \in marks THEN {"EXECUTE"} ELSE bp[a]] \in BpMap
BY DEF BpMap, BptType

(* Types of the thread table after a thread is started or enters the loop. *)
LEMMA SpawnType ==
  ASSUME th \in [Threads -> ThreadType], NEW t \in Threads,
         NEW ph \in {"start", "exec"}, NEW c \in Condition, NEW p \in BOOLEAN
  PROVE  [th EXCEPT ![t] = [ph |-> ph, cond |-> c, pending |-> p, ret |-> "STOPPED"]]
           \in [Threads -> ThreadType]
BY DEF ThreadType, Phase, Status

LEMMA ThreadFields ==
  ASSUME th \in [Threads -> ThreadType], NEW t \in Threads
  PROVE  th[t].ph \in Phase /\ th[t].cond \in Condition /\ th[t].ret \in Status
BY DEF ThreadType

(* The type invariant holds initially and every step keeps it.             *)
LEMMA TypeInit == Init => TypeOK
<1>. SUFFICES ASSUME Init PROVE TypeOK
  OBVIOUS
<1>1. IdleThread \in ThreadType /\ IdleUi \in UiType
  BY AtType, UiTypeOK DEF IdleThread, IdleUi, Phase, Status, UiPhase, Condition
<1>2. bp \in BpMap
  BY EmptyType DEF Init
<1>. QED
  BY <1>1, <1>2, AddrAssumption DEF Init, TypeOK, Status, Events, Loaded

LEMMA TypeStep == TypeOK /\ [Next]_vars => TypeOK'
<1>. SUFFICES ASSUME TypeOK, [Next]_vars PROVE TypeOK'
  OBVIOUS
<1>. USE DEF TypeOK, simVars, uiVars
<1>1. CASE UNCHANGED vars
  BY <1>1 DEF vars
<1>2. ASSUME NEW c \in Condition, Go(c) PROVE TypeOK'
  BY <1>2, UiTypeOK DEF Go, Command, UiPhase
<1>3. CASE StepOver
  BY <1>3, UiTypeOK, BpType, ProgramAssumption DEF StepOver, Command, UiPhase, Condition, BptType
<1>4. CASE StepIntoException
  <2>1. PICK e \in Behaviour[pc] :
          /\ pc' = IF halted THEN pc ELSE e.to
          /\ halted' = (halted \/ e.kind = "halt")
          /\ \/ UNCHANGED <<status, curPC, posted>>
             \/ status' \in {"FINISHED", "STOPPED"} /\ PostStop(status', pc')
    BY <1>4 DEF StepIntoException
  <2>2. pc' \in Addr /\ halted' \in BOOLEAN
    BY <2>1, EffectTo
  <2>3. /\ status' \in Status /\ posted' \subseteq Events
        /\ curPC' \in Addr \cup {NoAddr}
    BY <2>1, <2>2 DEF PostStop, EventPC, Events, Status
  <2>4. UNCHANGED <<stopExec, bp, tempAddr, joinable, th, ui, marks, loaded, view>>
    BY <1>4 DEF StepIntoException
  <2>. QED
    BY <2>2, <2>3, <2>4
<1>5. CASE Break
  BY <1>5 DEF Break
<1>6. CASE DebugStop
  BY <1>6 DEF DebugStop, Abort, PostStop, EventPC, Events, Status
<1>7. CASE Restart
  BY <1>7, UiTypeOK, AddrAssumption, TempType DEF Restart, Reload, Reset, Command, PostStop, EventPC, Events, Status, UiPhase, Condition
<1>8. CASE AssembleAbort
  BY <1>8, UiTypeOK DEF AssembleAbort, Abort, PostStop, EventPC, Events, Status, UiPhase, Condition
<1>9. ASSUME NEW a \in Lines, RunToLine(a) PROVE TypeOK'
  BY <1>9, UiTypeOK, BpType, AddrAssumption DEF RunToLine, Command, UiPhase, Condition, BptType
<1>10. ASSUME NEW a \in Lines, SkipToLine(a) PROVE TypeOK'
  BY <1>10, AddrAssumption DEF SkipToLine, PostStop, EventPC, Events
<1>11. ASSUME NEW a \in Lines, ToggleBreakpoint(a) \/ ToggleInDisassembly(a) PROVE TypeOK'
  <2>1. Toggled(a) \in BpMap
    BY BpType, AddrAssumption DEF Toggled, BptType
  <2>. QED
    BY <1>11, <2>1, AddrAssumption DEF ToggleBreakpoint, ToggleInDisassembly
<1>12. CASE AssembleFail
  BY <1>12, UiTypeOK DEF AssembleFail, IdleUi, UiPhase, Condition
<1>13. CASE AssembleLoad
  BY <1>13, UiTypeOK, AddrAssumption, TempType DEF AssembleLoad, Reload, Reset, Command, PostStop, EventPC, Events, Status, UiPhase, Condition, Loaded
<1>14. CASE AssembleMisfit
  BY <1>14, UiTypeOK, AddrAssumption, EmptyType DEF AssembleMisfit, Reset, IdleUi, PostStop, EventPC, Events, Status, UiPhase, Condition, Loaded
<1>15. CASE SetMarks
  BY <1>15, UiTypeOK, MarksType DEF SetMarks, IdleUi, UiPhase, Condition
<1>16. CASE RunCheck
  BY <1>16, UiFields DEF RunCheck, UiPhase
<1>17. CASE RunDetach
  BY <1>17, UiFields DEF RunDetach, UiPhase
<1>18. CASE RunClear
  BY <1>18, UiFields DEF RunClear, UiPhase
<1>19. ASSUME NEW t \in Threads, RunSpawn(t) PROVE TypeOK'
  BY <1>19, UiFields, UiTypeOK, SpawnType DEF RunSpawn, UiPhase, Condition
<1>20. CASE RunSwap
  BY <1>20, UiFields DEF RunSwap
<1>21. ASSUME NEW event \in Events, OnExecEvent(event) PROVE TypeOK'
  BY <1>21 DEF OnExecEvent
<1>22. ASSUME NEW t \in Threads, ThreadStart(t) PROVE TypeOK'
  BY <1>22, GotoType DEF ThreadStart, Phase, Status
<1>23. ASSUME NEW t \in Threads, ThreadAnnounce(t) PROVE TypeOK'
  BY <1>23, GotoType DEF ThreadAnnounce, Phase, Events
<1>24. ASSUME NEW t \in Threads, LoopStop(t) PROVE TypeOK'
  BY <1>24, BecomeType DEF LoopStop, LeaveLoop, Phase, Status
<1>25. ASSUME NEW t \in Threads, LoopHalted(t) PROVE TypeOK'
  BY <1>25, BecomeType DEF LoopHalted, ReturnWith, Phase, Status
<1>26. ASSUME NEW t \in Threads, LoopBreakpoint(t) PROVE TypeOK'
  BY <1>26, BecomeType, ClearType DEF LoopBreakpoint, ReturnWith, Phase, Status
<1>27. ASSUME NEW t \in Threads, LoopContinue(t) PROVE TypeOK'
  BY <1>27, SpawnType, ThreadFields DEF LoopContinue
<1>28. ASSUME NEW t \in Threads, ExecuteSkip(t) PROVE TypeOK'
  BY <1>28, BecomeType, GotoType DEF ExecuteSkip, LeaveLoop, Phase, Status
<1>29. ASSUME NEW t \in Threads, NEW e \in Behaviour[pc], Execute(t, e) PROVE TypeOK'
  BY <1>29, BecomeType, GotoType, EffectTo DEF Execute, LeaveLoop, Phase, Status
<1>30. ASSUME NEW t \in Threads, NEW e \in Behaviour[pc], ExecuteFault(t, e) PROVE TypeOK'
  BY <1>30, GotoType DEF ExecuteFault, PostStop, EventPC, Events, Phase
<1>31. ASSUME NEW t \in Threads, NEW e \in Behaviour[pc], ExecuteDouble(t, e) PROVE TypeOK'
  BY <1>31, BecomeType, EffectTo DEF ExecuteDouble, LeaveLoop, Phase, Status
<1>32. ASSUME NEW t \in Threads, NEW e \in Behaviour[pc], ExecuteError(t, e) PROVE TypeOK'
  BY <1>32, BecomeType DEF ExecuteError, End, Phase, Status
<1>33. ASSUME NEW t \in Threads, Leave(t) PROVE TypeOK'
  BY <1>33, BecomeType, ClearType DEF Leave, ReturnWith, Phase, Status
<1>34. ASSUME NEW t \in Threads, Publish(t) PROVE TypeOK'
  BY <1>34, BecomeType, ThreadFields DEF Publish, Phase, Status
<1>35. ASSUME NEW t \in Threads, EventRead(t) PROVE TypeOK'
  BY <1>35, BecomeType DEF EventRead, Phase
<1>36. ASSUME NEW t \in Threads, EventPost(t) PROVE TypeOK'
  BY <1>36, BecomeType DEF EventPost, PostStop, EventPC, Events, Phase, Status
<1>37. ASSUME NEW t \in Threads, ThreadJoinable(t) PROVE TypeOK'
  BY <1>37, BecomeType DEF ThreadJoinable, Phase, Status
<1>38. ASSUME NEW t \in Threads, ThreadDetach(t) PROVE TypeOK'
  BY <1>38, BecomeType DEF ThreadDetach, End, Phase, Status
<1>39. ASSUME NEW t \in Threads, Caught(t) PROVE TypeOK'
  BY <1>39, BecomeType DEF Caught, ReturnWith, Phase, Status
<1>. QED
  BY <1>1, <1>2, <1>3, <1>4, <1>5, <1>6, <1>7, <1>8, <1>9, <1>10, <1>11, <1>12, <1>13,
    <1>14, <1>15, <1>16, <1>17, <1>18, <1>19, <1>20, <1>21, <1>22, <1>23, <1>24, <1>25,
    <1>26, <1>27, <1>28, <1>29, <1>30, <1>31, <1>32, <1>33, <1>34, <1>35, <1>36, <1>37,
    <1>38, <1>39
  DEF Next, User, UiStep, ThreadStep

(* Whatever commands, threads and messages interleave, every variable      *)
(* keeps to its range; in particular no breakpoint entry combines the      *)
(* EXECUTE and the TEMP_EXEC bit (Breakpoints::Set overwrites it).         *)
THEOREM TypeCorrect == Spec => []TypeOK
BY TypeInit, TypeStep, PTL DEF Spec

-----------------------------------------------------------------------------
(* Simulator::Impl::Run never swaps out a joinable std::thread, however    *)
(* many commands race with threads that end: its own test and detach come  *)
(* first, and no other thread ever makes exec_ joinable.                   *)
THEOREM NeverTerminates == Spec => []NoTerminate
<1>1. Init => NoTerminate
  BY DEF Init, NoTerminate, IdleUi, Ui
<1>2. TypeOK /\ NoTerminate /\ [Next]_vars => NoTerminate'
  <2>. SUFFICES ASSUME TypeOK, NoTerminate, [Next]_vars PROVE NoTerminate'
    OBVIOUS
  <2>. USE DEF NoTerminate, simVars, uiVars
  <2>1. CASE UNCHANGED vars
    BY <2>1 DEF vars
  <2>2. CASE User
    BY <2>2 DEF User, Go, StepOver, StepIntoException, Break, DebugStop, Restart, Reload,
      AssembleAbort, RunToLine, SkipToLine, ToggleBreakpoint, ToggleInDisassembly, Command,
      Ui
  <2>3. CASE UiStep
    <3>1. CASE AssembleFail \/ AssembleLoad \/ AssembleMisfit \/ SetMarks
      BY <3>1 DEF AssembleFail, AssembleLoad, AssembleMisfit, SetMarks, Reload, Command,
        IdleUi, Ui
    <3>2. CASE RunCheck \/ RunDetach \/ RunSwap
      BY <3>2, UiFields DEF TypeOK, RunCheck, RunDetach, RunSwap, UiNext, UiAt, Ui
    <3>3. CASE RunClear \/ \E t \in Threads : RunSpawn(t)
      BY <3>3 DEF RunClear, RunSpawn, UiAt, Ui
    <3>4. CASE \E event \in Events : OnExecEvent(event)
      BY <3>4 DEF OnExecEvent
    <3>. QED
      BY <2>3, <3>1, <3>2, <3>3, <3>4 DEF UiStep
  <2>4. ASSUME NEW t \in Threads, ThreadStep(t) PROVE NoTerminate'
    <3>1. ui' = ui /\ (joinable' = joinable \/ joinable' = FALSE)
      BY <2>4 DEF ThreadStep, ThreadStart, ThreadAnnounce, LoopStop, LoopHalted,
        LoopBreakpoint, LoopContinue, ExecuteSkip, Execute, ExecuteFault, Caught,
        ExecuteDouble, ExecuteError, Leave, Publish, EventRead, EventPost, ThreadJoinable, ThreadDetach
    <3>. QED
      BY <3>1
  <2>. QED
    BY <2>1, <2>2, <2>3, <2>4 DEF Next
<1>. QED
  BY <1>1, <1>2, TypeCorrect, PTL DEF Spec

-----------------------------------------------------------------------------
(* What a thread is about to publish is never "running".                   *)
PublishesStop == \A t \in Threads : th[t].ph = "publish" => th[t].ret # "IS_RUNNING"

RunInv == TypeOK /\ PublishesStop /\ RunningHasThread

(* How moving one thread changes the thread table.                         *)
LEMMA GotoMove ==
  ASSUME th \in [Threads -> ThreadType], NEW t \in Threads, NEW ph \in Phase, Goto(t, ph)
  PROVE  th'[t].ph = ph /\ \A u \in Threads \ {t} : th'[u] = th[u]
<1>1. th[t] \in ThreadType
  OBVIOUS
<1>2. [th[t] EXCEPT !.ph = ph].ph = ph
  BY <1>1 DEF ThreadType
<1>. QED
  BY <1>2 DEF Goto

LEMMA BecomeMove ==
  ASSUME th \in [Threads -> ThreadType], NEW t \in Threads, NEW ph, NEW ret,
         Become(t, ph, ret)
  PROVE  /\ th'[t].ph = ph /\ th'[t].ret = ret
         /\ \A u \in Threads \ {t} : th'[u] = th[u]
BY DEF Become, At

(* A thread that goes on working keeps the status it found or set.         *)
LEMMA StaysWorking ==
  ASSUME RunInv, NEW t \in Threads, th'[t].ph \in Working \ {"publish"},
         \A u \in Threads \ {t} : th'[u] = th[u]
  PROVE  PublishesStop' /\ RunningHasThread'
BY DEF RunInv, PublishesStop, RunningHasThread, IsRunning, Working

(* Its strengthening always holds.                                         *)
LEMMA RunningAlways == Spec => []RunInv
<1>1. Init => RunInv
  BY TypeInit DEF Init, RunInv, PublishesStop, RunningHasThread, IsRunning, IdleThread, At
<1>2. RunInv /\ [Next]_vars => RunInv'
  <2>. SUFFICES ASSUME RunInv, [Next]_vars PROVE PublishesStop' /\ RunningHasThread'
    BY TypeStep DEF RunInv
  <2>0. TypeOK /\ th \in [Threads -> ThreadType]
    BY DEF RunInv, TypeOK
  <2>. USE DEF simVars, uiVars
  <2>1. CASE th' = th /\ (status' = status \/ status' # "IS_RUNNING")
    BY <2>1 DEF RunInv, PublishesStop, RunningHasThread, IsRunning, Working
  <2>2. CASE UNCHANGED vars
    BY <2>1, <2>2 DEF vars
  <2>3. CASE User
    BY <2>1, <2>3 DEF User, Go, StepOver, StepIntoException, Break, DebugStop, Abort,
      Restart, Reload, Reset, AssembleAbort, RunToLine, SkipToLine, ToggleBreakpoint,
      ToggleInDisassembly
  <2>4. CASE \/ AssembleFail \/ AssembleLoad \/ AssembleMisfit \/ SetMarks
             \/ RunCheck \/ RunDetach \/ RunClear \/ RunSwap
             \/ \E event \in Events : OnExecEvent(event)
    BY <2>1, <2>4 DEF AssembleFail, AssembleLoad, AssembleMisfit, SetMarks, Reload, Reset,
      RunCheck, RunDetach, RunClear, RunSwap, OnExecEvent
  <2>5. ASSUME NEW t \in Threads, RunSpawn(t) PROVE PublishesStop' /\ RunningHasThread'
    <3>1. th[t].ph = "gone" /\ th'[t].ph = "start" /\ status' = status
      BY <2>0, <2>5 DEF RunSpawn, Live
    <3>2. \A u \in Threads \ {t} : th'[u] = th[u]
      BY <2>0, <2>5 DEF RunSpawn
    <3>. QED
      BY <3>1, <3>2 DEF RunInv, PublishesStop, RunningHasThread, IsRunning, Working
  <2>6. ASSUME NEW t \in Threads, ThreadStep(t) PROVE PublishesStop' /\ RunningHasThread'
    <3>. USE <2>0, BecomeMove
    <3>1. CASE ThreadStart(t) \/ ThreadAnnounce(t)
      BY <3>1, GotoMove, StaysWorking DEF ThreadStart, ThreadAnnounce, Phase, Working
    <3>2. CASE LoopStop(t) \/ ExecuteSkip(t)
      BY <3>2, GotoMove, StaysWorking DEF LoopStop, ExecuteSkip, LeaveLoop, Phase, Working
    <3>3. CASE LoopContinue(t)
      BY <3>3, StaysWorking DEF LoopContinue, Working
    <3>4. ASSUME NEW e \in Behaviour[pc], Execute(t, e) \/ ExecuteDouble(t, e)
          PROVE  PublishesStop' /\ RunningHasThread'
      BY <3>4, GotoMove, StaysWorking DEF Execute, ExecuteDouble, LeaveLoop, Phase, Working
    <3>5. ASSUME NEW result \in Status \ {"IS_RUNNING"}, ReturnWith(t, result)
          PROVE  PublishesStop' /\ RunningHasThread'
      BY <3>5 DEF ReturnWith, RunInv, PublishesStop, RunningHasThread, Working
    <3>6. CASE LoopHalted(t) \/ LoopBreakpoint(t) \/ Caught(t) \/ Leave(t)
      BY <3>5, <3>6 DEF LoopHalted, LoopBreakpoint, Caught, Leave, Status
    <3>7. ASSUME NEW e \in Behaviour[pc], ExecuteFault(t, e)
          PROVE  PublishesStop' /\ RunningHasThread'
      BY <3>7, GotoMove, StaysWorking DEF ExecuteFault, Phase, Working
    <3>8. ASSUME NEW e \in Behaviour[pc], ExecuteError(t, e)
          PROVE  PublishesStop' /\ RunningHasThread'
      BY <3>8 DEF ExecuteError, End, RunInv, PublishesStop, RunningHasThread, IsRunning
    <3>9. CASE Publish(t)
      BY <3>9 DEF Publish, RunInv, PublishesStop, RunningHasThread, IsRunning
    <3>10. CASE EventRead(t) \/ EventPost(t) \/ ThreadJoinable(t) \/ ThreadDetach(t)
      <4>1. /\ th[t].ph \notin Working /\ th'[t].ph \notin Working
            /\ \A u \in Threads \ {t} : th'[u] = th[u]
        BY <3>10 DEF EventRead, EventPost, ThreadJoinable, ThreadDetach, End, Working
      <4>2. status' = status \/ status' = "INTERNAL_ERROR"
        BY <3>10 DEF EventRead, EventPost, ThreadJoinable, ThreadDetach
      <4>. QED
        BY <4>1, <4>2 DEF RunInv, PublishesStop, RunningHasThread, IsRunning, Working
    <3>. QED
      BY <2>6, <3>1, <3>2, <3>3, <3>4, <3>6, <3>7, <3>8, <3>9, <3>10 DEF ThreadStep
  <2>. QED
    BY <2>2, <2>3, <2>4, <2>5, <2>6 DEF Next, UiStep
<1>. QED
  BY <1>1, <1>2, PTL DEF Spec

(* The debugger never waits for a thread that is gone: whenever the status *)
(* is IS_RUNNING some thread will still publish another one.  The          *)
(* strengthening is that what a thread is about to publish is not          *)
(* IS_RUNNING.                                                             *)
THEOREM RunningIsTemporary == Spec => []RunningHasThread
BY RunningAlways, PTL DEF RunInv

-----------------------------------------------------------------------------
(* A user who waits for the last thread to end never has two, and starts   *)
(* none while one works.                                                   *)
OneThread == \A t, u \in Live : t = u
StartsAlone ==
  ui.ph \in {"assembled", "run", "detach", "clear", "spawn"} => Live = {}

WorkingMeansRunning == \A t \in Threads : th[t].ph \in Working => IsRunning

SerialInv == OneThread /\ StartsAlone /\ WorkingMeansRunning

(* A step of a live thread: the others are gone and stay gone.             *)
LEMMA AloneStep ==
  ASSUME SerialInv, NEW t \in Threads, th[t].ph # "gone", ui' = ui,
         \A u \in Threads \ {t} : th'[u] = th[u],
         th'[t].ph \in Working => status' = "IS_RUNNING"
  PROVE  SerialInv'
<1>1. Live = {t} /\ Live' \subseteq {t}
  BY DEF SerialInv, OneThread, Live
<1>. QED
  BY <1>1 DEF SerialInv, OneThread, StartsAlone, WorkingMeansRunning, IsRunning, Live, Working

(* A step of the user-interface thread that leaves the threads alone.      *)
LEMMA Idle ==
  ASSUME SerialInv, th' = th, Live = {} \/ (ui' = ui /\ status' = status)
                              \/ (ui'.ph \in {"idle", "swap", "marks"} /\ status' = status)
  PROVE  SerialInv'
BY DEF SerialInv, OneThread, StartsAlone, WorkingMeansRunning, IsRunning, Live, Working

(* The user who waits has one thread at most, which sets and ends          *)
(* IS_RUNNING.                                                             *)
LEMMA SerialisedIsAlone ==
  ASSUME Serialised
  PROVE  Spec => []SerialInv
<1>1. Init => SerialInv
  BY DEF Init, SerialInv, OneThread, StartsAlone, WorkingMeansRunning, Live, IdleThread,
    IdleUi, Ui, At, Working
<1>2. TypeOK /\ SerialInv /\ [Next]_vars => SerialInv'
  <2>. SUFFICES ASSUME TypeOK, SerialInv, [Next]_vars PROVE SerialInv'
    OBVIOUS
  <2>0. th \in [Threads -> ThreadType] /\ ui \in UiType
    BY DEF TypeOK
  <2>. USE DEF simVars, uiVars
  <2>1. CASE UNCHANGED vars
    BY <2>1, Idle DEF vars
  <2>2. CASE User
    BY <2>2, Idle DEF User, MayCommand, Go, StepOver, StepIntoException, Break, DebugStop,
      Restart, AssembleAbort, RunToLine, SkipToLine, ToggleBreakpoint, ToggleInDisassembly
  <2>3. CASE AssembleFail \/ AssembleLoad \/ AssembleMisfit \/ RunCheck \/ RunDetach \/ RunClear
    BY <2>3, Idle DEF SerialInv, StartsAlone, AssembleFail, AssembleLoad, AssembleMisfit,
      RunCheck, RunDetach, RunClear
  <2>4. CASE SetMarks \/ RunSwap \/ \E event \in Events : OnExecEvent(event)
    BY <2>0, <2>4, Idle, UiFields DEF SetMarks, RunSwap, OnExecEvent, IdleUi, UiNext, Ui
  <2>5. ASSUME NEW t \in Threads, RunSpawn(t) PROVE SerialInv'
    <3>1. Live = {}
      BY <2>5 DEF SerialInv, StartsAlone, RunSpawn
    <3>2. th'[t].ph = "start" /\ \A u \in Threads \ {t} : th'[u] = th[u]
      BY <2>0, <2>5 DEF RunSpawn
    <3>3. Live' = {t} /\ ui'.ph = "swap"
      BY <2>5, <3>1, <3>2 DEF Live, RunSpawn, Ui
    <3>. QED
      BY <3>2, <3>3 DEF SerialInv, OneThread, StartsAlone, WorkingMeansRunning, Live, Working
  <2>6. ASSUME NEW t \in Threads, ThreadStep(t) PROVE SerialInv'
    <3>. USE <2>0, BecomeMove
    <3>1. th[t].ph \in Working => status = "IS_RUNNING"
      BY DEF SerialInv, WorkingMeansRunning, IsRunning
    <3>2. CASE ThreadStart(t) \/ ThreadAnnounce(t)
      BY <3>1, <3>2, GotoMove, AloneStep DEF ThreadStart, ThreadAnnounce, Phase, Working
    <3>3. CASE LoopStop(t) \/ LoopHalted(t) \/ LoopBreakpoint(t)
      BY <3>1, <3>3, AloneStep DEF LoopStop, LoopHalted, LoopBreakpoint, LeaveLoop,
        ReturnWith, Working
    <3>4. CASE LoopContinue(t)
      BY <3>1, <3>4, AloneStep DEF LoopContinue, Working
    <3>5. CASE ExecuteSkip(t)
      BY <3>1, <3>5, GotoMove, AloneStep DEF ExecuteSkip, LeaveLoop, Phase, Working
    <3>6. ASSUME NEW e \in Behaviour[pc], Execute(t, e) PROVE SerialInv'
      BY <3>1, <3>6, GotoMove, AloneStep DEF Execute, LeaveLoop, Phase, Working
    <3>7. ASSUME NEW e \in Behaviour[pc],
                 ExecuteFault(t, e) \/ ExecuteDouble(t, e) \/ ExecuteError(t, e)
          PROVE  SerialInv'
      BY <3>1, <3>7, GotoMove, AloneStep DEF ExecuteFault, ExecuteDouble, ExecuteError,
        LeaveLoop, End, Phase, Working
    <3>8. CASE Caught(t) \/ Leave(t) \/ Publish(t)
      BY <3>1, <3>8, AloneStep DEF Caught, Leave, Publish, ReturnWith, Working
    <3>9. CASE EventRead(t) \/ EventPost(t)
      BY <3>9, AloneStep DEF EventRead, EventPost, Working
    <3>10. CASE ThreadJoinable(t) \/ ThreadDetach(t)
      BY <3>10, AloneStep DEF ThreadJoinable, ThreadDetach, End, Working
    <3>. QED
      BY <2>6, <3>2, <3>3, <3>4, <3>5, <3>6, <3>7, <3>8, <3>9, <3>10 DEF ThreadStep
  <2>. QED
    BY <2>1, <2>2, <2>3, <2>4, <2>5, <2>6 DEF Next, UiStep
<1>. QED
  BY <1>1, <1>2, TypeCorrect, PTL DEF Spec

-----------------------------------------------------------------------------
(* The halted flag and the status agree while no thread is between its     *)
(* first and its last assignment of the status; what a thread is about to  *)
(* publish agrees with the flag too.                                       *)
HaltInv ==
  /\ (\A t \in Threads : th[t].ph \notin Working) /\ status # "INTERNAL_ERROR"
       => (halted <=> status = "FINISHED")
  /\ \A t \in Threads : th[t].ph = "publish" => (halted <=> th[t].ret = "FINISHED")

(* How the steps that matter keep HaltInv: nothing changes, no thread is   *)
(* alive, or the only live thread moves.                                   *)
LEMMA HaltSame ==
  ASSUME HaltInv, th' = th, halted' = halted, status' = status
  PROVE  HaltInv'
BY DEF HaltInv

LEMMA HaltIdle ==
  ASSUME Live = {}, th' = th, halted' <=> status' = "FINISHED"
  PROVE  HaltInv'
BY DEF HaltInv, Live

LEMMA HaltStep ==
  ASSUME SerialInv, HaltInv, NEW t \in Threads, th[t].ph # "gone",
         \A u \in Threads \ {t} : th'[u] = th[u],
         \/ th'[t].ph \in Working \ {"publish"}
         \/ th'[t].ph = "publish" /\ (halted' <=> th'[t].ret = "FINISHED")
         \/ th'[t].ph \notin Working /\ status' = "INTERNAL_ERROR"
         \/ th'[t].ph \notin Working /\ (halted' <=> status' = "FINISHED")
  PROVE  HaltInv'
<1>1. \A u \in Threads \ {t} : th'[u].ph = "gone"
  BY DEF SerialInv, OneThread, Live
<1>. QED
  BY <1>1 DEF HaltInv, Working

(* For the user who waits HaltInv always holds.                            *)
LEMMA SerialisedHalt ==
  ASSUME Serialised
  PROVE  Spec => []HaltInv
<1>1. Init => HaltInv
  BY DEF Init, HaltInv, IdleThread, At, Working
<1>2. TypeOK /\ SerialInv /\ HaltInv /\ [Next]_vars => HaltInv'
  <2>. SUFFICES ASSUME TypeOK, SerialInv, HaltInv, [Next]_vars PROVE HaltInv'
    OBVIOUS
  <2>0. th \in [Threads -> ThreadType] /\ halted \in BOOLEAN
    BY DEF TypeOK
  <2>. USE DEF simVars, uiVars
  <2>1. CASE UNCHANGED vars
    BY <2>1, HaltSame DEF vars
  <2>2. CASE \/ \E c \in Condition : Go(c)
             \/ StepOver \/ Break
             \/ \E a \in Lines : \/ RunToLine(a) \/ SkipToLine(a)
                                 \/ ToggleBreakpoint(a) \/ ToggleInDisassembly(a)
    BY <2>2, HaltSame DEF Go, StepOver, Break, RunToLine, SkipToLine, ToggleBreakpoint,
      ToggleInDisassembly
  <2>3. CASE StepIntoException
    <3>1. Live = {} /\ th' = th /\ ~halted
      BY <2>3 DEF StepIntoException, MayCommand, HaltInv, Live, Working
    <3>2. halted' <=> status' = "FINISHED"
      BY <2>3, <3>1 DEF StepIntoException
    <3>. QED
      BY <3>1, <3>2, HaltIdle
  <2>4. CASE DebugStop \/ Restart \/ AssembleAbort \/ AssembleLoad \/ AssembleMisfit
    <3>1. Live = {}
      BY <2>4 DEF DebugStop, Restart, AssembleAbort, AssembleLoad, AssembleMisfit, MayCommand,
        SerialInv, StartsAlone
    <3>2. th' = th /\ (halted' <=> status' = "FINISHED")
      BY <2>4 DEF DebugStop, Restart, AssembleAbort, AssembleLoad, AssembleMisfit, Abort,
        Reload, Reset
    <3>. QED
      BY <3>1, <3>2, HaltIdle
  <2>5. CASE \/ AssembleFail \/ SetMarks \/ RunCheck \/ RunDetach \/ RunClear \/ RunSwap
             \/ \E event \in Events : OnExecEvent(event)
    BY <2>5, HaltSame DEF AssembleFail, SetMarks, RunCheck, RunDetach, RunClear, RunSwap,
      OnExecEvent
  <2>6. ASSUME NEW t \in Threads, RunSpawn(t) PROVE HaltInv'
    <3>1. th[t].ph = "gone" /\ th'[t].ph = "start" /\ halted' = halted /\ status' = status
      BY <2>0, <2>6 DEF RunSpawn, Live
    <3>2. \A u \in Threads \ {t} : th'[u] = th[u]
      BY <2>0, <2>6 DEF RunSpawn
    <3>. QED
      BY <3>1, <3>2 DEF HaltInv, Working
  <2>7. ASSUME NEW t \in Threads, ThreadStep(t) PROVE HaltInv'
    <3>. USE <2>0, BecomeMove
    <3>1. CASE ThreadStart(t) \/ ThreadAnnounce(t)
      BY <3>1, GotoMove, HaltStep DEF ThreadStart, ThreadAnnounce, Phase, Working
    <3>2. CASE LoopStop(t) \/ ExecuteSkip(t)
      BY <3>2, GotoMove, HaltStep DEF LoopStop, ExecuteSkip, LeaveLoop, Phase, Working
    <3>3. CASE LoopHalted(t) \/ LoopBreakpoint(t) \/ Caught(t) \/ Leave(t)
      BY <3>3, HaltStep DEF LoopHalted, LoopBreakpoint, Caught, Leave, ReturnWith, Working
    <3>4. CASE LoopContinue(t)
      BY <3>4, HaltStep DEF LoopContinue, Working
    <3>5. ASSUME NEW e \in Behaviour[pc], Execute(t, e) \/ ExecuteDouble(t, e)
          PROVE  HaltInv'
      BY <3>5, GotoMove, HaltStep DEF Execute, ExecuteDouble, LeaveLoop, Phase, Working
    <3>6. ASSUME NEW e \in Behaviour[pc], ExecuteFault(t, e) \/ ExecuteError(t, e)
          PROVE  HaltInv'
      BY <3>6, GotoMove, HaltStep DEF ExecuteFault, ExecuteError, End, Phase, Working
    <3>7. CASE Publish(t)
      BY <3>7, HaltStep DEF Publish, HaltInv, Working
    <3>8. CASE EventRead(t) \/ EventPost(t) \/ ThreadJoinable(t) \/ ThreadDetach(t)
      <4>1. \A u \in Threads : th[u].ph \notin Working
        BY <3>8 DEF SerialInv, OneThread, Live, Working, EventRead, EventPost,
          ThreadJoinable, ThreadDetach
      <4>2. /\ th[t].ph # "gone" /\ th'[t].ph \notin Working
            /\ \A u \in Threads \ {t} : th'[u] = th[u]
        BY <3>8 DEF EventRead, EventPost, ThreadJoinable, ThreadDetach, End, Working
      <4>3. halted' = halted /\ (status' = status \/ status' = "INTERNAL_ERROR")
        BY <3>8 DEF EventRead, EventPost, ThreadJoinable, ThreadDetach
      <4>. QED
        BY <4>1, <4>2, <4>3, HaltStep DEF HaltInv
    <3>. QED
      BY <2>7, <3>1, <3>2, <3>3, <3>4, <3>5, <3>6, <3>7, <3>8 DEF ThreadStep
  <2>. QED
    BY <2>1, <2>2, <2>3, <2>4, <2>5, <2>6, <2>7 DEF Next, User, UiStep
<1>. QED
  BY <1>1, <1>2, TypeCorrect, SerialisedIsAlone, PTL DEF Spec

(* For the same user the halted flag and the status FINISHED agree         *)
(* whenever nothing is under way, so Go is offered exactly when the CPU    *)
(* would execute.                                                          *)
THEOREM SerialisedHaltIsFinished ==
  ASSUME Serialised
  PROVE  Spec => []HaltedIffFinished
<1>1. HaltInv => HaltedIffFinished
  BY DEF HaltInv, HaltedIffFinished, Quiet, Live, Working
<1>. QED
  BY <1>1, SerialisedHalt, PTL

-----------------------------------------------------------------------------
(* A program that never faults on a fault and has no instruction throw     *)
(* anything but a processor exception.  Stepped into, the one moves the    *)
(* program counter without an event; the other sets the status without one *)
(* (Simulator.cpp:534).                                                    *)
Plain == \A a \in Addr : \A e \in Behaviour[a] : e.kind \notin {"double", "error"}

(* The last event told the position, and what it said is shown or is still *)
(* to be handled: a message of either kind brings the status, only STOPPED *)
(* the position.                                                           *)
Told  == curPC = EventPC(status, pc)
Shown == \/ "STOPPED" \in posted
         \/ view.ptr = curPC /\ (posted = {} => view.status = status)

(* A thread's event is about the status it published, the thread object is *)
(* its own to detach, and behind its event, and with no thread, the user   *)
(* has been told.                                                          *)
ViewInv ==
  /\ \A t \in Threads : /\ th[t].ph = "post" => th[t].ret = status
                        /\ th[t].ph = "detach" => joinable
  /\ (\A t \in Threads : th[t].ph \in {"join", "detach", "gone"}) => Told /\ Shown

(* How the steps that matter keep ViewInv: the simulator stays as it is,   *)
(* no thread is alive and an event is sent, or the only live thread moves. *)
LEMMA ViewSame ==
  ASSUME ViewInv, th' = th, status' = status, pc' = pc, joinable' = joinable,
         curPC' = curPC, posted' = posted, view' = view
  PROVE  ViewInv'
BY DEF ViewInv, Told, Shown

LEMMA ViewTold ==
  ASSUME Live = {}, th' = th, PostStop(status', pc')
  PROVE  ViewInv'
BY DEF ViewInv, Told, Shown, PostStop, Live, EventPC

LEMMA ViewStep ==
  ASSUME SerialInv, ViewInv, NEW t \in Threads, th[t].ph # "gone",
         \A u \in Threads \ {t} : th'[u] = th[u],
         \/ th'[t].ph \notin {"post", "join", "detach", "gone"}
         \/ th'[t].ph = "post" /\ th'[t].ret = status'
         \/ th'[t].ph \in {"join", "gone"} /\ Told' /\ Shown'
         \/ th'[t].ph = "detach" /\ joinable' /\ Told' /\ Shown'
  PROVE  ViewInv'
<1>1. \A u \in Threads \ {t} : th'[u].ph = "gone"
  BY DEF SerialInv, OneThread, Live
<1>. QED
  BY <1>1 DEF ViewInv

(* For the user who waits, the views of a simulator at rest show its       *)
(* status and its position: no event is lost, early or about a status that *)
(* was overwritten since.                                                  *)
THEOREM SerialisedViewSettles ==
  ASSUME Serialised, Plain
  PROVE  Spec => []ViewSettles
<1>1. Init => ViewInv
  BY DEF Init, ViewInv, Told, Shown, EventPC, IdleThread, At
<1>2. TypeOK /\ SerialInv /\ ViewInv /\ [Next]_vars => ViewInv'
  <2>. SUFFICES ASSUME TypeOK, SerialInv, ViewInv, [Next]_vars PROVE ViewInv'
    OBVIOUS
  <2>0. th \in [Threads -> ThreadType] /\ pc \in Addr
    BY DEF TypeOK
  <2>. USE DEF simVars, uiVars
  <2>1. CASE UNCHANGED vars
    BY <2>1, ViewSame DEF vars
  <2>2. CASE \/ \E c \in Condition : Go(c)
             \/ StepOver \/ Break
             \/ \E a \in Lines : \/ RunToLine(a)
                                 \/ ToggleBreakpoint(a) \/ ToggleInDisassembly(a)
    BY <2>2, ViewSame DEF Go, StepOver, Break, RunToLine, ToggleBreakpoint,
      ToggleInDisassembly
  <2>3. CASE StepIntoException
    <3>1. Live = {} /\ th' = th /\ PostStop(status', pc')
      BY <2>0, <2>3 DEF StepIntoException, MayCommand, Plain
    <3>. QED
      BY <3>1, ViewTold
  <2>4. CASE \/ DebugStop \/ Restart \/ AssembleAbort \/ AssembleLoad \/ AssembleMisfit
             \/ \E a \in Lines : SkipToLine(a)
    <3>1. Live = {}
      BY <2>4 DEF DebugStop, Restart, AssembleAbort, AssembleLoad, AssembleMisfit, SkipToLine,
        MayCommand, SerialInv, StartsAlone
    <3>2. th' = th /\ PostStop(status', pc')
      BY <2>4 DEF DebugStop, Restart, AssembleAbort, AssembleLoad, AssembleMisfit, SkipToLine,
        Abort, Reload, Reset, PostStop
    <3>. QED
      BY <3>1, <3>2, ViewTold
  <2>5. CASE AssembleFail \/ SetMarks \/ RunCheck \/ RunClear
    BY <2>5, ViewSame DEF AssembleFail, SetMarks, RunCheck, RunClear
  <2>6. CASE RunDetach
    <3>1. Live = {} /\ UNCHANGED <<th, status, pc, curPC, posted, view>>
      BY <2>6 DEF RunDetach, SerialInv, StartsAlone
    <3>. QED
      BY <3>1 DEF ViewInv, Told, Shown, Live
  <2>7. CASE RunSwap
    BY <2>7 DEF RunSwap, ViewInv, Told, Shown
  <2>8. ASSUME NEW t \in Threads, RunSpawn(t) PROVE ViewInv'
    <3>1. Live = {} /\ th'[t].ph = "start" /\ \A u \in Threads \ {t} : th'[u] = th[u]
      BY <2>0, <2>8 DEF RunSpawn, SerialInv, StartsAlone
    <3>. QED
      BY <3>1 DEF ViewInv, Live
  <2>9. ASSUME NEW event \in Events, OnExecEvent(event) PROVE ViewInv'
    <3>1. UNCHANGED <<th, status, pc, joinable, curPC>>
      BY <2>9 DEF OnExecEvent
    <3>2. Shown => Shown'
      BY <2>9 DEF OnExecEvent, Shown, Events
    <3>. QED
      BY <3>1, <3>2 DEF ViewInv, Told
  <2>10. ASSUME NEW t \in Threads, ThreadStep(t) PROVE ViewInv'
    <3>. USE <2>0, BecomeMove
    <3>1. CASE ThreadStart(t) \/ ThreadAnnounce(t)
      BY <3>1, GotoMove, ViewStep DEF ThreadStart, ThreadAnnounce, Phase
    <3>2. CASE LoopStop(t) \/ ExecuteSkip(t)
      BY <3>2, GotoMove, ViewStep DEF LoopStop, ExecuteSkip, LeaveLoop, Phase
    <3>3. CASE LoopHalted(t) \/ LoopBreakpoint(t) \/ Caught(t) \/ Leave(t)
      BY <3>3, ViewStep DEF LoopHalted, LoopBreakpoint, Caught, Leave, ReturnWith
    <3>4. CASE LoopContinue(t)
      BY <3>4, ViewStep DEF LoopContinue
    <3>5. ASSUME NEW e \in Behaviour[pc],
                 Execute(t, e) \/ ExecuteFault(t, e) \/ ExecuteDouble(t, e) \/ ExecuteError(t, e)
          PROVE  ViewInv'
      <4>1. Execute(t, e) \/ ExecuteFault(t, e)
        BY <3>5 DEF Plain, ExecuteDouble, ExecuteError
      <4>. QED
        BY <4>1, GotoMove, ViewStep DEF Execute, ExecuteFault, LeaveLoop, Phase
    <3>6. CASE Publish(t)
      BY <3>6, ViewStep DEF Publish
    <3>7. CASE EventRead(t)
      BY <3>7, ViewStep DEF EventRead
    <3>8. CASE EventPost(t)
      <4>1. th[t].ret = status /\ UNCHANGED <<status, pc>> /\ PostStop(status, pc)
        BY <3>8 DEF EventPost, ViewInv
      <4>2. Told' /\ Shown'
        BY <4>1 DEF Told, Shown, PostStop, EventPC
      <4>. QED
        BY <3>8, <4>2, ViewStep DEF EventPost
    <3>9. CASE ThreadJoinable(t) \/ ThreadDetach(t)
      <4>1. th[t].ph \in {"join", "detach"} /\ \A u \in Threads \ {t} : th[u].ph = "gone"
        BY <3>9 DEF ThreadJoinable, ThreadDetach, SerialInv, OneThread, Live
      <4>2. Told /\ Shown
        BY <4>1 DEF ViewInv
      <4>3. UNCHANGED <<status, pc, curPC, posted, view>>
        BY <3>9 DEF ThreadJoinable, ThreadDetach, ViewInv
      <4>4. Told' /\ Shown'
        BY <4>2, <4>3 DEF Told, Shown
      <4>. QED
        BY <3>9, <4>4, ViewStep DEF ThreadJoinable, ThreadDetach, End
    <3>. QED
      BY <2>10, <3>1, <3>2, <3>3, <3>4, <3>5, <3>6, <3>7, <3>8, <3>9 DEF ThreadStep
  <2>. QED
    BY <2>1, <2>2, <2>3, <2>4, <2>5, <2>6, <2>7, <2>8, <2>9, <2>10 DEF Next, User, UiStep
<1>3. TypeOK /\ ViewInv => ViewSettles
  BY DEF TypeOK, ViewInv, ViewSettles, Quiet, Live, Told, Shown
<1>. QED
  BY <1>1, <1>2, <1>3, TypeCorrect, SerialisedIsAlone, PTL DEF Spec
-----------------------------------------------------------------------------
(* The serialised execution control is Execution: a run in progress is     *)
(* what the only live thread does.                                         *)

(* A thread that executes does so on a CPU that is not halted, one that    *)
(* starts finds a status that can run and no stop request, exec_pending is *)
(* set by the first instruction, and the thread object a thread detaches   *)
(* at its end is still its own.                                            *)
ThreadReady(t) ==
  /\ th[t].ph \in {"exec", "caught"} => ~halted
  /\ th[t].ph = "start" => CanRun /\ ~stopExec /\ ~th[t].pending
  /\ th[t].ph = "announce" => ~th[t].pending
  /\ th[t].ph = "exec" => th[t].pending
  /\ th[t].ph = "detach" => joinable
RunReady ==
  /\ ui.ph \in {"detach", "clear", "spawn"} => CanRun
  /\ ui.ph = "spawn" => ~stopExec

ExecInv == RunReady /\ \A t \in Threads : ThreadReady(t)

(* How the steps that matter keep ExecInv: the simulator stays as it is,   *)
(* no thread is alive, or the only live thread moves.                      *)
LEMMA ReadySame ==
  ASSUME ExecInv, th' = th, status' = status, stopExec' = stopExec, halted' = halted,
         joinable' = joinable, ui' = ui \/ ui'.ph \notin {"detach", "clear", "spawn"}
  PROVE  ExecInv'
BY DEF ExecInv, RunReady, ThreadReady, CanRun

LEMMA ReadyIdle ==
  ASSUME Live = {}, th' = th, RunReady'
  PROVE  ExecInv'
BY DEF ExecInv, ThreadReady, Live

LEMMA ReadyMove ==
  ASSUME SerialInv, NEW t \in Threads, th[t].ph # "gone", ui' = ui,
         \A u \in Threads \ {t} : th'[u] = th[u], ThreadReady(t)'
  PROVE  ExecInv'
<1>1. \A u \in Threads \ {t} : th'[u].ph = "gone"
  BY DEF SerialInv, OneThread, Live
<1>2. ui.ph \notin {"detach", "clear", "spawn"}
  BY DEF SerialInv, StartsAlone, Live
<1>. QED
  BY <1>1, <1>2 DEF ExecInv, RunReady, ThreadReady

LEMMA SerialisedReady ==
  ASSUME Serialised
  PROVE  Spec => []ExecInv
<1>1. Init => ExecInv
  BY DEF Init, ExecInv, RunReady, ThreadReady, IdleThread, IdleUi, At, Ui
<1>2. TypeOK /\ SerialInv /\ ExecInv /\ [Next]_vars => ExecInv'
  <2>. SUFFICES ASSUME TypeOK, SerialInv, ExecInv, [Next]_vars PROVE ExecInv'
    OBVIOUS
  <2>0. th \in [Threads -> ThreadType] /\ ui \in UiType
    BY DEF TypeOK
  <2>. USE DEF simVars, uiVars
  <2>1. CASE UNCHANGED vars
    BY <2>1, ReadySame DEF vars
  <2>2. CASE \/ \E c \in Condition : Go(c)
             \/ StepOver
             \/ \E a \in Lines : \/ RunToLine(a) \/ SkipToLine(a)
                                 \/ ToggleBreakpoint(a) \/ ToggleInDisassembly(a)
    BY <2>2, ReadySame DEF Go, StepOver, RunToLine, SkipToLine, ToggleBreakpoint,
      ToggleInDisassembly, Command, Ui
  <2>3. CASE Break
    <3>1. /\ IsRunning /\ th' = th /\ ui' = ui /\ ui.ph = "idle"
          /\ UNCHANGED <<status, halted, joinable>>
      BY <2>3 DEF Break
    <3>. QED
      BY <3>1 DEF ExecInv, RunReady, ThreadReady, CanRun, IsRunning
  <2>4. CASE \/ StepIntoException \/ DebugStop \/ Restart \/ AssembleAbort \/ AssembleLoad
             \/ AssembleMisfit
    <3>1. Live = {} /\ th' = th
      BY <2>4 DEF StepIntoException, DebugStop, Restart, AssembleAbort, AssembleLoad,
        AssembleMisfit, MayCommand, SerialInv, StartsAlone
    <3>2. ui'.ph \notin {"detach", "clear", "spawn"}
      BY <2>4 DEF StepIntoException, DebugStop, Restart, AssembleAbort, AssembleLoad,
        AssembleMisfit, MayCommand, Reload, Command, IdleUi, Ui
    <3>. QED
      BY <3>1, <3>2, ReadyIdle DEF RunReady
  <2>5. CASE AssembleFail \/ SetMarks \/ \E event \in Events : OnExecEvent(event)
    BY <2>5, ReadySame DEF AssembleFail, SetMarks, OnExecEvent, IdleUi, Ui
  <2>6. CASE RunCheck \/ RunDetach \/ RunClear
    <3>1. Live = {} /\ th' = th /\ status' = status
      BY <2>6 DEF RunCheck, RunDetach, RunClear, SerialInv, StartsAlone
    <3>2. RunReady'
      BY <2>0, <2>6, <3>1, UiFields DEF RunCheck, RunDetach, RunClear, UiNext, UiAt, Ui,
        ExecInv, RunReady, CanRun
    <3>. QED
      BY <3>1, <3>2, ReadyIdle
  <2>7. CASE RunSwap
    <3>1. ui'.ph \in {"idle", "marks"} /\ joinable'
      BY <2>0, <2>7, UiFields DEF RunSwap, UiNext, Ui
    <3>2. UNCHANGED <<th, status, stopExec, halted>>
      BY <2>7 DEF RunSwap
    <3>. QED
      BY <3>1, <3>2 DEF ExecInv, RunReady, ThreadReady, CanRun
  <2>8. ASSUME NEW t \in Threads, RunSpawn(t) PROVE ExecInv'
    <3>1. Live = {} /\ CanRun /\ ~stopExec
      BY <2>8 DEF RunSpawn, SerialInv, StartsAlone, ExecInv, RunReady
    <3>2. /\ th'[t].ph = "start" /\ ~th'[t].pending /\ ui'.ph = "swap"
          /\ \A u \in Threads \ {t} : th'[u] = th[u]
      BY <2>0, <2>8 DEF RunSpawn, Ui
    <3>3. status' = status /\ stopExec' = stopExec
      BY <2>8 DEF RunSpawn
    <3>. QED
      BY <3>1, <3>2, <3>3 DEF ExecInv, RunReady, ThreadReady, Live, CanRun
  <2>9. ASSUME NEW t \in Threads, ThreadStep(t) PROVE ExecInv'
    <3>. USE <2>0, BecomeMove
    <3>0. ThreadReady(t)
      BY DEF ExecInv
    <3>1. CASE ThreadStart(t) \/ ThreadAnnounce(t)
      <4>1. th'[t] = [th[t] EXCEPT !.ph = IF ThreadStart(t) THEN "announce" ELSE "loop"]
        BY <3>1 DEF ThreadStart, ThreadAnnounce, Goto
      <4>2. th'[t].pending = th[t].pending
        BY <4>1 DEF ThreadType
      <4>. QED
        BY <3>0, <3>1, <4>2, GotoMove, ReadyMove DEF ThreadStart, ThreadAnnounce, Phase, ThreadReady
    <3>2. CASE LoopStop(t) \/ ExecuteSkip(t)
      BY <3>2, GotoMove, ReadyMove DEF LoopStop, ExecuteSkip, LeaveLoop, Phase, ThreadReady
    <3>3. CASE LoopHalted(t) \/ LoopBreakpoint(t) \/ Caught(t) \/ Leave(t)
      BY <3>3, ReadyMove DEF LoopHalted, LoopBreakpoint, Caught, Leave, ReturnWith, ThreadReady
    <3>4. CASE LoopContinue(t)
      BY <3>4, ReadyMove DEF LoopContinue, ThreadReady
    <3>5. ASSUME NEW e \in Behaviour[pc],
                 Execute(t, e) \/ ExecuteFault(t, e) \/ ExecuteDouble(t, e) \/ ExecuteError(t, e)
          PROVE  ExecInv'
      BY <3>5, GotoMove, ReadyMove DEF Execute, ExecuteFault, ExecuteDouble, ExecuteError,
        LeaveLoop, End, Phase, ThreadReady
    <3>6. CASE Publish(t) \/ EventRead(t) \/ EventPost(t)
      BY <3>6, ReadyMove DEF Publish, EventRead, EventPost, ThreadReady
    <3>7. CASE ThreadJoinable(t) \/ ThreadDetach(t)
      BY <3>7, ReadyMove DEF ThreadJoinable, ThreadDetach, End, ThreadReady
    <3>. QED
      BY <2>9, <3>1, <3>2, <3>3, <3>4, <3>5, <3>6, <3>7 DEF ThreadStep
  <2>. QED
    BY <2>1, <2>2, <2>3, <2>4, <2>5, <2>6, <2>7, <2>8, <2>9 DEF Next, User, UiStep
<1>. QED
  BY <1>1, <1>2, TypeCorrect, SerialisedIsAlone, PTL DEF Spec

(* The current run is that of the live thread, before and after its step;  *)
(* a thread that is gone shows no run.                                     *)
LEMMA RunOfLive ==
  ASSUME SerialInv, NEW t \in Threads, th[t].ph # "gone"
  PROVE  CurrentRun = RunSeen(th[t])
<1>1. Live = {t}
  BY DEF SerialInv, OneThread, Live
<1>. QED
  BY <1>1 DEF CurrentRun

LEMMA RunAfterMove ==
  ASSUME SerialInv, NEW t \in Threads, th[t].ph # "gone",
         \A u \in Threads \ {t} : th'[u] = th[u]
  PROVE  CurrentRun' = RunSeen(th[t])'
<1>1. \A u \in Threads \ {t} : th'[u].ph = "gone"
  BY DEF SerialInv, OneThread, Live
<1>2. CASE th'[t].ph = "gone"
  <2>1. Live' = {}
    BY <1>1, <1>2 DEF Live
  <2>2. RunSeen(th[t])' = RunSeen(IdleThread)'
    BY <1>2 DEF RunSeen, IdleThread, At
  <2>. QED
    BY <2>1, <2>2 DEF CurrentRun
<1>3. CASE th'[t].ph # "gone"
  <2>1. Live' = {t}
    BY <1>1, <1>3 DEF Live
  <2>. QED
    BY <2>1 DEF CurrentRun
<1>. QED
  BY <1>2, <1>3

(* With no thread, or the same threads on the same CPU, the run stays.     *)
LEMMA NoThreadNoRun ==
  ASSUME Live = {}, th' = th
  PROVE  CurrentRun = Exec!Rest /\ CurrentRun' = Exec!Rest
<1>1. Live' = {}
  BY DEF Live
<1>2. RunSeen(IdleThread) = Exec!Rest /\ RunSeen(IdleThread)' = Exec!Rest
  BY DEF RunSeen, IdleThread, At, Exec!Rest, Exec!Run
<1>. QED
  BY <1>1, <1>2 DEF CurrentRun

LEMMA RunSame ==
  ASSUME th' = th, halted' = halted PROVE CurrentRun' = CurrentRun
BY DEF CurrentRun, RunSeen, Live

(* Steps Execution does not see.                                           *)
LEMMA Unseen ==
  ASSUME UNCHANGED <<status, stopExec, halted, bp, pc, th>>
  PROVE  UNCHANGED Exec!vars
BY RunSame DEF Exec!vars, IsRunning

(* The user's commands are those of Execution, given at rest, but for the  *)
(* stop request and the permanent breakpoints.                             *)
LEMMA AtRestIsIdle ==
  ASSUME RunningHasThread, Live = {}, th' = th
  PROVE  Exec!AtRest /\ ~IsRunning /\ CurrentRun' = CurrentRun
BY NoThreadNoRun DEF Exec!AtRest, Exec!Running, RunningHasThread, IsRunning, Live, Working

LEMMA BreaksEdited ==
  ASSUME UNCHANGED <<status, stopExec, halted, pc, th>>,
         \A a \in Addr : bp'[a] = bp[a] \/ bp'[a] \in {{}, {"EXECUTE"}}
  PROVE  Exec!EditBreaks
BY RunSame DEF Exec!EditBreaks, IsRunning

LEMMA LoadIsLoad ==
  ASSUME RunningHasThread, Live = {}, th' = th, stopExec' = stopExec, Reset,
         NEW map, bp' = map \/ bp' = [map EXCEPT ![CodeStart] = {"TEMP_EXEC"}]
  PROVE  Exec!Load(map)
<1>1. ~IsRunning /\ ~IsRunning'
  BY AtRestIsIdle DEF Reset, IsRunning
<1>. QED
  BY <1>1, AtRestIsIdle DEF Exec!Load, Reset

LEMMA AbortIsAbort ==
  ASSUME RunningHasThread, Live = {}, th' = th, Abort, UNCHANGED <<stopExec, bp, pc>>
  PROVE  Exec!Abort
<1>1. ~IsRunning /\ ~IsRunning'
  BY AtRestIsIdle DEF Abort, IsRunning
<1>. QED
  BY <1>1, AtRestIsIdle DEF Exec!Abort, Abort

LEMMA UserImplements ==
  ASSUME Serialised, TypeOK, SerialInv, HaltInv, RunningHasThread, User
  PROVE  Exec!Next \/ UNCHANGED Exec!vars
<1>0. MayCommand => Live = {}
  BY DEF MayCommand
<1>. USE DEF simVars, uiVars
<1>1. CASE \E c \in Condition : Go(c)
  BY <1>1, Unseen DEF Go
<1>2. CASE StepOver
  <2>1. Live = {} /\ IsStopped /\ UNCHANGED <<status, stopExec, halted, pc, th>>
    BY <1>0, <1>2 DEF StepOver
  <2>2. CASE pc \in DOMAIN Returns
    <3>1. Returns[pc] \in Addr /\ bp' = [bp EXCEPT ![Returns[pc]] = {"TEMP_EXEC"}]
      BY <1>2, <2>2, ProgramAssumption DEF StepOver, SetBp
    <3>2. Exec!PutTemp(Returns[pc])
      BY <2>1, <3>1, AtRestIsIdle DEF Exec!PutTemp, Exec!Runnable, IsStopped, IsRunning
    <3>. QED
      BY <3>1, <3>2 DEF Exec!Next
  <2>3. CASE pc \notin DOMAIN Returns
    BY <1>2, <2>1, <2>3, Unseen DEF StepOver
  <2>. QED
    BY <2>2, <2>3
<1>3. CASE StepIntoException
  <2>1. Live = {} /\ th' = th /\ status = "EXCEPTION" /\ UNCHANGED <<stopExec, bp>>
    BY <1>0, <1>3 DEF StepIntoException
  <2>2. ~halted
    BY <2>1 DEF HaltInv, Live, Working
  <2>3. PICK e \in Behaviour[pc] :
          /\ pc' = e.to /\ (halted' <=> e.kind = "halt")
          /\ status' = IF e.kind \in {"double", "error"} THEN status
                       ELSE Exec!Stopped(halted')
    BY <1>3, <2>2 DEF StepIntoException, Exec!Stopped
  <2>4. ~IsRunning /\ ~IsRunning'
    BY <2>1, <2>3 DEF IsRunning, Exec!Stopped
  <2>5. Exec!StepInto(e)
    BY <2>1, <2>3, <2>4, AtRestIsIdle DEF Exec!StepInto
  <2>. QED
    BY <2>5 DEF Exec!Next
<1>4. CASE Break
  <2>1. /\ IsRunning /\ IsRunning' /\ stopExec'
        /\ UNCHANGED <<status, halted, bp, pc, th>>
    BY <1>4 DEF Break, IsRunning
  <2>2. Exec!Ask
    BY <2>1, RunSame DEF Exec!Ask, Exec!Running, IsRunning
  <2>. QED
    BY <2>2 DEF Exec!Next
<1>5. CASE DebugStop \/ AssembleAbort
  BY <1>0, <1>5, AbortIsAbort DEF DebugStop, AssembleAbort, Exec!Next
<1>6. CASE Restart
  BY <1>0, <1>6, LoadIsLoad DEF Restart, Reload, Exec!Next
<1>7. ASSUME NEW a \in Lines, RunToLine(a) PROVE Exec!Next
  <2>1. /\ Live = {} /\ IsStopped /\ UNCHANGED <<status, stopExec, halted, pc, th>>
        /\ bp' = [bp EXCEPT ![a] = {"TEMP_EXEC"}]
    BY <1>0, <1>7 DEF RunToLine, SetBp
  <2>2. Exec!PutTemp(a)
    BY <2>1, AtRestIsIdle DEF Exec!PutTemp, Exec!Runnable, IsStopped, IsRunning
  <2>. QED
    BY <2>2, AddrAssumption DEF Exec!Next
<1>8. ASSUME NEW a \in Lines, SkipToLine(a) PROVE Exec!Next
  <2>1. /\ Live = {} /\ IsStopped /\ pc' = a
        /\ UNCHANGED <<status, stopExec, halted, bp, th>>
    BY <1>0, <1>8 DEF SkipToLine
  <2>2. Exec!SkipTo(a)
    BY <2>1, AtRestIsIdle DEF Exec!SkipTo, Exec!Runnable, IsStopped, IsRunning
  <2>. QED
    BY <2>2, AddrAssumption DEF Exec!Next
<1>9. ASSUME NEW a \in Lines, ToggleBreakpoint(a) \/ ToggleInDisassembly(a) PROVE Exec!Next
  <2>1. UNCHANGED <<status, stopExec, halted, pc, th>>
    BY <1>9 DEF ToggleBreakpoint, ToggleInDisassembly
  <2>2. bp' = [bp EXCEPT ![a] = {"EXECUTE"}] \/ bp' = [bp EXCEPT ![a] = {}]
    BY <1>9 DEF ToggleBreakpoint, ToggleInDisassembly, Toggled, SetBp
  <2>3. \A b \in Addr : bp'[b] = bp[b] \/ bp'[b] \in {{}, {"EXECUTE"}}
    BY <2>2 DEF TypeOK, BpMap
  <2>. QED
    BY <2>1, <2>3, BreaksEdited DEF Exec!Next
<1>. QED
  BY <1>1, <1>2, <1>3, <1>4, <1>5, <1>6, <1>7, <1>8, <1>9 DEF User

(* The rest of what the user-interface thread does: assembling loads, the  *)
(* editor's breakpoints come back, and Run stays unseen, its clearing of   *)
(* stop_execution_ included, because nothing runs there.                   *)
LEMMA UiImplements ==
  ASSUME TypeOK, SerialInv, RunningHasThread, UiStep
  PROVE  Exec!Next \/ UNCHANGED Exec!vars
<1>. USE DEF simVars, uiVars
<1>1. CASE \/ AssembleFail \/ RunCheck \/ RunDetach \/ RunSwap
           \/ \E event \in Events : OnExecEvent(event)
  BY <1>1, Unseen DEF AssembleFail, RunCheck, RunDetach, RunSwap, OnExecEvent
<1>2. CASE AssembleLoad \/ AssembleMisfit
  <2>1. Live = {} /\ th' = th /\ stopExec' = stopExec /\ Reset
    BY <1>2 DEF AssembleLoad, AssembleMisfit, Reload, SerialInv, StartsAlone
  <2>2. \/ bp' = Exec!NoBreaks
        \/ bp' = [Exec!NoBreaks EXCEPT ![CodeStart] = {"TEMP_EXEC"}]
    BY <1>2 DEF AssembleLoad, AssembleMisfit, Reload, Exec!NoBreaks
  <2>3. Exec!Load(Exec!NoBreaks)
    BY <2>1, <2>2, LoadIsLoad
  <2>. QED
    BY <2>3 DEF Exec!Next
<1>3. CASE SetMarks
  <2>1. UNCHANGED <<status, stopExec, halted, pc, th>>
    BY <1>3 DEF SetMarks
  <2>2. \A a \in Addr : bp'[a] = bp[a] \/ bp'[a] \in {{}, {"EXECUTE"}}
    BY <1>3 DEF SetMarks
  <2>. QED
    BY <2>1, <2>2, BreaksEdited DEF Exec!Next
<1>4. CASE RunClear
  <2>1. Live = {} /\ UNCHANGED <<status, halted, bp, pc, th>>
    BY <1>4 DEF RunClear, SerialInv, StartsAlone
  <2>2. ~IsRunning /\ ~IsRunning'
    BY <2>1, AtRestIsIdle DEF IsRunning
  <2>. QED
    BY <2>1, <2>2, RunSame DEF Exec!vars
<1>5. ASSUME NEW t \in Threads, RunSpawn(t) PROVE UNCHANGED Exec!vars
  <2>1. Live = {} /\ UNCHANGED <<status, stopExec, halted, bp, pc>>
    BY <1>5 DEF RunSpawn, SerialInv, StartsAlone
  <2>2. th'[t].ph = "start" /\ \A u \in Threads \ {t} : th'[u].ph = "gone"
    BY <1>5, <2>1 DEF RunSpawn, Live, TypeOK
  <2>3. Live' = {t}
    BY <2>2 DEF Live
  <2>4. CurrentRun' = CurrentRun
    BY <2>1, <2>2, <2>3 DEF CurrentRun, RunSeen, IdleThread, At
  <2>. QED
    BY <2>1, <2>4 DEF Exec!vars, IsRunning
<1>. QED
  BY <1>1, <1>2, <1>3, <1>4, <1>5 DEF UiStep

(* A thread that moves on within a run keeps how long to run for.          *)
LEMMA GotoKeeps ==
  ASSUME th \in [Threads -> ThreadType], NEW t \in Threads, NEW ph \in Phase, Goto(t, ph)
  PROVE  th'[t].cond = th[t].cond /\ th'[t].pending = th[t].pending
<1>1. th'[t] = [th[t] EXCEPT !.ph = ph]
  BY DEF Goto
<1>. QED
  BY <1>1 DEF ThreadType

(* What a run that ends or is over looks like.                             *)
LEMMA EndSeen ==
  ASSUME th \in [Threads -> ThreadType], NEW t \in Threads, NEW ret
  PROVE  /\ ReturnWith(t, ret) => RunSeen(th[t])' = Exec!Ending(ret)
         /\ LeaveLoop(t) => RunSeen(th[t])' = Exec!Ending(Exec!Stopped(halted'))
         /\ th'[t].ph \in {"gone", "start", "event", "post", "join", "detach"} =>
              RunSeen(th[t])' = Exec!Rest
BY BecomeMove DEF RunSeen, ReturnWith, LeaveLoop, Exec!Ending, Exec!Stopped, Exec!Rest, Exec!Run

(* At the top of the loop: a stop request, a halted CPU, a breakpoint, or  *)
(* the next instruction.                                                   *)
LEMMA LoopImplements ==
  ASSUME TypeOK, SerialInv, NEW t \in Threads,
         LoopStop(t) \/ LoopHalted(t) \/ LoopBreakpoint(t) \/ LoopContinue(t)
  PROVE  Exec!Next
<1>. USE DEF simVars, uiVars
<1>0. th \in [Threads -> ThreadType] /\ pc \in Addr /\ bp \in BpMap
  BY DEF TypeOK
<1>1. th[t].ph = "loop" /\ UNCHANGED <<status, stopExec, halted, pc>>
  BY DEF LoopStop, LoopHalted, LoopBreakpoint, LoopContinue
<1>2. \A u \in Threads \ {t} : th'[u] = th[u]
  BY <1>0, BecomeMove DEF LoopStop, LoopHalted, LoopBreakpoint, LoopContinue, LeaveLoop,
    ReturnWith
<1>3. IsRunning /\ IsRunning'
  BY <1>1 DEF SerialInv, WorkingMeansRunning, Working, IsRunning
<1>4. /\ CurrentRun.at = IF th[t].pending THEN "check" ELSE "first"
      /\ CurrentRun.cond = th[t].cond
      /\ CurrentRun' = RunSeen(th[t])'
  <2>1. CurrentRun = RunSeen(th[t])
    BY <1>1, RunOfLive
  <2>. QED
    BY <1>1, <1>2, <2>1, RunAfterMove DEF RunSeen
<1>5. bp[pc] \in {{}, {"EXECUTE"}, {"TEMP_EXEC"}}
  BY <1>0 DEF BpMap, BptType
<1>6. CASE LoopStop(t)
  <2>1. stopExec /\ bp' = bp /\ CurrentRun' = Exec!Ending(Exec!Stopped(halted))
    BY <1>0, <1>1, <1>4, <1>6, EndSeen DEF LoopStop
  <2>2. Exec!StopAsked
    BY <1>1, <1>3, <1>4, <2>1 DEF Exec!StopAsked, Exec!AtCheck
  <2>. QED
    BY <2>2 DEF Exec!Next
<1>7. CASE LoopHalted(t)
  <2>1. ~stopExec /\ halted /\ bp' = bp /\ CurrentRun' = Exec!Ending("FINISHED")
    BY <1>0, <1>4, <1>7, EndSeen DEF LoopHalted
  <2>2. Exec!StopHalted
    BY <1>1, <1>3, <1>4, <2>1 DEF Exec!StopHalted, Exec!AtCheck
  <2>. QED
    BY <2>2 DEF Exec!Next
<1>8. CASE LoopBreakpoint(t)
  <2>1. ~stopExec /\ ~halted /\ bp' = [bp EXCEPT ![pc] = @ \ {"TEMP_EXEC"}]
    BY <1>8 DEF LoopBreakpoint, ClearTemp
  <2>2. CASE "TEMP_EXEC" \in bp[pc]
    <3>1. CurrentRun' = Exec!Ending("STOPPED")
      BY <1>0, <1>4, <1>8, <2>2, EndSeen DEF LoopBreakpoint
    <3>2. Exec!StopTemp
      BY <1>1, <1>3, <1>4, <2>1, <2>2, <3>1 DEF Exec!StopTemp, Exec!AtCheck
    <3>. QED
      BY <3>2 DEF Exec!Next
  <2>3. CASE "TEMP_EXEC" \notin bp[pc]
    <3>1. /\ bp[pc] = {"EXECUTE"} /\ th[t].pending
          /\ CurrentRun' = Exec!Ending("BREAKPOINT_HIT")
      BY <1>0, <1>4, <1>5, <1>8, <2>3, EndSeen DEF LoopBreakpoint, Hit
    <3>2. bp' = bp
      BY <1>0, <2>1, <2>3 DEF BpMap
    <3>3. Exec!StopBreak
      BY <1>1, <1>3, <1>4, <2>1, <3>1, <3>2 DEF Exec!StopBreak
    <3>. QED
      BY <3>3 DEF Exec!Next
  <2>. QED
    BY <2>2, <2>3
<1>9. CASE LoopContinue(t)
  <2>1. ~stopExec /\ ~halted /\ bp' = bp
    BY <1>9 DEF LoopContinue
  <2>2. bp[pc] = {} \/ (bp[pc] = {"EXECUTE"} /\ ~th[t].pending)
    BY <1>5, <1>9 DEF LoopContinue, Hit, BptType
  <2>3. th'[t].ph = "exec" /\ th'[t].cond = th[t].cond
    BY <1>0, <1>9 DEF LoopContinue
  <2>4. CurrentRun' = Exec!Run("execute", CurrentRun.cond)
    BY <1>4, <2>3 DEF RunSeen, Exec!Run
  <2>5. Exec!Commit
    BY <1>1, <1>3, <1>4, <2>1, <2>2, <2>4 DEF Exec!Commit, Exec!AtCheck
  <2>. QED
    BY <2>5 DEF Exec!Next
<1>. QED
  BY <1>6, <1>7, <1>8, <1>9

(* The instruction the run is committed to: performed, or the end of it.   *)
LEMMA ExecuteImplements ==
  ASSUME TypeOK, SerialInv, ExecInv, NEW t \in Threads, NEW e \in Behaviour[pc],
         Execute(t, e) \/ ExecuteFault(t, e) \/ ExecuteDouble(t, e) \/ ExecuteError(t, e)
  PROVE  Exec!Next
<1>. USE DEF simVars, uiVars
<1>0. th \in [Threads -> ThreadType]
  BY DEF TypeOK
<1>1. th[t].ph = "exec" /\ ~halted /\ bp' = bp
  BY DEF Execute, ExecuteFault, ExecuteDouble, ExecuteError
<1>2. \A u \in Threads \ {t} : th'[u] = th[u]
  BY <1>0, GotoMove, BecomeMove DEF Execute, ExecuteFault, ExecuteDouble, ExecuteError,
    LeaveLoop, End, Phase
<1>3. IsRunning
  BY <1>1 DEF SerialInv, WorkingMeansRunning, Working
<1>4. /\ CurrentRun = Exec!Run("execute", th[t].cond)
      /\ CurrentRun' = RunSeen(th[t])'
  <2>1. CurrentRun = RunSeen(th[t])
    BY <1>1, RunOfLive
  <2>. QED
    BY <1>1, <1>2, <2>1, RunAfterMove DEF RunSeen, Exec!Run
<1>5. CurrentRun.at = "execute" /\ CurrentRun.cond = th[t].cond
  BY <1>4 DEF Exec!Run
<1>6. CASE Execute(t, e)
  <2>1. /\ e.kind \in {"step", "return", "halt"} /\ pc' = e.to
        /\ UNCHANGED <<status, stopExec>> /\ halted' = (e.kind = "halt")
    BY <1>6 DEF Execute
  <2>2. CASE Exec!Ends(e)
    <3>1. LeaveLoop(t)
      BY <1>5, <1>6, <2>2 DEF Execute, Exec!Ends
    <3>2. CurrentRun' = Exec!Ending(Exec!Stopped(e.kind = "halt"))
      BY <1>0, <1>4, <2>1, <3>1, EndSeen DEF Exec!Stopped
    <3>. QED
      BY <1>1, <1>3, <1>5, <2>1, <2>2, <3>2 DEF Exec!Perform, Exec!Next, IsRunning
  <2>3. CASE ~Exec!Ends(e)
    <3>1. Goto(t, "loop")
      BY <1>5, <1>6, <2>3 DEF Execute, Exec!Ends
    <3>2. th'[t].ph = "loop" /\ th'[t].cond = th[t].cond /\ th'[t].pending
      BY <1>0, <1>1, <3>1, GotoMove, GotoKeeps DEF Phase, ExecInv, ThreadReady
    <3>3. CurrentRun' = Exec!Run("check", CurrentRun.cond)
      BY <1>4, <1>5, <3>2 DEF RunSeen, Exec!Run
    <3>. QED
      BY <1>1, <1>3, <1>5, <2>1, <2>3, <3>3 DEF Exec!Perform, Exec!Next, IsRunning
  <2>. QED
    BY <2>2, <2>3
<1>7. CASE ExecuteFault(t, e)
  <2>1. /\ e.kind = "fault" /\ stopExec' /\ UNCHANGED <<status, halted, pc>>
        /\ th'[t].ph = "caught"
    BY <1>0, <1>7, GotoMove DEF ExecuteFault, Phase
  <2>2. CurrentRun' = Exec!Ending("EXCEPTION")
    BY <1>4, <2>1 DEF RunSeen, Exec!Ending
  <2>3. Exec!Fault(e)
    BY <1>1, <1>3, <1>5, <2>1, <2>2 DEF Exec!Fault, IsRunning
  <2>. QED
    BY <2>3 DEF Exec!Next
<1>8. CASE ExecuteDouble(t, e)
  <2>1. e.kind = "double" /\ pc' = e.to /\ UNCHANGED <<status, stopExec, halted>>
    BY <1>8 DEF ExecuteDouble
  <2>2. CurrentRun' = Exec!Ending("STOPPED")
    BY <1>0, <1>1, <1>4, <1>8, <2>1, EndSeen DEF ExecuteDouble, Exec!Stopped
  <2>3. Exec!Double(e)
    BY <1>1, <1>3, <1>5, <2>1, <2>2 DEF Exec!Double, IsRunning
  <2>. QED
    BY <2>3 DEF Exec!Next
<1>9. CASE ExecuteError(t, e)
  <2>1. /\ e.kind = "error" /\ status' = "INTERNAL_ERROR" /\ UNCHANGED <<stopExec, halted, pc>>
        /\ th'[t].ph = "gone"
    BY <1>0, <1>9, BecomeMove DEF ExecuteError, End
  <2>2. CurrentRun' = Exec!Rest
    BY <1>0, <1>4, <2>1, EndSeen
  <2>3. Exec!Error(e)
    BY <1>1, <1>3, <1>5, <2>1, <2>2 DEF Exec!Error, IsRunning
  <2>. QED
    BY <2>3 DEF Exec!Next
<1>. QED
  BY <1>6, <1>7, <1>8, <1>9

(* Before and after the loop: the run begins with the status, is tidied up *)
(* and ends with the status; the event and the thread object are unseen.   *)
LEMMA ThreadImplements ==
  ASSUME TypeOK, SerialInv, HaltInv, PublishesStop, ExecInv,
         NEW t \in Threads, ThreadStep(t)
  PROVE  Exec!Next \/ UNCHANGED Exec!vars
<1>. USE DEF simVars, uiVars
<1>0. th \in [Threads -> ThreadType] /\ tempAddr \in Addr \cup {NoAddr} /\ ThreadReady(t)
  BY DEF TypeOK, ExecInv
<1>. DEFINE Alone == \A u \in Threads \ {t} : th'[u] = th[u]
<1>1. ASSUME th[t].ph # "gone", Alone
      PROVE  CurrentRun = RunSeen(th[t]) /\ CurrentRun' = RunSeen(th[t])'
  BY <1>1, RunOfLive, RunAfterMove
<1>2. th[t].ph \in Working => IsRunning
  BY DEF SerialInv, WorkingMeansRunning
<1>3. CASE ThreadStart(t)
  <2>1. /\ th[t].ph = "start" /\ ~stopExec /\ ~halted /\ ~th[t].pending
        /\ status \in Exec!Runnable
        /\ th[t].cond \in Condition /\ status' = "IS_RUNNING"
        /\ UNCHANGED <<stopExec, halted, bp, pc>>
    <3>1. /\ th[t].ph = "start" /\ status' = "IS_RUNNING"
          /\ UNCHANGED <<stopExec, halted, bp, pc>>
      BY <1>3 DEF ThreadStart
    <3>2. CanRun /\ ~stopExec /\ ~th[t].pending
      BY <1>0, <3>1 DEF ThreadReady
    <3>3. \A u \in Threads : th[u].ph \notin Working
      BY <3>1 DEF SerialInv, OneThread, Live, Working
    <3>4. ~halted
      BY <3>2, <3>3 DEF CanRun, HaltInv
    <3>. QED
      BY <1>0, <3>1, <3>2, <3>4, ThreadFields DEF CanRun, Exec!Runnable
  <2>2. /\ th'[t].ph = "announce" /\ th'[t].cond = th[t].cond /\ ~th'[t].pending
        /\ Alone
    BY <1>0, <1>3, <2>1, GotoMove, GotoKeeps DEF ThreadStart, Phase
  <2>3. CurrentRun = Exec!Rest /\ CurrentRun' = Exec!Run("first", th[t].cond)
    BY <1>1, <2>1, <2>2 DEF RunSeen, Exec!Rest, Exec!Run
  <2>4. Exec!Start(th[t].cond)
    BY <2>1, <2>3 DEF Exec!Start, IsRunning
  <2>. QED
    BY <2>1, <2>4 DEF Exec!Next, Condition
<1>4. CASE ThreadAnnounce(t)
  <2>1. th[t].ph = "announce" /\ UNCHANGED <<status, stopExec, halted, bp, pc>>
    BY <1>4 DEF ThreadAnnounce
  <2>2. /\ th'[t].ph = "loop" /\ th'[t].cond = th[t].cond
        /\ th'[t].pending = th[t].pending /\ Alone
    BY <1>0, <1>4, GotoMove, GotoKeeps DEF ThreadAnnounce, Phase
  <2>3. CurrentRun' = CurrentRun
    BY <1>1, <2>1, <2>2 DEF RunSeen
  <2>. QED
    BY <2>1, <2>3 DEF Exec!vars, IsRunning
<1>5. CASE LoopStop(t) \/ LoopHalted(t) \/ LoopBreakpoint(t) \/ LoopContinue(t)
  BY <1>5, LoopImplements
<1>6. CASE ExecuteSkip(t)
  BY <1>0, <1>6 DEF ExecuteSkip, ThreadReady
<1>7. ASSUME NEW e \in Behaviour[pc],
             Execute(t, e) \/ ExecuteFault(t, e) \/ ExecuteDouble(t, e) \/ ExecuteError(t, e)
      PROVE  Exec!Next
  BY <1>7, ExecuteImplements
<1>8. CASE Caught(t)
  <2>1. /\ th[t].ph = "caught" /\ ~halted /\ ReturnWith(t, "EXCEPTION")
        /\ UNCHANGED <<status, stopExec, halted, bp, pc>>
    BY <1>0, <1>8 DEF Caught, ThreadReady
  <2>2. Alone
    BY <1>0, <2>1, BecomeMove DEF ReturnWith
  <2>3. CurrentRun' = CurrentRun
    BY <1>0, <1>1, <2>1, <2>2, EndSeen DEF RunSeen, Exec!Ending
  <2>. QED
    BY <2>1, <2>3 DEF Exec!vars, IsRunning
<1>9. CASE Leave(t)
  <2>1. /\ th[t].ph = "leave" /\ ReturnWith(t, Exec!Stopped(halted))
        /\ UNCHANGED <<status, stopExec, halted, pc>> /\ bp' = ClearIfTemp(tempAddr)
    BY <1>9 DEF Leave, Exec!Stopped
  <2>2. Alone
    BY <1>0, <2>1, BecomeMove DEF ReturnWith
  <2>3. CurrentRun = Exec!Ending(Exec!Stopped(halted))
    BY <1>1, <2>1, <2>2 DEF RunSeen, Exec!Ending, Exec!Stopped
  <2>4. CurrentRun' = CurrentRun
    BY <1>0, <1>1, <2>1, <2>2, <2>3, EndSeen
  <2>5. CASE tempAddr = NoAddr
    BY <2>1, <2>4, <2>5 DEF Exec!vars, IsRunning, ClearIfTemp
  <2>6. CASE tempAddr \in Addr
    <3>1. bp' = [bp EXCEPT ![tempAddr] = @ \ {"TEMP_EXEC"}]
      BY <2>1, <2>6, AddrAssumption DEF ClearIfTemp, ClearTemp
    <3>2. Exec!Tidy(tempAddr)
      BY <2>1, <2>3, <2>4, <3>1 DEF Exec!Tidy, Exec!Ending, IsRunning
    <3>. QED
      BY <2>6, <3>2 DEF Exec!Next
  <2>. QED
    BY <1>0, <2>5, <2>6
<1>10. CASE Publish(t)
  <2>1. /\ th[t].ph = "publish" /\ status' = th[t].ret /\ Become(t, "event", "STOPPED")
        /\ UNCHANGED <<stopExec, halted, bp, pc>>
    BY <1>10 DEF Publish
  <2>2. Alone /\ th'[t].ph = "event"
    BY <1>0, <2>1, BecomeMove
  <2>3. CurrentRun = Exec!Ending(status') /\ CurrentRun' = Exec!Rest
    BY <1>0, <1>1, <2>1, <2>2, EndSeen DEF RunSeen, Exec!Ending
  <2>4. status' # "IS_RUNNING"
    BY <2>1 DEF PublishesStop
  <2>5. Exec!Finish
    BY <2>1, <2>3, <2>4 DEF Exec!Finish, Exec!Ending, IsRunning
  <2>. QED
    BY <2>5 DEF Exec!Next
<1>11. CASE EventRead(t) \/ EventPost(t) \/ ThreadJoinable(t) \/ ThreadDetach(t)
  <2>1. UNCHANGED <<status, stopExec, halted, bp, pc>>
    BY <1>0, <1>11 DEF EventRead, EventPost, ThreadJoinable, ThreadDetach, ThreadReady
  <2>2. /\ th[t].ph \in {"event", "post", "join", "detach"} /\ Alone
        /\ th'[t].ph \in {"gone", "post", "join", "detach"}
    BY <1>0, <1>11, BecomeMove DEF EventRead, EventPost, ThreadJoinable, ThreadDetach, End
  <2>3. CurrentRun = Exec!Rest /\ CurrentRun' = Exec!Rest
    BY <1>0, <1>1, <2>2, EndSeen DEF RunSeen, Exec!Rest, Exec!Run
  <2>. QED
    BY <2>1, <2>3 DEF Exec!vars, IsRunning
<1>. QED
  BY <1>3, <1>4, <1>5, <1>6, <1>7, <1>8, <1>9, <1>10, <1>11 DEF ThreadStep

(* For a user who waits for the last thread to end before the next run     *)
(* command, Simulator::Impl::Run, RunThread and RunSimulation with all the *)
(* members they share are the machine without threads of Execution,        *)
(* whatever the program does and however the user edits breakpoints while  *)
(* it runs.                                                                *)
THEOREM SerialisedImplements ==
  ASSUME Serialised
  PROVE  Spec => ImplementsExecution
<1>1. Init => Exec!Init
  <2>. SUFFICES ASSUME Init PROVE Exec!Init
    OBVIOUS
  <2>1. Live = {} /\ ~IsRunning
    BY DEF Init, Live, IdleThread, At, IsRunning
  <2>2. CurrentRun = Exec!Rest
    BY <2>1 DEF CurrentRun, RunSeen, IdleThread, At, Exec!Rest, Exec!Run
  <2>. QED
    BY <2>1, <2>2 DEF Init, Exec!Init, Exec!NoBreaks
<1>2. TypeOK /\ SerialInv /\ HaltInv /\ RunInv /\ ExecInv /\ [Next]_vars
        => [Exec!Next]_(Exec!vars)
  <2>. SUFFICES ASSUME TypeOK, SerialInv, HaltInv, RunInv, ExecInv, [Next]_vars
                PROVE  Exec!Next \/ UNCHANGED Exec!vars
    OBVIOUS
  <2>1. CASE UNCHANGED vars
    BY <2>1, Unseen DEF vars, simVars
  <2>2. CASE User
    BY <2>2, UserImplements DEF RunInv
  <2>3. CASE UiStep
    BY <2>3, UiImplements DEF RunInv
  <2>4. ASSUME NEW t \in Threads, ThreadStep(t) PROVE Exec!Next \/ UNCHANGED Exec!vars
    BY <2>4, ThreadImplements DEF RunInv
  <2>. QED
    BY <2>1, <2>2, <2>3, <2>4 DEF Next
<1>. QED
  BY <1>1, <1>2, TypeCorrect, SerialisedIsAlone, SerialisedHalt, RunningAlways, SerialisedReady,
    PTL DEF Spec, ImplementsExecution, Exec!Spec
=============================================================================
