\* The user waits for nothing.
CONSTANTS
  Addr <- BrokenAddr
  MonitorStart = 1
  CodeStart = 2
  Behaviour <- BrokenProgram
  Returns <- MCReturns
  Lines = {3}
  Threads = {t1, t2}
  Serialised = FALSE
SPECIFICATION Spec
INVARIANTS RunningHasThread NoTerminate
VIEW ControlView
SYMMETRY ThreadSymmetry
