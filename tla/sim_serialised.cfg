\* The user waits for the execution thread before giving the next run command.
CONSTANTS
  Addr <- MCAddr
  MonitorStart = 1
  CodeStart = 2
  Behaviour <- PlainProgram
  Returns <- MCReturns
  Lines = {3}
  Threads = {t1}
  Serialised = TRUE
SPECIFICATION Spec
INVARIANTS HaltedIffFinished ViewSettles
PROPERTIES ImplementsExecution
