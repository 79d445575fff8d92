\* The user waits for nothing; one thread at a time.
CONSTANTS
  Addr <- LoopAddr
  MonitorStart = 1
  CodeStart = 2
  Behaviour <- LoopProgram
  Returns <- NoCalls
  Lines = {}
  Threads = {t1}
  Serialised = FALSE
SPECIFICATION FairSpec
PROPERTIES BreakStops HaltStopsThreads BreakShown
