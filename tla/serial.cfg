\* Keys and characters through a receive buffer that overflows, in a
\* simulator that keeps running.
CONSTANTS
  Capacity = 1
  URB_SIZE = 2
  READ_DELAY = 1
  MaxTyped = 3
  MaxWritten = 2
SPECIFICATION FairSpec
INVARIANTS KeysInOrder PhantomFirst WrittenOnce
PROPERTIES KeysFetched
