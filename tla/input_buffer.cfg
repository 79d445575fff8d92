\* A ring of four slots under key strokes, pasted texts and reads.
CONSTANTS
  Char = {1, 2}
  Nothing = 0
  BUF_SIZE = 4
  Texts <- MCTexts
SPECIFICATION Spec
INVARIANTS TypeOK
PROPERTIES ImplementsQueue
