\* All programs of the families of MCAssembler.
CONSTANTS
  Programs <- MCTrees
  Source <- Text
  LocalNames <- MCLocal
SPECIFICATION Spec
INVARIANTS TypeOK  PhasesAgree
PROPERTIES Terminates
