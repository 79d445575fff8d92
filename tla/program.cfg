SPECIFICATION Spec
CONSTANTS
  Top = 5
  Times = 2
INVARIANTS
  TypeOK
PROPERTIES
  PutTakesEffect
  ImplementsMap
