\* One register of four bits.
SPECIFICATION Spec
CONSTANTS
  Width = 4
  Weight <- MCWeight
  Reg = {d0}
CHECK_DEADLOCK FALSE
INVARIANTS
  ExtendIsCarry
  ConditionsOfSum
  CompareTable
  DivisionExact
  ShiftsCompose
