SPECIFICATION Spec
CONSTANTS
  Clock = 10
  Counter = 3
  Prescales = {1, 2}
  Clocks = {0, 1, 2}
  Costs = {1, 3}
INVARIANTS
  OnSchedule
  PeriodIsReference
  EventIsFresh
