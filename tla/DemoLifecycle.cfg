SPECIFICATION Spec
CONSTANTS
  d1 = d1  l1 = l1  l2 = l2  w1 = w1  w2 = w2
  Null = Null
  Demos <- MCDemos
  Labels <- MCLabels
  Workers <- MCWorkers
  MaxRows = 8
  LeaseDays = 7
  ExtensionDays = 14
  MaxClock = 1
SYMMETRY Symmetry
INVARIANTS TypeOK TermKept NeverRejected
PROPERTIES PromiseSpec
CHECK_DEADLOCK FALSE
