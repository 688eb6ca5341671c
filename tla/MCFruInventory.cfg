SPECIFICATION Spec
CONSTANTS
  Frus <- MCFrus
  Versions <- MCVersions
INVARIANTS
  TypeOK
  AreaExact
  FirstInventoryExact
  TruncatedNotWrong
  PanicHasCause
PROPERTY EveryCallReturns
