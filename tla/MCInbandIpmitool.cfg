SPECIFICATION Spec
CONSTANTS
  NMLists <- MCLists
  Lengths = {1, 2, 8, 12, 15, 72}
  NoData = NoData
INVARIANTS
  TypeOK
  FormatsExactButPMBus
  ListedMetricsExact
  CollectedWhereProbed
PROPERTIES
  ImplementsIpmiAL
  EveryCallReturns
