SPECIFICATION HealthSpec
CONSTANTS
  Hosts = {hostA}
  Repositories <- MCRepositories
  SensorOf <- MCSensorOf
  Readings <- MCReadings
  AllocationUnits = {0, 1, 13, 300}
  None = None
  MaxChanges = 2
INVARIANTS
  TypeOK
  UsedBytesRead
  CachedSnapshot
  HealthTypeOK
  WordHasCause
  AgreedSeverity
PROPERTY EveryCallReturns
