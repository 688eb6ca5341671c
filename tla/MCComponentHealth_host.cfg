SPECIFICATION HealthSpec
CONSTANTS
  Hosts = {hostA, hostB}
  Repositories <- MCRepositories
  SensorOf <- MCSensorOf
  Readings <- MCReadings
  AllocationUnits = {0, 1, 13, 300}
  None = None
  MaxChanges = 0
INVARIANT HealthOfItsHost
