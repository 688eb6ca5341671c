SPECIFICATION Spec
CONSTANTS
  Configs <- AllConfigs
  GenericVendor = {g1, g2, temp}
  Temp = temp
  NDimms = 2
  DCMIVendor = {d1}
  DcmiThermal = DcmiThermal
  InventoryMetrics = {inv}
  HealthMetrics = {h}
  NSim = 2
  MaxTask = 2
  Values = {Zero, v}
  Zero = Zero
  None = None
INVARIANTS
  TypeOK
  OneConfiguration
  IpmitoolMeasured
  NodeManagerNeedsIpmitool
  CollectedWhereProbed
