SPECIFICATION Spec
CONSTANTS
  r1 = r1
  r2 = r2
  Requests = {r1, r2}
  Vendor <- MCVendor
  Payloads = {zero, short, long}
  ZeroPayloads = {zero}
  LongPayloads = {long}
  NoData = NoData
  Protocols = {"node_manager", "dcmi"}
  MaxBatch = 3
INVARIANTS
  TypeOK
  OneToolAtATime
  NoWriteAfterReturn
  CapabilitiesExact
PROPERTIES
  ImplementsIpmiAL
  CallsReturnButForDcmi
CHECK_DEADLOCK FALSE
