SPECIFICATION Spec
CONSTANTS
  r1 = r1
  r2 = r2
  Requests = {r1, r2}
  Vendor <- MCVendor
  Payloads = {zero, long}
  ZeroPayloads = {zero}
  LongPayloads = {long}
  NoData = NoData
  Protocols = {"dcmi"}
  MaxBatch = 1
PROPERTY EveryCallReturns
CHECK_DEADLOCK FALSE
