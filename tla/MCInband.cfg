SPECIFICATION Spec
CONSTANTS
  Requests = {r1, r2, short}
  ShortRequests = {short}
  Payloads = {ok}
  NoData = NoData
  NSim = 3
  MaxBatch = 4
INVARIANTS
  TypeOK
  OkMeansAllAnswered
  WindowBound
  OkMeansShortBatch
  NothingLeaks
PROPERTIES
  ImplementsIpmiAL
  EveryCallReturns
