CONSTANTS
  r1 = r1  r2 = r2  r3 = r3  r4 = r4
  d1 = d1  d2 = d2  d3 = d3  d4 = d4
  Requests = {r1, r2, r3}
  Devices = {d1, d2, d3}
  NoRequest = NoRequest
  NoDevice = NoDevice
  Target <- TwoRedis
  Limit <- OneEach
  MaxReuse <- Unlimited
  Invalidates = {}
  ConnectErrors = {"Redis"}
  ExecuteErrors = {"PostgreSQL"}
SPECIFICATION FairSpec
INVARIANTS NoFatal
PROPERTIES EveryRequestAnswered LostDeviceDeleted
