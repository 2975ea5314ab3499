CONSTANTS
  r1 = r1  r2 = r2  r3 = r3  r4 = r4
  d1 = d1  d2 = d2  d3 = d3  d4 = d4
  Requests = {r1, r2, r3, r4}
  Devices = {d1, d2, d3, d4}
  NoRequest = NoRequest
  NoDevice = NoDevice
  Target <- OneCURL
  Limit <- OneEach
  MaxReuse <- Unlimited
  Invalidates = {}
  ConnectErrors = {"Redis", "PostgreSQL"}
  ExecuteErrors = {"PostgreSQL", "CURL"}
SPECIFICATION Spec
SYMMETRY Addresses
INVARIANTS TypeOK OnePlace WithinLimit CachedIsIdle NoDangling
  CallbackMatchesLink
PROPERTIES ImplementsPool
