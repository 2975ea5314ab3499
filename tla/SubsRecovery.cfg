CONSTANTS
  a = a  b = b  c = c  ch1 = ch1  ch2 = ch2  pat = pat
  NoTopic = NoTopic  Nobody = Nobody
  Channels = {ch1, ch2}
  Patterns = {}
  Clients = {a}
  Defaults = {ch1}
  Calls = {"subscribe", "defaults"}
  MinTimeout = 2000
  MaxTimeout = 8000
  MaxCalls = 2
  MaxLosses = 3
  MaxMessages = 0
SPECIFICATION FairSpec
INVARIANTS TypeOK PendingTracked RunningMatches
PROPERTIES Recovered
CHECK_DEADLOCK FALSE
