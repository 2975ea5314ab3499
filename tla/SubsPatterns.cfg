CONSTANTS
  a = a  b = b  c = c  ch1 = ch1  ch2 = ch2  pat = pat
  NoTopic = NoTopic  Nobody = Nobody
  Channels = {ch1}
  Patterns = {pat}
  Clients = {a}
  Defaults = {}
  Calls = {"subscribe"}
  MinTimeout = 2000
  MaxTimeout = 32000
  MaxCalls = 2
  MaxLosses = 1
  MaxMessages = 0
SPECIFICATION FairSpec
PROPERTIES PatternsRecovered
CHECK_DEADLOCK FALSE
