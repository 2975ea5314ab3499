CONSTANTS
  a = a  b = b  c = c  ch1 = ch1  ch2 = ch2  pat = pat
  NoTopic = NoTopic  Nobody = Nobody
  Channels = {ch1}
  Patterns = {}
  Clients = {a, b, c}
  Defaults = {}
  Calls = {"subscribe", "unsubscribe", "foreign", "leave"}
  MinTimeout = 2000
  MaxTimeout = 32000
  MaxCalls = 4
  MaxLosses = 0
  MaxMessages = 1
SPECIFICATION Spec
INVARIANTS EveryClientTold
CHECK_DEADLOCK FALSE
