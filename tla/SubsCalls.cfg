CONSTANTS
  a = a  b = b  c = c  ch1 = ch1  ch2 = ch2  pat = pat
  NoTopic = NoTopic  Nobody = Nobody
  Channels = {ch1}
  Patterns = {pat}
  Clients = {a, b}
  Defaults = {}
  Calls = {"subscribe", "unsubscribe", "foreign", "leave"}
  MinTimeout = 2000
  MaxTimeout = 32000
  MaxCalls = 4
  MaxLosses = 0
  MaxMessages = 1
SPECIFICATION FairSpec
INVARIANTS StatusAgrees LinkedIsServed OneUnderWay ArmedWhileWaiting
PROPERTIES CommandsFinish
CHECK_DEADLOCK FALSE
