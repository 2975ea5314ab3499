CONSTANTS
  h1 = h1  h2 = h2  h3 = h3  t1 = t1  u1 = u1
  HubCallbacks = {h1, h2, h3}
  TimerCallbacks = {t1}
  SignalCallbacks = {u1}
  Throwing = {h2, t1}
  Capacity = 2
  Nothing = Nothing
SPECIFICATION FairSystemSpec
CHECK_DEADLOCK FALSE
INVARIANTS OnePointer WaitedStopIsQuiet
PROPERTIES ImplementsPromise StopReturns EveryCallbackPerformed
