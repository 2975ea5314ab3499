CONSTANTS
  f1 = f1  f2 = f2  q1 = q1  d1 = d1  t1 = t1  t2 = t2
  Fetches = {f1, f2}
  Queries = {q1}
  Downloads = {d1}
  Tokens = {t1, t2}
  MaxCalls = 2
  Nothing = Nothing
SPECIFICATION FairSpec
INVARIANTS OwnPayload
PROPERTIES KeepsPromise
