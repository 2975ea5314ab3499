CONSTANTS
  t1 = t1  t2 = t2  s1 = s1
  c1 = c1  c2 = c2  manager = manager
  Nobody = Nobody
  Manager = manager
  Clients = {c1, manager}
  Leaving = {c1, manager}
  Tasks = {t1, t2}
  Subscriptions = {s1}
  Callbacks <- OneThen
  MaxEchoes = 2
  MaxEvents = 1
SPECIFICATION Spec
INVARIANTS MessageFindsSender
