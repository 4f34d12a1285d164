SPECIFICATION FairSpec
CONSTANTS
  t1 = t1
  t2 = t2
  Turns = {t1, t2}
  th1 = th1
  Threads = {th1}
  StoredThreads = {th1}
  r1 = r1
  Responders = {r1}
  NoTurn = NoTurn
  NoThread = NoThread
  MaxItems = 0
  MaxInteractions = 1
INVARIANTS RequestsKept
PROPERTIES TurnsReturn
CHECK_DEADLOCK FALSE
