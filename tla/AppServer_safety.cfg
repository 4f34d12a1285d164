SPECIFICATION Spec
CONSTANTS
  t1 = t1
  t2 = t2
  Turns = {t1, t2}
  th1 = th1
  th2 = th2
  Threads = {th1, th2}
  StoredThreads = {th1}
  r1 = r1
  Responders = {r1}
  NoTurn = NoTurn
  NoThread = NoThread
  MaxItems = 2
  MaxInteractions = 0
SYMMETRY Symmetry
INVARIANTS TypeOK HandleKept NoOverlap EventsAreOwn
PROPERTIES TurnContract
CHECK_DEADLOCK FALSE
