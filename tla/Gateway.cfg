SPECIFICATION FairSpec
CONSTANTS
  m1 = m1
  m2 = m2
  m3 = m3
  Messages = {m1, m2, m3}
  c1 = c1
  Conversations = {c1}
  ConversationOf <- OneConversation
  Aliases = {0, 1, 2}
  i1 = i1
  i2 = i2
  i3 = i3
  i4 = i4
  Ids = {i1, i2, i3, i4}
  NoId = NoId
  NoTask = NoTask
  d1 = d1
  d2 = d2
  DefaultDir = d1
  Dirs = {d1, d2}
  NoMode = NoMode
  plan = plan
  Modes = {NoMode, plan}
  Restored <- RestoredDangling
INVARIANTS TypeOK UniqueSessions ActiveHasTurn CommandsKeptUnlessClobbered
PROPERTIES OverlapOnlyByRace SessionsKeptUnlessClobbered OnlyTurnsLast
CHECK_DEADLOCK FALSE
