SPECIFICATION FairSpec
CONSTANTS
  k1 = k1
  k2 = k2
  NoToken = NoToken
  Senders = {s1}
  Conversations = {c1}
  Tokens = {k1, k2}
  Parts <- OneAndTwo
  QueueCap = 1
  MaxSends = 3
  MaxEvents = 1
  MaxTries = 2
  MaxLate = 1
  MaxFailures = 1
INVARIANTS TypeOK CardsFollowTokens RepeatsHaveCause
PROPERTIES RepliesStand SendsReturn EventsReachGateway
CHECK_DEADLOCK FALSE
