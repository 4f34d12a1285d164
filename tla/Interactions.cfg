SPECIFICATION FairSpec
CONSTANTS
  a1 = a1
  a2 = a2
  Commands = {a1, a2}
  MaxToken = 2
  KindsOf <- MixedKinds
  q1 = q1
  q2 = q2
  Questions = {q1, q2}
  NoId = NoId
  TurnId = TurnId
  StoredId = TurnId
INVARIANTS TypeOK SavedAnswersKeptUnlessLost ItemNumbersStable
PROPERTY RequestsGetAnswers
CHECK_DEADLOCK FALSE
