SPECIFICATION FairSpec
CONSTANTS
  a1 = a1
  Commands = {a1}
  MaxToken = 1
  KindsOf <- SingleKind
  q1 = q1
  q2 = q2
  Questions = {q1, q2}
  NoId = NoId
  TurnId = TurnId
  StoredId = NoId
PROPERTY RequestsGetAnswers
CHECK_DEADLOCK FALSE
