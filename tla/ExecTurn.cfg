SPECIFICATION FairSpec
CONSTANTS
  p1 = p1
  p2 = p2
  Prompts = {p1, p2}
  Stored = Stored
  NoSession = NoSession
  PromptSize = 2
  PipeCap = 1
  MaxLines = 3
INVARIANTS TypeOK
PROPERTIES OneProcessUnlessRace TurnContract PromptsEnd GatewayExits ProcessesEnd
CHECK_DEADLOCK FALSE
