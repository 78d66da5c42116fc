\* The documented promise that a failing tool does not kill the turn.
SPECIFICATION Spec
CONSTANTS
  c1 = c1
  c2 = c2
  CallIds = {c1, c2}
  NoCall = NoCall
  Outcomes = {"approved"}
  RogueMessages <- MCNoRogues
  MaxMessages = 0
  Capacity = 2
  Batches <- MCBatches
  MaxRounds = 1
  MaxEvents = 1
PROPERTIES
  ToolFailureKeepsTurn
CHECK_DEADLOCK FALSE
