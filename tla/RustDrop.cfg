\* The documented promise that dropping the stream unblocks a waiting approval.
SPECIFICATION FairSpec
CONSTANTS
  c1 = c1
  c2 = c2
  CallIds = {c1, c2}
  NoCall = NoCall
  Outcomes = {"approved"}
  RogueMessages <- MCNoRogues
  MaxMessages = 0
  Capacity = 2
  Batches <- MCBatches
  MaxRounds = 1
  MaxEvents = 1
PROPERTIES
  DropUnblocks
CHECK_DEADLOCK FALSE
