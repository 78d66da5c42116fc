\* The client goes away while Emit waits for room with the mutex in its hands.
SPECIFICATION FairSpec
CONSTANTS
  c1 = c1
  c2 = c2
  CallIds = {c1, c2}
  NoCall = NoCall
  Outcomes = {"approved"}
  RogueMessages <- MCNoRogues
  MaxMessages = 0
  Capacity = 1
  Batches <- MCBatches
  MaxRounds = 1
  MaxEvents = 2
PROPERTIES
  DropUnblocks
CHECK_DEADLOCK FALSE
