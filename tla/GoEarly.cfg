\* A well-behaved host whose answer arrives before the request is registered.
SPECIFICATION Spec
CONSTANTS
  c1 = c1
  c2 = c2
  CallIds = {c1, c2}
  NoCall = NoCall
  Outcomes = {"approved", "denied"}
  RogueMessages <- MCNoRogues
  MaxMessages = 0
  Capacity = 2
  Batches <- MCBatches
  MaxRounds = 1
  MaxEvents = 1
INVARIANTS
  EndsWithTerminal
CHECK_DEADLOCK FALSE
