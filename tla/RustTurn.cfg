\* The Rust sidecar against every host, well-behaved or not.
SPECIFICATION FairSpec
CONSTANTS
  c1 = c1
  c2 = c2
  CallIds = {c1, c2}
  NoCall = NoCall
  Outcomes = {"approved", "denied"}
  RogueMessages <- MCRogues
  MaxMessages = 2
  Capacity = 1
  Batches <- MCBatches
  MaxRounds = 2
  MaxEvents = 2
INVARIANTS
  TypeOK
  GateHolds
  DecisionsMatch
  EndsWithTerminal
PROPERTIES
  TurnHolds
  HostIsReleased
CHECK_DEADLOCK FALSE
