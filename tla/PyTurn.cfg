\* The Python sidecar against every host, well-behaved or not.
SPECIFICATION FairSpec
CONSTANTS
  c1 = c1
  c2 = c2
  CallIds = {c1, c2}
  NoCall = NoCall
  Outcomes = {"approved", "denied"}
  RogueMessages <- MCRogues
  MaxMessages = 2
  Batches <- MCBatches
  MaxCalls = 3
  MaxEvents = 2
INVARIANTS
  TypeOK
  GateHolds
  EndsWithTerminal
PROPERTIES
  ClosedIsFinal
  TurnHolds
  HostIsReleased
  DropUnblocks
CHECK_DEADLOCK FALSE
