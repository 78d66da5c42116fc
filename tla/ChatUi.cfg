\* Two prompts of the UI's session, stops, crashes and an exit at any time.
SPECIFICATION FairSpec
CONSTANTS
  Demo = demo
  Requests = {1, 2}
  Sessions = {demo}
  SessionOf <- MCSessionOf
  NoRequest = 0
  MaxText = 1
INVARIANTS
  NoCrossTalk
  SendingIsTrue
  ErrorIsCurrent
PROPERTIES
  EndReachesUi
  ExitCompletes
CHECK_DEADLOCK FALSE
