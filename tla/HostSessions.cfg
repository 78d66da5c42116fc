\* Three requests in two sessions, cancels, crashes and an exit at any time.
SPECIFICATION Spec
CONSTANTS
  s1 = s1
  s2 = s2
  Requests = {1, 2, 3}
  Sessions = {s1, s2}
  SessionOf <- MCSessionOf
  NoRequest = 0
  MaxText = 1
INVARIANTS
  TypeOK
  EntriesMatch
  OneSidecar
  EndsOnce
CHECK_DEADLOCK FALSE
