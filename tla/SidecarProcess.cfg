\* Each of the three sidecars under each of the two hosts, one start and one
\* stop, with crashes of either side and timeouts at any time.
SPECIFICATION FairSpec
CONSTANT Room = 2
INVARIANTS
  TypeOK
  CleanMeansDrained
PROPERTIES
  ContractHolds
  StartAndStopReturn
  NothingIsLeft
CHECK_DEADLOCK FALSE
