SPECIFICATION Spec
CONSTANTS
  r1 = r1
  r2 = r2
  Replicas <- Two
  Skew <- SecondIsAhead
  Burst = 2
  Waits = {1, 2}
  MaxWait = 2
  PruneAge = 4
  MaxDelay = 1
  MaxSkew = 1
  MaxTime = 6
  MaxDefers = 2
  NoRow = NoRow
  NoTime = NoTime
INVARIANTS TypeOK Paced
PROPERTIES HeldBack DroppedWhenFull
CHECK_DEADLOCK FALSE
