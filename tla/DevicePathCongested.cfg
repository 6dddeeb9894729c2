SPECIFICATION Spec
CONSTANTS
  m1 = m1
  m2 = m2
  Mirrors <- MCMirrors
  QueueMax = 2
  MaxLag = 2
  LineMax = 2
  PtyRoom = 1
  MaxTyped = 2
  MaxConns = 2
  MaxSpoken = 4
  MaxAsked = 2
  MaxWrites = 2
  Uses <- MCCongestedUses
CHECK_DEADLOCK FALSE
INVARIANT
  OneObjectPerLine
