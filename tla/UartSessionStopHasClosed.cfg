SPECIFICATION Spec
CONSTANTS
  Manager = Manager
  Stoppers = {s1, s2}
  Reasons = {absent, busy}
  NoReason = NoReason
  MaxAttempts = 3
INVARIANT
  StopHasClosed
CHECK_DEADLOCK FALSE
