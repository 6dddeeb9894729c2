SPECIFICATION Spec
CONSTANTS
  Manager = Manager
  Stoppers = {s1, s2}
  Reasons = {absent, busy}
  NoReason = NoReason
  MaxAttempts = 3
INVARIANTS
  TypeOK
  EndAnnouncedOnce
  LinesWithinOneConnection
  
  HealthIsLastPublished
  WaitIsAnnounced
PROPERTIES
  StatusesFollowTheStream
  EndIsAnnounced
CHECK_DEADLOCK FALSE
