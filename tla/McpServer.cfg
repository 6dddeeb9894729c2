SPECIFICATION Spec
CONSTANTS
  t1 = t1
  t2 = t2
  Callers <- MCCallers
  MaxWatches = 1
  Asks = TRUE
  QueueMax = 1
  States = {"connected", "waiting"}
  MaxConns = 2
  MaxRequests = 2
  MaxSaid = 2
  RingMax = 2
  EventsMax = 2
  Beats = 2
  MaxReplay = 1
  Uses <- MCUses
CHECK_DEADLOCK FALSE
INVARIANTS
  TypeOK
  NothingOutlivesItsClient
  AnswersAreOwn
  DecisionsAreTrue
  
  OnlyTheGapIsMissed
PROPERTIES
  
  LostLinkIsNoticed
