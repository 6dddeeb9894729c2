CONSTANTS
  Procs <- MCProcs
  Bases = {"a", "b"}
  Ports = {"x", "y"}
  Uses <- MCUses
  RotateAt = 2
  KeepParts = 2
  MaxAge = 1
  MaxTotal = 3
  MaxChunks = 6
  MaxTyped = 1
SPECIFICATION Spec
INVARIANTS
  TypeOK
  SessionsAreFound
  RecordingIsWhole
CHECK_DEADLOCK FALSE
