SPECIFICATION Spec
CONSTANTS
  w1 = w1
  w2 = w2
  login = login
  reboot = reboot
  Reader = Reader
  Timer = Timer
  Writers <- MCWriters
  Kinds = {"silence"}
  Contents <- MCContents
  Tells = Tells
  Limits <- EveryLimit
  Cooldown = 1
  Window = 1
  MaxPerMinute = 1
  Minute = 1
  Silence = 1
  EventRing = 1
  MaxTime = 2
  MaxRules = 2
  MaxAdds = 1
  MaxEvents = 2
CHECK_DEADLOCK FALSE
INVARIANT
  MarkedInThisSilence
