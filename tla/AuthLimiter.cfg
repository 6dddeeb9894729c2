SPECIFICATION Spec
CONSTANTS
  here = here
  there = there
  t1 = t1
  t2 = t2
  t3 = t3
  Addresses <- MCAddresses
  Attempts <- MCAttempts
  AddressOf <- MCAddressOf
  MaxFailures = 3
  Window = 1
  Ban = 2
  MaxTime = 4
INVARIANTS
  TypeOK
  NobodyIsOverlooked
  NoAttemptBeginsInABan
PROPERTIES
  BanIsEarned
  BanIsKept
