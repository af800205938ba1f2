CONSTANTS
  Ezkerra = 0
  Eskuina = 9
  Goia = 0
  Behea = 8
  RADIO = 2
  Abiadura = 2
  MaxDtX = 1
  MaxDtY = 2
  HasieraX = 3
  HasieraY = 1
  MaxTimer = 3
SPECIFICATION FairSpec
INVARIANTS TypeOK HormenInguruan MugituJarraitzen
PROPERTIES TimerraAskatu
CHECK_DEADLOCK FALSE
