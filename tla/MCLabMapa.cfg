CONSTANTS
  GasBalioak = {500, 1500, 3000}
  MaxMapa = 2
SPECIFICATION FairSpec
INVARIANTS TypeOK MapaNullLeihoa
PROPERTIES AlarmaGogoratua AlarmaEtengabe
CHECK_DEADLOCK FALSE
