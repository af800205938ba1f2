CONSTANTS
  Muga = 2
  Ikusgai = 2
  MaxLerro = 3
SPECIFICATION Spec
INVARIANTS TypeOK HistoriaMuga GasaGordetzen
PROPERTIES GalduGabe
CHECK_DEADLOCK FALSE
