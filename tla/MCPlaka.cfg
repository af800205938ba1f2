CONSTANTS
  AdcBalioak <- ZeroBalio
  KolaLuzera = 2
  PostontziLuzera = 1
SPECIFICATION Spec
INVARIANTS TypeOK IrakurketaBerria GorriaBatDator AlarmaLeda
PROPERTIES Telemetriakoa
