CONSTANTS
  AdcBalioak <- BalioBat
  KolaLuzera = 1
  PostontziLuzera = 1
SPECIFICATION FairSpec
PROPERTIES IrakurketenIrteera AlarmaPiztu GasLagintzen
