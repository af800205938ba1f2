CONSTANTS
  AdcBalioak <- ZeroBalio
  KolaLuzera = 1
  PostontziLuzera = 1
SPECIFICATION Spec
INVARIANT AlarmaMantendu
