CONSTANTS
  Izenak <- MCIzenak
  Klabeak <- MCKlabeak
  Inor = "inor"
  HasierakoKontua <- MCHasierakoKontua
SPECIFICATION Spec
INVARIANTS TypeOK KontuakBikotetan FormaDator KontuakErregistroa
PROPERTY Kontuetakoa
