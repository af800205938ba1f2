CONSTANTS
  LabKop = 3
SPECIFICATION FairSpec
INVARIANTS TypeOK KanporaketaArrazoia LeihoaEntzuten
PROPERTIES HautaketaBete
CHECK_DEADLOCK FALSE
