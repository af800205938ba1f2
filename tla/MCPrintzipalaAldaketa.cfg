CONSTANTS
  Izenak <- BiIzen
  Ipak <- BiIp
  Helbideak <- BiHelbide
  Osatu <- Osatuta
  Testuak <- Idatziak
  Testurik = Testurik
  Barruan <- Azpikateak
  HasierakoFitxategia <- LabBat
  MaxDeiak = 1
SPECIFICATION Spec
PROPERTY AldaketaDagokiona
