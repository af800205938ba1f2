--------------------------- MODULE LabMapaProofs ---------------------------
(***************************************************************************)
(* Proofs about LabMapa, for every set of gas values and every number of   *)
(* maps: the types, that a message meets a null map only while the first   *)
(* one is being built, and the one way in which piztuta can come to claim  *)
(* an alarm that is off.  The invariant adds what the two threads rely on: *)
(* there is room for the maps on their way, the maps not yet made are      *)
(* untouched, and a map that is shown or worked on has been made.          *)
(***************************************************************************)
EXTENDS LabMapa, TLAPS

\* Maps that are on their way: a click's, and the callback thread's if it builds one
\* or is about to find that the operator has chosen the map.
EdtBidean == IF pc["edt"] \in {"garbituMapa", "mostrarMapa"} THEN 1 ELSE 0
CallbackBidean ==
  IF \/ pc["callback"] \in {"garbituMapa", "mostrarMapa"}
     \/ pc["callback"] = "pantallaAldatu" /\ ~grafikaPanelean
    THEN 1 ELSE 0
Tokia == uneko + EdtBidean + CallbackBidean <= MaxMapa
Berriak == \A i \in Mapak : i > uneko => mapa[i] = MapaBerria
Lanean == {"erakutsi", "startFondoAldaketa", "timerStart",
           "fondoa", "stopFondoAldaketa", "timerNull"}
Eginak == /\ ikusgai \subseteq 1..uneko
          /\ \A h \in Hariak : /\ pc[h] = "itzuli" => uneko # 0
                               /\ pc[h] \in Lanean => lantzen[h] \in 1..uneko

IInv == TypeOK /\ Tokia /\ Berriak /\ Eginak
-----------------------------------------------------------------------------
(* The fields of one map. *)

LEMMA EremuaAldatu ==
  ASSUME NEW m \in MapaMota, NEW b \in GasBalioak \cup {0},
         NEW t \in {"null", "berria", "martxan"}, NEW o \in BOOLEAN
  PROVE  /\ [m EXCEPT !.balioGasa = b] \in MapaMota
         /\ [m EXCEPT !.piztuta = o] \in MapaMota
         /\ [m EXCEPT !.timer = t] \in MapaMota
         /\ [m EXCEPT !.timer = "null", !.umezurtz = @ \/ m.timer = "martxan"] \in MapaMota
  BY DEF MapaMota

LEMMA MapaAldatu ==
  ASSUME mapa \in [Mapak -> MapaMota], NEW e \in Mapak, NEW r \in MapaMota,
         mapa' = [mapa EXCEPT ![e] = r]
  PROVE  mapa' \in [Mapak -> MapaMota]
  OBVIOUS

\* A thread's move: its place and its map are set, the other thread's stay.
Tokiak == Lekuak \cup CallbackLekuak \cup EdtLekuak
LEMMA JoanMota ==
  ASSUME TypeOK, NEW h \in Hariak, NEW nondik, NEW nora, NEW m, Joan(h, nondik, nora, m)
  PROVE  /\ pc[h] = nondik /\ pc'[h] = nora /\ lantzen'[h] = m /\ Bizirik
         /\ \A g \in Hariak \ {h} : pc'[g] = pc[g] /\ lantzen'[g] = lantzen[g]
         /\ nora \in Tokiak => pc' \in [Hariak -> Tokiak]
         /\ m \in 0..MaxMapa => lantzen' \in [Hariak -> 0..MaxMapa]
  BY DEF Joan, TypeOK, Tokiak

\* What publishing a command may do to the broker and to the process.
LEMMA ArgitaratuMota ==
  ASSUME TypeOK, NEW agindua \in {"0", "1"}, ArgitaratuOndo(agindua) \/ ArgitaratuHuts(agindua)
  PROVE  /\ alarma' \in {"ezer", "0", "1"} /\ zintzilik' \in BOOLEAN
         /\ irteera' \in {"ez", "NullPointerException", "connectionLost"}
<1>1. CASE ArgitaratuOndo(agindua)
  BY <1>1 DEF ArgitaratuOndo, TypeOK
<1>2. CASE ArgitaratuHuts(agindua)
  BY <1>2 DEF ArgitaratuHuts, mqttVars, TypeOK
<1> QED
  BY <1>1, <1>2
-----------------------------------------------------------------------------
LEMMA Hasiera == Init => IInv
<1> SUFFICES ASSUME Init PROVE IInv
  OBVIOUS
<1>1. MapaBerria \in MapaMota
  BY DEF MapaBerria, MapaMota
<1>2. TypeOK
  <2>1. mapa \in [Mapak -> MapaMota]
    BY <1>1 DEF Init
  <2>2. uneko \in 0..MaxMapa /\ 0 \in 0..MaxMapa
    BY MapaMugak DEF Init
  <2>3. pc \in [Hariak -> Lekuak \cup CallbackLekuak \cup EdtLekuak]
    BY DEF Init, Lekuak
  <2>4. lantzen \in [Hariak -> 0..MaxMapa]
    BY <2>2 DEF Init
  <2> QED
    BY <2>1, <2>2, <2>3, <2>4 DEF Init, TypeOK
<1>3. Tokia /\ Berriak /\ Eginak
  BY MapaMugak DEF Init, Tokia, EdtBidean, CallbackBidean, Berriak, Eginak, Mapak, Hariak, Lanean
<1> QED
  BY <1>2, <1>3 DEF IInv

LEMMA GasaIritsiPausoa ==
  ASSUME IInv, NEW b \in GasBalioak, GasaIritsi(b)
  PROVE  IInv'
<1> USE MapaMugak DEF IInv
<1>1. mapa' \in [Mapak -> MapaMota]
  BY DEF GasaIritsi, panelVars, mqttVars, TypeOK
<1>2. TypeOK'
  BY <1>1 DEF GasaIritsi, Joan, panelVars, mqttVars, Bizirik, TypeOK, Hariak,
     Lekuak, CallbackLekuak, EdtLekuak, Mapak, Tokia, EdtBidean, CallbackBidean,
     Eginak, Lanean, Garbiketa
<1>3. Tokia'
  BY DEF GasaIritsi, Joan, panelVars, mqttVars, Bizirik, TypeOK, Hariak, Tokia,
     EdtBidean, CallbackBidean, Garbiketa, CallbackarenMapa
<1>4. Berriak'
  BY DEF GasaIritsi, Joan, panelVars, mqttVars, Bizirik, TypeOK, Berriak,
     Eginak, Lanean, Hariak, Mapak
<1>5. Eginak'
  BY DEF GasaIritsi, Joan, panelVars, mqttVars, Bizirik, TypeOK, Berriak,
     MapaBerria, Eginak, Lanean, Hariak, Mapak, Garbiketa
<1> QED
  BY <1>2, <1>3, <1>4, <1>5

LEMMA CallbackPantallaAldatuPausoa ==
  ASSUME IInv, CallbackPantallaAldatu
  PROVE  IInv'
<1> USE MapaMugak DEF IInv
<1>1. mapa' \in [Mapak -> MapaMota]
  BY DEF CallbackPantallaAldatu, panelVars, mqttVars, TypeOK
<1>2. TypeOK'
  BY <1>1 DEF CallbackPantallaAldatu, Joan, panelVars, mqttVars, Bizirik,
     TypeOK, Hariak, Lekuak, CallbackLekuak, EdtLekuak, Mapak, Tokia, EdtBidean,
     CallbackBidean, Eginak, Lanean, Garbiketa
<1>3. Tokia'
  BY DEF CallbackPantallaAldatu, Joan, panelVars, mqttVars, Bizirik, TypeOK,
     Hariak, Tokia, EdtBidean, CallbackBidean, Garbiketa, CallbackarenMapa
<1>4. Berriak'
  BY DEF CallbackPantallaAldatu, Joan, panelVars, mqttVars, Bizirik, TypeOK,
     Berriak, Eginak, Lanean, Hariak, Mapak
<1>5. Eginak'
  BY DEF CallbackPantallaAldatu, Joan, panelVars, mqttVars, Bizirik, TypeOK,
     Berriak, MapaBerria, Eginak, Lanean, Hariak, Mapak, Garbiketa
<1> QED
  BY <1>2, <1>3, <1>4, <1>5

LEMMA GrafikakErakutsiPausoa ==
  ASSUME IInv, NEW h \in Hariak, GrafikakErakutsi(h)
  PROVE  IInv'
<1> USE MapaMugak DEF IInv
<1>1. mapa' \in [Mapak -> MapaMota]
  BY DEF GrafikakErakutsi, panelVars, mqttVars, TypeOK
<1>2. TypeOK'
  BY <1>1 DEF GrafikakErakutsi, Joan, panelVars, mqttVars, Bizirik, TypeOK,
     Hariak, Lekuak, CallbackLekuak, EdtLekuak, Mapak, Tokia, EdtBidean,
     CallbackBidean, Eginak, Lanean, Garbiketa
<1>3. Tokia'
  BY DEF GrafikakErakutsi, Joan, panelVars, mqttVars, Bizirik, TypeOK, Hariak,
     Tokia, EdtBidean, CallbackBidean, Garbiketa, CallbackarenMapa
<1>4. Berriak'
  BY DEF GrafikakErakutsi, Joan, panelVars, mqttVars, Bizirik, TypeOK, Berriak,
     Eginak, Lanean, Hariak, Mapak
<1>5. Eginak'
  BY DEF GrafikakErakutsi, Joan, panelVars, mqttVars, Bizirik, TypeOK, Berriak,
     MapaBerria, Eginak, Lanean, Hariak, Mapak, Garbiketa
<1> QED
  BY <1>2, <1>3, <1>4, <1>5

LEMMA PanelaGarbituPausoa ==
  ASSUME IInv, NEW h \in Hariak, PanelaGarbitu(h)
  PROVE  IInv'
<1> USE MapaMugak DEF IInv
<1>1. mapa' \in [Mapak -> MapaMota]
  BY DEF PanelaGarbitu, panelVars, mqttVars, TypeOK
<1>2. TypeOK'
  BY <1>1 DEF PanelaGarbitu, Joan, panelVars, mqttVars, Bizirik, TypeOK, Hariak,
     Lekuak, CallbackLekuak, EdtLekuak, Mapak, Tokia, EdtBidean, CallbackBidean,
     Eginak, Lanean, Garbiketa
<1>3. Tokia'
  BY DEF PanelaGarbitu, Joan, panelVars, mqttVars, Bizirik, TypeOK, Hariak,
     Tokia, EdtBidean, CallbackBidean, Garbiketa, CallbackarenMapa
<1>4. Berriak'
  BY DEF PanelaGarbitu, Joan, panelVars, mqttVars, Bizirik, TypeOK, Berriak,
     Eginak, Lanean, Hariak, Mapak
<1>5. Eginak'
  BY DEF PanelaGarbitu, Joan, panelVars, mqttVars, Bizirik, TypeOK, Berriak,
     MapaBerria, Eginak, Lanean, Hariak, Mapak, Garbiketa
<1> QED
  BY <1>2, <1>3, <1>4, <1>5

LEMMA MostrarMapaPausoa ==
  ASSUME IInv, NEW h \in Hariak, mostrarMapa(h)
  PROVE  IInv'
<1> USE MapaMugak DEF IInv
<1>1. mapa' \in [Mapak -> MapaMota]
  BY DEF mostrarMapa, panelVars, mqttVars, TypeOK
<1>2. TypeOK'
  BY <1>1 DEF mostrarMapa, Joan, panelVars, mqttVars, Bizirik, TypeOK, Hariak,
     Lekuak, CallbackLekuak, EdtLekuak, Mapak, Tokia, EdtBidean, CallbackBidean,
     Eginak, Lanean, Garbiketa
<1>3. Tokia'
  BY DEF mostrarMapa, Joan, panelVars, mqttVars, Bizirik, TypeOK, Hariak, Tokia,
     EdtBidean, CallbackBidean, Garbiketa, CallbackarenMapa
<1>4. Berriak'
  BY DEF mostrarMapa, Joan, panelVars, mqttVars, Bizirik, TypeOK, Berriak,
     Eginak, Lanean, Hariak, Mapak
<1>5. Eginak'
  BY DEF mostrarMapa, Joan, panelVars, mqttVars, Bizirik, TypeOK, Berriak,
     MapaBerria, Eginak, Lanean, Hariak, Mapak, Garbiketa
<1> QED
  BY <1>2, <1>3, <1>4, <1>5

LEMMA MapaItzuliPausoa ==
  ASSUME IInv, NEW h \in Hariak, MapaItzuli(h)
  PROVE  IInv'
<1> USE MapaMugak DEF IInv
<1>1. mapa' \in [Mapak -> MapaMota]
  BY DEF MapaItzuli, panelVars, mqttVars, TypeOK
<1>2. TypeOK'
  BY <1>1 DEF MapaItzuli, Joan, panelVars, mqttVars, Bizirik, TypeOK, Hariak,
     Lekuak, CallbackLekuak, EdtLekuak, Mapak, Tokia, EdtBidean, CallbackBidean,
     Eginak, Lanean, Garbiketa
<1>3. Tokia'
  BY DEF MapaItzuli, Joan, panelVars, mqttVars, Bizirik, TypeOK, Hariak, Tokia,
     EdtBidean, CallbackBidean, Garbiketa, CallbackarenMapa
<1>4. Berriak'
  BY DEF MapaItzuli, Joan, panelVars, mqttVars, Bizirik, TypeOK, Berriak,
     Eginak, Lanean, Hariak, Mapak
<1>5. Eginak'
  BY DEF MapaItzuli, Joan, panelVars, mqttVars, Bizirik, TypeOK, Berriak,
     MapaBerria, Eginak, Lanean, Hariak, Mapak, Garbiketa
<1> QED
  BY <1>2, <1>3, <1>4, <1>5

LEMMA MapaErakutsiPausoa ==
  ASSUME IInv, NEW h \in Hariak, MapaErakutsi(h)
  PROVE  IInv'
<1> USE MapaMugak DEF IInv
<1>1. mapa' \in [Mapak -> MapaMota]
  BY DEF MapaErakutsi, panelVars, mqttVars, TypeOK
<1>2. TypeOK'
  <2>1. Joan(h, "erakutsi", "lo", 0)
    BY DEF MapaErakutsi
  <2>2. pc' \in [Hariak -> Tokiak] /\ lantzen' \in [Hariak -> 0..MaxMapa]
    BY <2>1, JoanMota DEF Tokiak, Lekuak
  <2>3. lantzen[h] \in 1..uneko /\ uneko \in 0..MaxMapa
    BY <2>1 DEF Joan, TypeOK, Eginak, Lanean
  <2>4. ikusgai' \subseteq Mapak
    <3>1. lantzen[h] \in Mapak /\ ikusgai \subseteq Mapak
      BY <2>3 DEF TypeOK, Mapak
    <3> QED
      BY <3>1 DEF MapaErakutsi
  <2> QED
    BY <1>1, <2>2, <2>4 DEF MapaErakutsi, mqttVars, TypeOK, Tokiak
<1>3. Tokia'
  BY DEF MapaErakutsi, Joan, panelVars, mqttVars, Bizirik, TypeOK, Hariak,
     Tokia, EdtBidean, CallbackBidean, Garbiketa, CallbackarenMapa
<1>4. Berriak'
  BY DEF MapaErakutsi, Joan, panelVars, mqttVars, Bizirik, TypeOK, Berriak,
     Eginak, Lanean, Hariak, Mapak
<1>5. Eginak'
  BY DEF MapaErakutsi, Joan, panelVars, mqttVars, Bizirik, TypeOK, Berriak,
     MapaBerria, Eginak, Lanean, Hariak, Mapak, Garbiketa
<1> QED
  BY <1>2, <1>3, <1>4, <1>5

LEMMA SetBalioGasaPausoa ==
  ASSUME IInv, SetBalioGasa
  PROVE  IInv'
<1> USE MapaMugak DEF IInv
<1>1. mapa' \in [Mapak -> MapaMota]
  <2>1. CASE uneko # 0
    <3>1. uneko \in Mapak /\ mapa[uneko] \in MapaMota
      BY <2>1 DEF SetBalioGasa, Joan, TypeOK, Eginak, Lanean, Hariak, Mapak
    <3>2. mapa' = [mapa EXCEPT ![uneko] = [mapa[uneko] EXCEPT !.balioGasa = azkenGasa]]
      BY <2>1, <3>1 DEF SetBalioGasa, TypeOK
    <3> QED
      BY <3>1, <3>2, EremuaAldatu, MapaAldatu DEF TypeOK
  <2> QED
    BY <2>1 DEF SetBalioGasa, TypeOK
<1>2. TypeOK'
  BY <1>1 DEF SetBalioGasa, Joan, panelVars, mqttVars, Bizirik, TypeOK, Hariak,
     Lekuak, CallbackLekuak, EdtLekuak, Mapak, Tokia, EdtBidean, CallbackBidean,
     Eginak, Lanean, Garbiketa
<1>3. Tokia'
  BY DEF SetBalioGasa, Joan, panelVars, mqttVars, Bizirik, TypeOK, Hariak,
     Tokia, EdtBidean, CallbackBidean, Garbiketa, CallbackarenMapa
<1>4. Berriak'
  BY DEF SetBalioGasa, Joan, panelVars, mqttVars, Bizirik, TypeOK, Berriak,
     Eginak, Lanean, Hariak, Mapak
<1>5. Eginak'
  BY DEF SetBalioGasa, Joan, panelVars, mqttVars, Bizirik, TypeOK, Berriak,
     MapaBerria, Eginak, Lanean, Hariak, Mapak, Garbiketa
<1> QED
  BY <1>2, <1>3, <1>4, <1>5

LEMMA TimerSortuPausoa ==
  ASSUME IInv, TimerSortu
  PROVE  IInv'
<1> USE MapaMugak DEF IInv
<1>1. mapa' \in [Mapak -> MapaMota]
  <2>1. CASE mapa[lantzen["callback"]].timer = "null"
    <3>1. lantzen["callback"] \in Mapak /\ mapa[lantzen["callback"]] \in MapaMota
      BY <2>1 DEF TimerSortu, Joan, TypeOK, Eginak, Lanean, Hariak, Mapak
    <3>2. mapa' = [mapa EXCEPT ![lantzen["callback"]] = [mapa[lantzen["callback"]] EXCEPT !.timer = "berria"]]
      BY <2>1, <3>1 DEF TimerSortu, TypeOK
    <3> QED
      BY <3>1, <3>2, EremuaAldatu, MapaAldatu DEF TypeOK
  <2> QED
    BY <2>1 DEF TimerSortu, TypeOK
<1>2. TypeOK'
  BY <1>1 DEF TimerSortu, Joan, panelVars, mqttVars, Bizirik, TypeOK, Hariak,
     Lekuak, CallbackLekuak, EdtLekuak, Mapak, Tokia, EdtBidean, CallbackBidean,
     Eginak, Lanean, Garbiketa
<1>3. Tokia'
  BY DEF TimerSortu, Joan, panelVars, mqttVars, Bizirik, TypeOK, Hariak, Tokia,
     EdtBidean, CallbackBidean, Garbiketa, CallbackarenMapa
<1>4. Berriak'
  BY DEF TimerSortu, Joan, panelVars, mqttVars, Bizirik, TypeOK, Berriak,
     Eginak, Lanean, Hariak, Mapak
<1>5. Eginak'
  BY DEF TimerSortu, Joan, panelVars, mqttVars, Bizirik, TypeOK, Berriak,
     MapaBerria, Eginak, Lanean, Hariak, Mapak, Garbiketa
<1> QED
  BY <1>2, <1>3, <1>4, <1>5

LEMMA TimerAbiatuPausoa ==
  ASSUME IInv, TimerAbiatu
  PROVE  IInv'
<1> USE MapaMugak DEF IInv
<1>1. mapa' \in [Mapak -> MapaMota]
  <2>1. CASE mapa[lantzen["callback"]].timer # "null"
    <3>1. lantzen["callback"] \in Mapak /\ mapa[lantzen["callback"]] \in MapaMota
      BY <2>1 DEF TimerAbiatu, Joan, TypeOK, Eginak, Lanean, Hariak, Mapak
    <3>2. mapa' = [mapa EXCEPT ![lantzen["callback"]] = [mapa[lantzen["callback"]] EXCEPT !.timer = "martxan"]]
      BY <2>1, <3>1 DEF TimerAbiatu, TypeOK
    <3> QED
      BY <3>1, <3>2, EremuaAldatu, MapaAldatu DEF TypeOK
  <2> QED
    BY <2>1 DEF TimerAbiatu, TypeOK
<1>2. TypeOK'
  BY <1>1 DEF TimerAbiatu, Joan, panelVars, mqttVars, Bizirik, TypeOK, Hariak,
     Lekuak, CallbackLekuak, EdtLekuak, Mapak, Tokia, EdtBidean, CallbackBidean,
     Eginak, Lanean, Garbiketa
<1>3. Tokia'
  BY DEF TimerAbiatu, Joan, panelVars, mqttVars, Bizirik, TypeOK, Hariak, Tokia,
     EdtBidean, CallbackBidean, Garbiketa, CallbackarenMapa
<1>4. Berriak'
  BY DEF TimerAbiatu, Joan, panelVars, mqttVars, Bizirik, TypeOK, Berriak,
     Eginak, Lanean, Hariak, Mapak
<1>5. Eginak'
  BY DEF TimerAbiatu, Joan, panelVars, mqttVars, Bizirik, TypeOK, Berriak,
     MapaBerria, Eginak, Lanean, Hariak, Mapak, Garbiketa
<1> QED
  BY <1>2, <1>3, <1>4, <1>5

LEMMA MapaSakatuPausoa ==
  ASSUME IInv, MapaSakatu
  PROVE  IInv'
<1> USE MapaMugak DEF IInv
<1>1. mapa' \in [Mapak -> MapaMota]
  BY DEF MapaSakatu, panelVars, mqttVars, TypeOK
<1>2. TypeOK'
  <2>1. Joan("edt", "lo", "garbituMapa", 0)
    BY DEF MapaSakatu, Garbiketa
  <2>2. pc' \in [Hariak -> Tokiak] /\ lantzen' \in [Hariak -> 0..MaxMapa]
    BY <2>1, JoanMota DEF Tokiak, Lekuak, Hariak
  <2> QED
    BY <1>1, <2>2 DEF MapaSakatu, mqttVars, TypeOK, Tokiak
<1>3. Tokia'
  BY DEF MapaSakatu, Joan, panelVars, mqttVars, Bizirik, TypeOK, Hariak, Tokia,
     EdtBidean, CallbackBidean, Garbiketa, CallbackarenMapa
<1>4. Berriak'
  BY DEF MapaSakatu, Joan, panelVars, mqttVars, Bizirik, TypeOK, Berriak,
     Eginak, Lanean, Hariak, Mapak
<1>5. Eginak'
  BY DEF MapaSakatu, Joan, panelVars, mqttVars, Bizirik, TypeOK, Berriak,
     MapaBerria, Eginak, Lanean, Hariak, Mapak, Garbiketa
<1> QED
  BY <1>2, <1>3, <1>4, <1>5

LEMMA GrafikakSakatuPausoa ==
  ASSUME IInv, GrafikakSakatu
  PROVE  IInv'
<1> USE MapaMugak DEF IInv
<1>1. mapa' \in [Mapak -> MapaMota]
  BY DEF GrafikakSakatu, panelVars, mqttVars, TypeOK
<1>2. TypeOK'
  BY <1>1 DEF GrafikakSakatu, Joan, panelVars, mqttVars, Bizirik, TypeOK,
     Hariak, Lekuak, CallbackLekuak, EdtLekuak, Mapak, Tokia, EdtBidean,
     CallbackBidean, Eginak, Lanean, Garbiketa
<1>3. Tokia'
  BY DEF GrafikakSakatu, Joan, panelVars, mqttVars, Bizirik, TypeOK, Hariak,
     Tokia, EdtBidean, CallbackBidean, Garbiketa, CallbackarenMapa
<1>4. Berriak'
  BY DEF GrafikakSakatu, Joan, panelVars, mqttVars, Bizirik, TypeOK, Berriak,
     Eginak, Lanean, Hariak, Mapak
<1>5. Eginak'
  BY DEF GrafikakSakatu, Joan, panelVars, mqttVars, Bizirik, TypeOK, Berriak,
     MapaBerria, Eginak, Lanean, Hariak, Mapak, Garbiketa
<1> QED
  BY <1>2, <1>3, <1>4, <1>5

LEMMA AlarmaOnPausoa ==
  ASSUME IInv, NEW m \in Mapak, AlarmaOn(m)
  PROVE  IInv'
<1> USE MapaMugak DEF IInv
<1>1. mapa' \in [Mapak -> MapaMota]
  BY DEF AlarmaOn, ArgitaratuOndo, ArgitaratuHuts, panelVars, mqttVars, TypeOK
<1>2. TypeOK'
  <2>1. Joan("edt", "lo", "fondoa", m) /\ (ArgitaratuOndo("1") \/ ArgitaratuHuts("1"))
    BY DEF AlarmaOn
  <2>2. pc' \in [Hariak -> Tokiak] /\ lantzen' \in [Hariak -> 0..MaxMapa]
    BY <2>1, JoanMota DEF Tokiak, Lekuak, EdtLekuak, Hariak, Mapak
  <2> QED
    BY <1>1, <2>1, <2>2, ArgitaratuMota DEF AlarmaOn, panelVars, TypeOK, Tokiak
<1>3. Tokia'
  BY DEF AlarmaOn, ArgitaratuOndo, ArgitaratuHuts, Joan, panelVars, mqttVars,
     Bizirik, TypeOK, Hariak, Tokia, EdtBidean, CallbackBidean, Garbiketa,
     CallbackarenMapa
<1>4. Berriak'
  BY DEF AlarmaOn, ArgitaratuOndo, ArgitaratuHuts, Joan, panelVars, mqttVars,
     Bizirik, TypeOK, Berriak, Eginak, Lanean, Hariak, Mapak
<1>5. Eginak'
  BY DEF AlarmaOn, ArgitaratuOndo, ArgitaratuHuts, Joan, panelVars, mqttVars,
     Bizirik, TypeOK, Berriak, MapaBerria, Eginak, Lanean, Hariak, Mapak,
     Garbiketa
<1> QED
  BY <1>2, <1>3, <1>4, <1>5

LEMMA AlarmaOffPausoa ==
  ASSUME IInv, NEW m \in Mapak, AlarmaOff(m)
  PROVE  IInv'
<1> USE MapaMugak DEF IInv
<1>1. mapa' \in [Mapak -> MapaMota]
  <2>1. m \in Mapak /\ mapa[m] \in MapaMota
    BY DEF AlarmaOff, Joan, TypeOK, Eginak, Lanean, Hariak, Mapak
  <2>2. mapa' = [mapa EXCEPT ![m] = [mapa[m] EXCEPT !.piztuta = FALSE]]
    BY <2>1 DEF AlarmaOff, TypeOK
  <2> QED
    BY <2>1, <2>2, EremuaAldatu, MapaAldatu DEF TypeOK
<1>2. TypeOK'
  <2>1. Joan("edt", "lo", "fondoa", m) /\ (ArgitaratuOndo("0") \/ ArgitaratuHuts("0"))
    BY DEF AlarmaOff
  <2>2. pc' \in [Hariak -> Tokiak] /\ lantzen' \in [Hariak -> 0..MaxMapa]
    BY <2>1, JoanMota DEF Tokiak, Lekuak, EdtLekuak, Hariak, Mapak
  <2> QED
    BY <1>1, <2>1, <2>2, ArgitaratuMota DEF AlarmaOff, panelVars, TypeOK, Tokiak
<1>3. Tokia'
  BY DEF AlarmaOff, ArgitaratuOndo, ArgitaratuHuts, Joan, panelVars, mqttVars,
     Bizirik, TypeOK, Hariak, Tokia, EdtBidean, CallbackBidean, Garbiketa,
     CallbackarenMapa
<1>4. Berriak'
  BY DEF AlarmaOff, ArgitaratuOndo, ArgitaratuHuts, Joan, panelVars, mqttVars,
     Bizirik, TypeOK, Berriak, Eginak, Lanean, Hariak, Mapak
<1>5. Eginak'
  BY DEF AlarmaOff, ArgitaratuOndo, ArgitaratuHuts, Joan, panelVars, mqttVars,
     Bizirik, TypeOK, Berriak, MapaBerria, Eginak, Lanean, Hariak, Mapak,
     Garbiketa
<1> QED
  BY <1>2, <1>3, <1>4, <1>5

LEMMA TimerTickPausoa ==
  ASSUME IInv, NEW m \in Mapak, TimerTick(m)
  PROVE  IInv'
<1> USE MapaMugak DEF IInv
<1>1. mapa' \in [Mapak -> MapaMota]
  BY DEF TimerTick, MapaBerria, panelVars, mqttVars, TypeOK
<1>2. TypeOK'
  BY <1>1 DEF TimerTick, MapaBerria, Joan, panelVars, mqttVars, Bizirik, TypeOK,
     Hariak, Lekuak, CallbackLekuak, EdtLekuak, Mapak, Tokia, EdtBidean,
     CallbackBidean, Eginak, Lanean, Garbiketa
<1>3. Tokia'
  BY DEF TimerTick, MapaBerria, Joan, panelVars, mqttVars, Bizirik, TypeOK,
     Hariak, Tokia, EdtBidean, CallbackBidean, Garbiketa, CallbackarenMapa
<1>4. Berriak'
  BY DEF TimerTick, MapaBerria, Joan, panelVars, mqttVars, Bizirik, TypeOK,
     Berriak, Eginak, Lanean, Hariak, Mapak
<1>5. Eginak'
  BY DEF TimerTick, MapaBerria, Joan, panelVars, mqttVars, Bizirik, TypeOK,
     Berriak, MapaBerria, Eginak, Lanean, Hariak, Mapak, Garbiketa
<1> QED
  BY <1>2, <1>3, <1>4, <1>5

LEMMA FondoaZurituPausoa ==
  ASSUME IInv, FondoaZuritu
  PROVE  IInv'
<1> USE MapaMugak DEF IInv
<1>1. mapa' \in [Mapak -> MapaMota]
  BY DEF FondoaZuritu, panelVars, mqttVars, TypeOK
<1>2. TypeOK'
  BY <1>1 DEF FondoaZuritu, Joan, panelVars, mqttVars, Bizirik, TypeOK, Hariak,
     Lekuak, CallbackLekuak, EdtLekuak, Mapak, Tokia, EdtBidean, CallbackBidean,
     Eginak, Lanean, Garbiketa
<1>3. Tokia'
  BY DEF FondoaZuritu, Joan, panelVars, mqttVars, Bizirik, TypeOK, Hariak,
     Tokia, EdtBidean, CallbackBidean, Garbiketa, CallbackarenMapa
<1>4. Berriak'
  BY DEF FondoaZuritu, Joan, panelVars, mqttVars, Bizirik, TypeOK, Berriak,
     Eginak, Lanean, Hariak, Mapak
<1>5. Eginak'
  BY DEF FondoaZuritu, Joan, panelVars, mqttVars, Bizirik, TypeOK, Berriak,
     MapaBerria, Eginak, Lanean, Hariak, Mapak, Garbiketa
<1> QED
  BY <1>2, <1>3, <1>4, <1>5

LEMMA TimerGeldituPausoa ==
  ASSUME IInv, TimerGelditu
  PROVE  IInv'
<1> USE MapaMugak DEF IInv
<1>1. mapa' \in [Mapak -> MapaMota]
  <2>1. CASE mapa[lantzen["edt"]].timer # "null"
    <3>1. lantzen["edt"] \in Mapak /\ mapa[lantzen["edt"]] \in MapaMota
      BY <2>1 DEF TimerGelditu, Joan, TypeOK, Eginak, Lanean, Hariak, Mapak
    <3>2. mapa' = [mapa EXCEPT ![lantzen["edt"]] = [mapa[lantzen["edt"]] EXCEPT !.timer = "berria"]]
      BY <2>1, <3>1 DEF TimerGelditu, TypeOK
    <3> QED
      BY <3>1, <3>2, EremuaAldatu, MapaAldatu DEF TypeOK
  <2> QED
    BY <2>1 DEF TimerGelditu, TypeOK
<1>2. TypeOK'
  BY <1>1 DEF TimerGelditu, Joan, panelVars, mqttVars, Bizirik, TypeOK, Hariak,
     Lekuak, CallbackLekuak, EdtLekuak, Mapak, Tokia, EdtBidean, CallbackBidean,
     Eginak, Lanean, Garbiketa
<1>3. Tokia'
  BY DEF TimerGelditu, Joan, panelVars, mqttVars, Bizirik, TypeOK, Hariak,
     Tokia, EdtBidean, CallbackBidean, Garbiketa, CallbackarenMapa
<1>4. Berriak'
  BY DEF TimerGelditu, Joan, panelVars, mqttVars, Bizirik, TypeOK, Berriak,
     Eginak, Lanean, Hariak, Mapak
<1>5. Eginak'
  BY DEF TimerGelditu, Joan, panelVars, mqttVars, Bizirik, TypeOK, Berriak,
     MapaBerria, Eginak, Lanean, Hariak, Mapak, Garbiketa
<1> QED
  BY <1>2, <1>3, <1>4, <1>5

LEMMA TimerNullPausoa ==
  ASSUME IInv, TimerNull
  PROVE  IInv'
<1> USE MapaMugak DEF IInv
<1>1. mapa' \in [Mapak -> MapaMota]
  <2>1. lantzen["edt"] \in Mapak /\ mapa[lantzen["edt"]] \in MapaMota
    BY DEF TimerNull, Joan, TypeOK, Eginak, Lanean, Hariak, Mapak
  <2>2. mapa' = [mapa EXCEPT ![lantzen["edt"]] = [mapa[lantzen["edt"]] EXCEPT !.timer = "null", !.umezurtz = @ \/ mapa[lantzen["edt"]].timer = "martxan"]]
    BY <2>1 DEF TimerNull, TypeOK
  <2> QED
    BY <2>1, <2>2, EremuaAldatu, MapaAldatu DEF TypeOK
<1>2. TypeOK'
  BY <1>1 DEF TimerNull, Joan, panelVars, mqttVars, Bizirik, TypeOK, Hariak,
     Lekuak, CallbackLekuak, EdtLekuak, Mapak, Tokia, EdtBidean, CallbackBidean,
     Eginak, Lanean, Garbiketa
<1>3. Tokia'
  BY DEF TimerNull, Joan, panelVars, mqttVars, Bizirik, TypeOK, Hariak, Tokia,
     EdtBidean, CallbackBidean, Garbiketa, CallbackarenMapa
<1>4. Berriak'
  BY DEF TimerNull, Joan, panelVars, mqttVars, Bizirik, TypeOK, Berriak, Eginak,
     Lanean, Hariak, Mapak
<1>5. Eginak'
  BY DEF TimerNull, Joan, panelVars, mqttVars, Bizirik, TypeOK, Berriak,
     MapaBerria, Eginak, Lanean, Hariak, Mapak, Garbiketa
<1> QED
  BY <1>2, <1>3, <1>4, <1>5

LEMMA FondoaAldatuPausoa ==
  ASSUME IInv, NEW ondo \in BOOLEAN, FondoaAldatu(ondo)
  PROVE  IInv'
<1> USE MapaMugak DEF IInv
<1>1. mapa' \in [Mapak -> MapaMota]
  <2>1. lantzen["edt"] \in Mapak /\ mapa[lantzen["edt"]] \in MapaMota
    BY DEF FondoaAldatu, Joan, TypeOK, Eginak, Lanean, Hariak, Mapak
  <2>2. mapa' = [mapa EXCEPT ![lantzen["edt"]] = [mapa[lantzen["edt"]] EXCEPT !.piztuta = ondo]]
    BY <2>1 DEF FondoaAldatu, TypeOK
  <2> QED
    BY <2>1, <2>2, EremuaAldatu, MapaAldatu DEF TypeOK
<1>2. TypeOK'
  <2>1. Joan("edt", "fondoa", "lo", 0)
    BY DEF FondoaAldatu
  <2>2. pc' \in [Hariak -> Tokiak] /\ lantzen' \in [Hariak -> 0..MaxMapa]
    BY <2>1, JoanMota DEF Tokiak, Lekuak, Hariak
  <2>3. \/ UNCHANGED <<mqttVars, irteera>>
        \/ ArgitaratuOndo("1") \/ ArgitaratuHuts("1")
    BY DEF FondoaAldatu
  <2>4. /\ alarma' \in {"ezer", "0", "1"} /\ zintzilik' \in BOOLEAN
        /\ irteera' \in {"ez", "NullPointerException", "connectionLost"}
    BY <2>3, ArgitaratuMota DEF mqttVars, TypeOK
  <2> QED
    BY <1>1, <2>2, <2>4 DEF FondoaAldatu, panelVars, TypeOK, Tokiak
<1>3. Tokia'
  BY DEF FondoaAldatu, ArgitaratuOndo, ArgitaratuHuts, Joan, panelVars,
     mqttVars, Bizirik, TypeOK, Hariak, Tokia, EdtBidean, CallbackBidean,
     Garbiketa, CallbackarenMapa
<1>4. Berriak'
  BY DEF FondoaAldatu, ArgitaratuOndo, ArgitaratuHuts, Joan, panelVars,
     mqttVars, Bizirik, TypeOK, Berriak, Eginak, Lanean, Hariak, Mapak
<1>5. Eginak'
  BY DEF FondoaAldatu, ArgitaratuOndo, ArgitaratuHuts, Joan, panelVars,
     mqttVars, Bizirik, TypeOK, Berriak, MapaBerria, Eginak, Lanean, Hariak,
     Mapak, Garbiketa
<1> QED
  BY <1>2, <1>3, <1>4, <1>5

LEMMA Pausoa == IInv /\ [Next]_vars => IInv'
<1> SUFFICES ASSUME IInv, [Next]_vars PROVE IInv'
  OBVIOUS
<1>1. ASSUME NEW h \in Hariak, PantallaAldatu(h) PROVE IInv'
  BY <1>1, GrafikakErakutsiPausoa, PanelaGarbituPausoa, MostrarMapaPausoa, MapaItzuliPausoa,
     MapaErakutsiPausoa DEF PantallaAldatu
<1>2. CASE Callback
  BY <1>1, <1>2, GasaIritsiPausoa, CallbackPantallaAldatuPausoa, SetBalioGasaPausoa,
     TimerSortuPausoa, TimerAbiatuPausoa DEF Callback, Hariak
<1>3. CASE Eragilea
  BY <1>3, MapaSakatuPausoa, GrafikakSakatuPausoa, AlarmaOnPausoa, AlarmaOffPausoa
  DEF Eragilea, Botoiak
<1>4. CASE PantallaAldatu("edt")
  BY <1>1, <1>4 DEF Hariak
<1>5. CASE Tick \/ Fondoa
  BY <1>5, TimerTickPausoa, FondoaZurituPausoa, TimerGeldituPausoa, TimerNullPausoa,
     FondoaAldatuPausoa DEF Tick, Fondoa
<1>6. CASE UNCHANGED vars
  BY <1>6 DEF vars, panelVars, hariVars, mqttVars, IInv, TypeOK, Tokia, EdtBidean,
     CallbackBidean, Berriak, Eginak
<1> QED
  BY <1>2, <1>3, <1>4, <1>5, <1>6 DEF Next
-----------------------------------------------------------------------------
LEMMA InbarianteaBeti == Spec => []IInv
  BY Hasiera, Pausoa, PTL DEF Spec

\* Every reachable state has the types the declarations give it, and no map is made
\* beyond those counted.
THEOREM LabMapaMotak == Spec => []TypeOK
<1>1. IInv => TypeOK
  BY DEF IInv
<1> QED
  BY InbarianteaBeti, <1>1, PTL

\* Whatever the two threads, the clicks and the broker do, the map that messages go to
\* comes to claim an alarm that is off only by AlarmaOFF of another map in the panel.
THEOREM AlarmaGogoratuaBeti == Spec => AlarmaGogoratua
<1>1. IInv /\ [Next]_vars => [Ahaztuta' /\ ~Ahaztuta => lantzen'["edt"] \in ikusgai \ {uneko}]_vars
  <2> SUFFICES ASSUME IInv, Next, Ahaztuta', ~Ahaztuta
               PROVE  lantzen'["edt"] \in ikusgai \ {uneko}
    BY DEF vars
  <2> USE MapaMugak DEF IInv
  <2>1. ASSUME NEW h \in Hariak, PantallaAldatu(h) PROVE FALSE
    <3>1. CASE mostrarMapa(h)
      <4>1. uneko' = uneko + 1 /\ UNCHANGED mapa
        BY <3>1 DEF mostrarMapa
      <4>2. uneko \in Nat /\ uneko' \in 0..MaxMapa
        BY <3>1, MostrarMapaPausoa DEF TypeOK
      <4>3. mapa'[uneko'] = MapaBerria
        BY <4>1, <4>2 DEF Berriak, Mapak
      <4> QED
        BY <4>3 DEF Ahaztuta, MapaBerria
    <3>2. UNCHANGED <<uneko, mapa, mqttVars, irteera>> \/ mostrarMapa(h)
      BY <2>1 DEF PantallaAldatu, GrafikakErakutsi, PanelaGarbitu, MapaItzuli, MapaErakutsi, panelVars
    <3> QED
      BY <3>1, <3>2 DEF Ahaztuta, Bizirik, mqttVars
  <2>2. CASE \/ \E b \in GasBalioak : GasaIritsi(b)
             \/ CallbackPantallaAldatu \/ MapaSakatu \/ GrafikakSakatu \/ Tick \/ FondoaZuritu
    <3>1. UNCHANGED <<uneko, mapa, alarma, irteera>>
      <4>1. CASE (\E b \in GasBalioak : GasaIritsi(b)) \/ CallbackPantallaAldatu
        BY <4>1 DEF GasaIritsi, CallbackPantallaAldatu, panelVars, mqttVars
      <4>2. CASE MapaSakatu \/ GrafikakSakatu
        BY <4>2 DEF MapaSakatu, GrafikakSakatu, mqttVars
      <4>3. CASE Tick \/ FondoaZuritu
        BY <4>3 DEF Tick, TimerTick, FondoaZuritu, panelVars, mqttVars
      <4> QED
        BY <2>2, <4>1, <4>2, <4>3
    <3> QED
      BY <3>1 DEF Ahaztuta, Bizirik
  <2>3. CASE SetBalioGasa \/ TimerSortu \/ TimerAbiatu \/ TimerGelditu \/ TimerNull
    <3>1. /\ UNCHANGED <<uneko, alarma>> /\ Bizirik
          /\ \A i \in Mapak : mapa'[i].piztuta = mapa[i].piztuta
      <4>1. CASE SetBalioGasa
        BY <4>1 DEF SetBalioGasa, Joan, TypeOK, MapaMota, panelVars, mqttVars
      <4>2. CASE TimerSortu
        BY <4>2 DEF TimerSortu, Joan, TypeOK, MapaMota, panelVars, mqttVars
      <4>3. CASE TimerAbiatu
        BY <4>3 DEF TimerAbiatu, Joan, TypeOK, MapaMota, panelVars, mqttVars
      <4>4. CASE TimerGelditu
        BY <4>4 DEF TimerGelditu, Joan, TypeOK, MapaMota, panelVars, mqttVars
      <4>5. CASE TimerNull
        BY <4>5 DEF TimerNull, Joan, TypeOK, MapaMota, panelVars, mqttVars
      <4> QED
        BY <2>3, <4>1, <4>2, <4>3, <4>4, <4>5
    <3> QED
      BY <3>1 DEF Ahaztuta, TypeOK, Mapak
  <2>4. CASE Botoiak
    <3> PICK m \in Mapak : AlarmaOn(m) \/ AlarmaOff(m)
      BY <2>4 DEF Botoiak
    <3>1. CASE AlarmaOn(m)
      BY <3>1 DEF AlarmaOn, ArgitaratuOndo, ArgitaratuHuts, Joan, Ahaztuta, Bizirik, panelVars, mqttVars, TypeOK
    <3>2. CASE AlarmaOff(m)
      <4>1. m \in ikusgai /\ lantzen'["edt"] = m
        BY <3>2, JoanMota DEF AlarmaOff, Hariak
      <4>2. m # uneko
        BY <3>2 DEF AlarmaOff, Ahaztuta, TypeOK, panelVars, Mapak, MapaMota
      <4> QED
        BY <4>1, <4>2
    <3> QED
      BY <3>1, <3>2
  <2>5. ASSUME NEW ondo \in BOOLEAN, FondoaAldatu(ondo) PROVE FALSE
    <3> DEFINE m == lantzen["edt"]
    <3>1. m \in Mapak /\ UNCHANGED uneko /\ Bizirik
      BY <2>5 DEF FondoaAldatu, Joan, panelVars, Eginak, Lanean, Hariak, TypeOK, Mapak
    <3>2. alarma = "1" => alarma' = "1" 
      BY <2>5 DEF FondoaAldatu, ArgitaratuOndo, ArgitaratuHuts, mqttVars
    <3>3. \A i \in Mapak : mapa'[i].piztuta /\ ~mapa[i].piztuta => i = m /\ ondo
      BY <2>5, <3>1 DEF FondoaAldatu, TypeOK, MapaMota
    <3>4. ~mapa[m].piztuta /\ ondo /\ Bizirik' => alarma' = "1"
      BY <2>5 DEF FondoaAldatu, ArgitaratuOndo, Bizirik
    <3> QED
      BY <3>1, <3>2, <3>3, <3>4 DEF Ahaztuta, TypeOK, Mapak
  <2> QED
    BY <2>1, <2>2, <2>3, <2>4, <2>5 DEF Next, Callback, Eragilea, Fondoa, Hariak
<1> QED
  BY <1>1, InbarianteaBeti, PTL DEF Spec, AlarmaGogoratua

\* A view without a map has its map on the way, and so has a callback on the way to one:
\* the view can only be left when the map is there.
NullAurretik ==
  uneko = 0 /\ (~grafikaPanelean \/ pc["callback"] = "setBalioGasa")
    => pc["edt"] \in {"garbituMapa", "mostrarMapa"}

LEMMA NullAurretikPausoa == TypeOK /\ NullAurretik /\ [Next]_vars => NullAurretik'
<1> SUFFICES ASSUME TypeOK, NullAurretik, [Next]_vars PROVE NullAurretik'
  OBVIOUS
<1>0. uneko \in Nat /\ uneko + 1 # 0
  BY MapaMugak DEF TypeOK
<1>1. ASSUME NEW h \in Hariak, PantallaAldatu(h) PROVE NullAurretik'
  BY <1>0, <1>1 DEF PantallaAldatu, GrafikakErakutsi, PanelaGarbitu, mostrarMapa, MapaItzuli,
     MapaErakutsi, Joan, NullAurretik, TypeOK, Hariak, panelVars
<1>2. CASE (\E b \in GasBalioak : GasaIritsi(b)) \/ CallbackPantallaAldatu
  BY <1>2 DEF GasaIritsi, CallbackPantallaAldatu, Garbiketa, Joan, NullAurretik, TypeOK, Hariak, panelVars
<1>3. CASE SetBalioGasa \/ TimerSortu \/ TimerAbiatu
  BY <1>3 DEF SetBalioGasa, TimerSortu, TimerAbiatu, Joan, NullAurretik, TypeOK, Hariak, panelVars
<1>4. CASE MapaSakatu \/ GrafikakSakatu \/ Botoiak
  BY <1>4 DEF MapaSakatu, GrafikakSakatu, Botoiak, AlarmaOn, AlarmaOff, Garbiketa, Joan,
     NullAurretik, TypeOK, Hariak, panelVars
<1>5. CASE Tick \/ Fondoa
  BY <1>5 DEF Tick, TimerTick, Fondoa, FondoaZuritu, TimerGelditu, TimerNull, FondoaAldatu,
     Joan, NullAurretik, TypeOK, Hariak, panelVars
<1>6. CASE UNCHANGED vars
  BY <1>6 DEF vars, panelVars, hariVars, NullAurretik
<1> QED
  BY <1>1, <1>2, <1>3, <1>4, <1>5, <1>6 DEF Next, Callback, Eragilea, Hariak

\* The window in which a gas message ends the dashboard, since the map is null, closes
\* for good with the first map, whatever the two threads do.
THEOREM MapaNullLeihoaBeti == Spec => []MapaNullLeihoa
<1>1. Init => NullAurretik
  BY DEF Init, NullAurretik, Hariak
<1>2. NullAurretik => MapaNullLeihoa
  BY DEF NullAurretik, MapaNullLeihoa
<1> QED
  BY <1>1, <1>2, NullAurretikPausoa, LabMapaMotak, PTL DEF Spec
=============================================================================
