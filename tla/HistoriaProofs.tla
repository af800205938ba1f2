--------------------------- MODULE HistoriaProofs ---------------------------
(***************************************************************************)
(* Proofs about Historia for every limit of the history, every window and  *)
(* every file.  That the list holds at most one value too many is not      *)
(* inductive: a thread that has passed the size test has a place reserved, *)
(* so the threads about to offer are counted with the values.              *)
(***************************************************************************)
EXTENDS Historia, TLAPS

Eskaintzen(t) == IF pc[t] = "offer" THEN 1 ELSE 0

\* The values in the list and those about to be put in it.
Lekua == ~hondatuta => luzera + Eskaintzen("cb") + Eskaintzen("edt") <= Muga + 1

\* valueTemperature is the message in hand until the callback thread is done with it.
GasaEskuan == pc["cb"] # "lo" => /\ valueTemperature.gaia = "gas"
                                 /\ valorActual["cb"].gaia = "gas"

\* What the callback thread owes the message at each place.
Zorra == /\ pc["cb"] \in {"serie", "gorde"} => gordeta
         /\ pc["cb"] = "pantallaAldatu" => grafikaPanelean \/ mapara

IInv == TypeOK /\ Lekua /\ GasaEskuan /\ Zorra
-----------------------------------------------------------------------------
LEMMA Hasiera == Init => IInv
<1> SUFFICES ASSUME Init PROVE IInv
  OBVIOUS
<1>1. valueTemperature \in Balioak
  BY DEF Init, Balioak
<1>2. leihoa \in [guztira : 0..MaxLerro, ikusgai : 0..Ikusgai]
  BY HistoriaMugak DEF Init, Leihorik
<1>3. TypeOK
  <2>1. /\ pc \in [Hariak -> {"lo"}]
        /\ valorActual \in [Hariak -> Balioak]
    BY <1>1 DEF Init
  <2>2. luzera \in Nat /\ fitxategia \in 0..MaxLerro
    BY HistoriaMugak DEF Init
  <2>3. /\ grafikaPanelean \in BOOLEAN /\ hondatuta \in BOOLEAN
        /\ gordeta \in BOOLEAN /\ mapara \in BOOLEAN
        /\ irteera \in {"ez", "salbuespena", "irten"}
    BY DEF Init
  <2>4. pc \in [Hariak -> {"lo", "propertyChange", "pantallaAldatu", "mostrarGrafikak",
                          "tamaina", "poll", "offer", "serie", "gorde"}]
    BY <2>1
  <2> QED
    BY <1>1, <1>2, <2>1, <2>2, <2>3, <2>4 DEF TypeOK
<1>4. Lekua
  BY HistoriaMugak DEF Init, Lekua, Eskaintzen, Hariak
<1>5. GasaEskuan /\ Zorra
  BY DEF Init, GasaEskuan, Zorra, Hariak
<1> QED
  BY <1>3, <1>4, <1>5 DEF IInv

LEMMA MotakPausoa == TypeOK /\ [Next]_vars => TypeOK'
<1> SUFFICES ASSUME TypeOK, [Next]_vars PROVE TypeOK'
  OBVIOUS
<1>1. CASE \E balioa \in [gaia : Gaiak, zero : BOOLEAN] : messageArrived(balioa)
  <2> PICK balioa \in [gaia : Gaiak, zero : BOOLEAN] : messageArrived(balioa)
    BY <1>1
  <2>1. balioa \in Balioak
    BY DEF Balioak, Gaiak
  <2> QED
    BY <2>1 DEF messageArrived, mezuVars, TypeOK, Hariak
<1>2. CASE propertyChange
  BY <1>2, HistoriaMugak DEF propertyChange, CbJoan, mezuVars, TypeOK, Hariak,
     Balioak
<1>3. CASE CallbackPantallaAldatu
  BY <1>3, HistoriaMugak DEF CallbackPantallaAldatu, CbJoan, mezuVars, TypeOK,
     Hariak, Balioak
<1>4. ASSUME NEW t \in Hariak, mostrarGrafikak(t) PROVE TypeOK'
  BY <1>4, HistoriaMugak DEF mostrarGrafikak, mezuVars, TypeOK, Hariak, Balioak
<1>5. ASSUME NEW t \in Hariak, Tamaina(t) PROVE TypeOK'
  BY <1>5, HistoriaMugak DEF Tamaina, mezuVars, TypeOK, Hariak, Balioak
<1>6. ASSUME NEW t \in Hariak, actualizarHistorial(t) PROVE TypeOK'
  <2>1. CASE poll(t)
    BY <1>6, <2>1, HistoriaMugak DEF actualizarHistorial, poll, TypeOK, Hariak,
       Balioak, ZerrendaLana, Lasterketa
  <2>2. CASE offer(t)
    BY <1>6, <2>2, HistoriaMugak DEF actualizarHistorial, offer, TypeOK, Hariak,
       Balioak, ZerrendaLana, Lasterketa
  <2>3. CASE evolucionSeries(t)
    BY <1>6, <2>3, HistoriaMugak DEF actualizarHistorial, evolucionSeries, TypeOK,
       Hariak, Balioak, ZerrendaLana, Lasterketa
  <2> QED
    BY <1>6, <2>1, <2>2, <2>3 DEF actualizarHistorial
<1>7. ASSUME NEW t \in Hariak, Salbuespena(t) PROVE TypeOK'
  BY <1>7, HistoriaMugak DEF Salbuespena, mezuVars, TypeOK, Hariak, Balioak,
     ZerrendaLana, Lasterketa
<1>8. ASSUME NEW t \in Hariak, guardarValorEnArchivo(t) PROVE TypeOK'
  BY <1>8, HistoriaMugak DEF guardarValorEnArchivo, mezuVars, TypeOK, Hariak,
     Balioak
<1>9. CASE GrafikakSakatu
  BY <1>9, HistoriaMugak DEF GrafikakSakatu, EdtUnchanged, TypeOK, Hariak,
     Balioak
<1>10. CASE MapaSakatu
  BY <1>10, HistoriaMugak DEF MapaSakatu, EdtUnchanged, TypeOK, Hariak, Balioak
<1>11. CASE generarGraficoPorFecha(fitxategia)
  BY <1>11, HistoriaMugak DEF generarGraficoPorFecha, EdtUnchanged, TypeOK,
     Hariak, Balioak
<1>12. CASE \E startIndex \in 0..MaxLerro : Korritu(startIndex)
  BY <1>12, HistoriaMugak DEF Korritu, EdtUnchanged, TypeOK, Hariak, Balioak
<1>13. CASE Irten
  BY <1>13, HistoriaMugak DEF Irten, mezuVars, TypeOK, Hariak, Balioak
<1>14. CASE UNCHANGED vars
  BY <1>14, HistoriaMugak DEF vars, mezuVars, TypeOK, Hariak, Balioak
<1> QED
  BY <1>1, <1>2, <1>3, <1>4, <1>5, <1>6, <1>7, <1>8, <1>9, <1>10, <1>11, <1>12,
     <1>13, <1>14 DEF Next

LEMMA LekuaPausoa == TypeOK /\ Lekua /\ [Next]_vars => Lekua'
<1> SUFFICES ASSUME TypeOK, Lekua, [Next]_vars PROVE Lekua'
  OBVIOUS
<1>1. CASE \E balioa \in [gaia : Gaiak, zero : BOOLEAN] : messageArrived(balioa)
  BY <1>1, HistoriaMugak DEF messageArrived, mezuVars, TypeOK, Lekua, Eskaintzen,
     Hariak
<1>2. CASE propertyChange
  BY <1>2, HistoriaMugak DEF propertyChange, CbJoan, mezuVars, TypeOK, Lekua,
     Eskaintzen, Hariak
<1>3. CASE CallbackPantallaAldatu
  BY <1>3, HistoriaMugak DEF CallbackPantallaAldatu, CbJoan, mezuVars, TypeOK,
     Lekua, Eskaintzen, Hariak
<1>4. ASSUME NEW t \in Hariak, mostrarGrafikak(t) PROVE Lekua'
  BY <1>4, HistoriaMugak DEF mostrarGrafikak, mezuVars, TypeOK, Lekua, Eskaintzen,
     Hariak
<1>5. ASSUME NEW t \in Hariak, Tamaina(t) PROVE Lekua'
  BY <1>5, HistoriaMugak DEF Tamaina, mezuVars, TypeOK, Lekua, Eskaintzen, Hariak
<1>6. ASSUME NEW t \in Hariak, actualizarHistorial(t) PROVE Lekua'
  <2>1. CASE poll(t)
    BY <1>6, <2>1, HistoriaMugak DEF actualizarHistorial, poll, TypeOK, Lekua,
       Eskaintzen, Hariak
  <2>2. CASE offer(t)
    BY <1>6, <2>2, HistoriaMugak DEF actualizarHistorial, offer, TypeOK, Lekua,
       Eskaintzen, Hariak
  <2>3. CASE evolucionSeries(t)
    BY <1>6, <2>3, HistoriaMugak DEF actualizarHistorial, evolucionSeries, TypeOK,
       Lekua, Eskaintzen, Hariak
  <2> QED
    BY <1>6, <2>1, <2>2, <2>3 DEF actualizarHistorial
<1>7. ASSUME NEW t \in Hariak, Salbuespena(t) PROVE Lekua'
  BY <1>7, HistoriaMugak DEF Salbuespena, mezuVars, TypeOK, Lekua, Eskaintzen,
     Hariak
<1>8. ASSUME NEW t \in Hariak, guardarValorEnArchivo(t) PROVE Lekua'
  BY <1>8, HistoriaMugak DEF guardarValorEnArchivo, mezuVars, TypeOK, Lekua,
     Eskaintzen, Hariak
<1>9. CASE GrafikakSakatu
  BY <1>9, HistoriaMugak DEF GrafikakSakatu, EdtUnchanged, TypeOK, Lekua,
     Eskaintzen, Hariak
<1>10. CASE MapaSakatu
  BY <1>10, HistoriaMugak DEF MapaSakatu, EdtUnchanged, TypeOK, Lekua, Eskaintzen,
     Hariak
<1>11. CASE generarGraficoPorFecha(fitxategia)
  BY <1>11, HistoriaMugak DEF generarGraficoPorFecha, EdtUnchanged, TypeOK, Lekua,
     Eskaintzen, Hariak
<1>12. CASE \E startIndex \in 0..MaxLerro : Korritu(startIndex)
  BY <1>12, HistoriaMugak DEF Korritu, EdtUnchanged, TypeOK, Lekua, Eskaintzen,
     Hariak
<1>13. CASE Irten
  BY <1>13, HistoriaMugak DEF Irten, mezuVars, TypeOK, Lekua, Eskaintzen, Hariak
<1>14. CASE UNCHANGED vars
  BY <1>14, HistoriaMugak DEF vars, mezuVars, TypeOK, Lekua, Eskaintzen, Hariak
<1> QED
  BY <1>1, <1>2, <1>3, <1>4, <1>5, <1>6, <1>7, <1>8, <1>9, <1>10, <1>11, <1>12,
     <1>13, <1>14 DEF Next

LEMMA GasaPausoa == TypeOK /\ GasaEskuan /\ [Next]_vars => GasaEskuan'
<1> SUFFICES ASSUME TypeOK, GasaEskuan, [Next]_vars PROVE GasaEskuan'
  OBVIOUS
<1>1. CASE \E balioa \in [gaia : Gaiak, zero : BOOLEAN] : messageArrived(balioa)
  BY <1>1 DEF messageArrived, mezuVars, TypeOK, GasaEskuan, Hariak
<1>2. CASE propertyChange
  BY <1>2 DEF propertyChange, CbJoan, mezuVars, TypeOK, GasaEskuan,
     Hariak
<1>3. CASE CallbackPantallaAldatu
  BY <1>3 DEF CallbackPantallaAldatu, CbJoan, mezuVars, TypeOK,
     GasaEskuan, Hariak
<1>4. ASSUME NEW t \in Hariak, mostrarGrafikak(t) PROVE GasaEskuan'
  BY <1>4 DEF mostrarGrafikak, mezuVars, TypeOK, GasaEskuan, Hariak
<1>5. ASSUME NEW t \in Hariak, Tamaina(t) PROVE GasaEskuan'
  BY <1>5 DEF Tamaina, mezuVars, TypeOK, GasaEskuan, Hariak
<1>6. ASSUME NEW t \in Hariak, actualizarHistorial(t) PROVE GasaEskuan'
  <2>1. CASE poll(t)
    BY <1>6, <2>1 DEF actualizarHistorial, poll, TypeOK,
       GasaEskuan, Hariak
  <2>2. CASE offer(t)
    BY <1>6, <2>2 DEF actualizarHistorial, offer, TypeOK,
       GasaEskuan, Hariak
  <2>3. CASE evolucionSeries(t)
    BY <1>6, <2>3 DEF actualizarHistorial, evolucionSeries, TypeOK,
       GasaEskuan, Hariak
  <2> QED
    BY <1>6, <2>1, <2>2, <2>3 DEF actualizarHistorial
<1>7. ASSUME NEW t \in Hariak, Salbuespena(t) PROVE GasaEskuan'
  BY <1>7 DEF Salbuespena, mezuVars, TypeOK, GasaEskuan, Hariak
<1>8. ASSUME NEW t \in Hariak, guardarValorEnArchivo(t) PROVE GasaEskuan'
  BY <1>8 DEF guardarValorEnArchivo, mezuVars, TypeOK, GasaEskuan,
     Hariak
<1>9. CASE GrafikakSakatu
  BY <1>9 DEF GrafikakSakatu, EdtUnchanged, TypeOK, GasaEskuan,
     Hariak
<1>10. CASE MapaSakatu
  BY <1>10 DEF MapaSakatu, EdtUnchanged, TypeOK, GasaEskuan, Hariak
<1>11. CASE generarGraficoPorFecha(fitxategia)
  BY <1>11 DEF generarGraficoPorFecha, EdtUnchanged, TypeOK,
     GasaEskuan, Hariak
<1>12. CASE \E startIndex \in 0..MaxLerro : Korritu(startIndex)
  BY <1>12 DEF Korritu, EdtUnchanged, TypeOK, GasaEskuan, Hariak
<1>13. CASE Irten
  BY <1>13 DEF Irten, mezuVars, TypeOK, GasaEskuan, Hariak
<1>14. CASE UNCHANGED vars
  BY <1>14 DEF vars, mezuVars, TypeOK, GasaEskuan, Hariak
<1> QED
  BY <1>1, <1>2, <1>3, <1>4, <1>5, <1>6, <1>7, <1>8, <1>9, <1>10, <1>11, <1>12,
     <1>13, <1>14 DEF Next

LEMMA ZorraPausoa == TypeOK /\ Zorra /\ [Next]_vars => Zorra'
<1> SUFFICES ASSUME TypeOK, Zorra, [Next]_vars PROVE Zorra'
  OBVIOUS
<1>1. CASE \E balioa \in [gaia : Gaiak, zero : BOOLEAN] : messageArrived(balioa)
  BY <1>1 DEF messageArrived, mezuVars, TypeOK, Zorra, Hariak
<1>2. CASE propertyChange
  BY <1>2 DEF propertyChange, CbJoan, mezuVars, TypeOK, Zorra,
     Hariak
<1>3. CASE CallbackPantallaAldatu
  BY <1>3 DEF CallbackPantallaAldatu, CbJoan, mezuVars, TypeOK,
     Zorra, Hariak
<1>4. ASSUME NEW t \in Hariak, mostrarGrafikak(t) PROVE Zorra'
  BY <1>4 DEF mostrarGrafikak, mezuVars, TypeOK, Zorra, Hariak
<1>5. ASSUME NEW t \in Hariak, Tamaina(t) PROVE Zorra'
  BY <1>5 DEF Tamaina, mezuVars, TypeOK, Zorra, Hariak
<1>6. ASSUME NEW t \in Hariak, actualizarHistorial(t) PROVE Zorra'
  <2>1. CASE poll(t)
    BY <1>6, <2>1 DEF actualizarHistorial, poll, TypeOK, Zorra,
       Hariak
  <2>2. CASE offer(t)
    BY <1>6, <2>2 DEF actualizarHistorial, offer, TypeOK, Zorra,
       Hariak
  <2>3. CASE evolucionSeries(t)
    BY <1>6, <2>3 DEF actualizarHistorial, evolucionSeries, TypeOK,
       Zorra, Hariak
  <2> QED
    BY <1>6, <2>1, <2>2, <2>3 DEF actualizarHistorial
<1>7. ASSUME NEW t \in Hariak, Salbuespena(t) PROVE Zorra'
  BY <1>7 DEF Salbuespena, mezuVars, TypeOK, Zorra, Hariak
<1>8. ASSUME NEW t \in Hariak, guardarValorEnArchivo(t) PROVE Zorra'
  BY <1>8 DEF guardarValorEnArchivo, mezuVars, TypeOK, Zorra,
     Hariak
<1>9. CASE GrafikakSakatu
  BY <1>9 DEF GrafikakSakatu, EdtUnchanged, TypeOK, Zorra, Hariak
<1>10. CASE MapaSakatu
  BY <1>10 DEF MapaSakatu, EdtUnchanged, TypeOK, Zorra, Hariak
<1>11. CASE generarGraficoPorFecha(fitxategia)
  BY <1>11 DEF generarGraficoPorFecha, EdtUnchanged, TypeOK, Zorra,
     Hariak
<1>12. CASE \E startIndex \in 0..MaxLerro : Korritu(startIndex)
  BY <1>12 DEF Korritu, EdtUnchanged, TypeOK, Zorra, Hariak
<1>13. CASE Irten
  BY <1>13 DEF Irten, mezuVars, TypeOK, Zorra, Hariak
<1>14. CASE UNCHANGED vars
  BY <1>14 DEF vars, mezuVars, TypeOK, Zorra, Hariak
<1> QED
  BY <1>1, <1>2, <1>3, <1>4, <1>5, <1>6, <1>7, <1>8, <1>9, <1>10, <1>11, <1>12,
     <1>13, <1>14 DEF Next

LEMMA Pausoa == IInv /\ [Next]_vars => IInv'
  BY MotakPausoa, LekuaPausoa, GasaPausoa, ZorraPausoa DEF IInv

LEMMA InbarianteaBeti == Spec => []IInv
  BY Hasiera, Pausoa, PTL DEF Spec
-----------------------------------------------------------------------------
\* Every reachable state has the types the declarations give it: the history never
\* has a negative length, and a day's window shows no more points than it should.
THEOREM HistoriaMotak == Spec => []TypeOK
<1>1. IInv => TypeOK
  BY DEF IInv
<1> QED
  BY InbarianteaBeti, <1>1, PTL

\* Whatever its limit, two threads that record at once take the history beyond it by
\* one value at most, as long as no race breaks the list.
THEOREM HistoriaMugaBeti == Spec => []HistoriaMuga
<1>1. IInv => HistoriaMuga
  BY HistoriaMugak DEF IInv, TypeOK, Lekua, Eskaintzen, HistoriaMuga
<1> QED
  BY InbarianteaBeti, <1>1, PTL

\* The callback thread records gas values only, although the field it reads them from
\* is written for both topics.
THEOREM GasaGordetzenBeti == Spec => []GasaGordetzen
<1>1. IInv => GasaGordetzen
  BY DEF IInv, GasaEskuan, GasaGordetzen, ZerrendaLana
<1> QED
  BY InbarianteaBeti, <1>1, PTL

\* The callback thread is done with a gas message only when the value has been through
\* the history, or the operator has gone to the map meanwhile, or the process ends.
THEOREM GalduGabeBeti == Spec => GalduGabe
<1> DEFINE Amaitu == pc["cb"] # "lo" /\ pc'["cb"] = "lo" /\ Bizirik' => gordeta' \/ mapara'
<1>1. IInv /\ [Next]_vars => [Amaitu]_vars
  <2> SUFFICES ASSUME IInv, Next, pc["cb"] # "lo", pc'["cb"] = "lo", Bizirik'
               PROVE  gordeta' \/ mapara'
    BY DEF vars
  <2>1. CASE propertyChange
    BY <2>1 DEF propertyChange, CbJoan, IInv, TypeOK, Hariak
  <2>2. CASE CallbackPantallaAldatu
    BY <2>2 DEF CallbackPantallaAldatu, CbJoan, IInv, TypeOK, Zorra, mezuVars,
       Hariak
  <2>3. ASSUME NEW t \in Hariak, guardarValorEnArchivo(t) PROVE gordeta' \/ mapara'
    BY <2>3 DEF guardarValorEnArchivo, IInv, TypeOK, Zorra, mezuVars, Hariak
  <2>4. ASSUME NEW t \in Hariak, Salbuespena(t) PROVE gordeta' \/ mapara'
    BY <2>4 DEF Salbuespena, Bizirik, IInv, TypeOK, Hariak
  <2>5. ASSUME NEW t \in Hariak, mostrarGrafikak(t) \/ Tamaina(t) \/ actualizarHistorial(t)
        PROVE  FALSE
    BY <2>5 DEF mostrarGrafikak, Tamaina, actualizarHistorial, poll, offer,
       evolucionSeries, IInv, TypeOK, Hariak
  <2> QED
    BY <2>1, <2>2, <2>3, <2>4, <2>5 DEF Next, messageArrived, GrafikakSakatu,
       MapaSakatu, generarGraficoPorFecha, Korritu, Irten, IInv, TypeOK, Hariak
<1> QED
  BY InbarianteaBeti, <1>1, PTL DEF Spec, GalduGabe
-----------------------------------------------------------------------------
(* What the history loses.  A poll that is due was decided when the list was *)
(* full, maybe together with one of the other thread.                        *)

Ateratzen(t) == IF pc[t] = "poll" THEN 1 ELSE 0

AteratzekoLekua ==
  ~hondatuta /\ (\E t \in Hariak : pc[t] = "poll")
    => luzera + 2 >= Muga + Ateratzen("cb") + Ateratzen("edt")

LEMMA AteratzekoPausoa == TypeOK /\ AteratzekoLekua /\ [Next]_vars => AteratzekoLekua'
<1> SUFFICES ASSUME TypeOK, AteratzekoLekua, [Next]_vars PROVE AteratzekoLekua'
  OBVIOUS
<1> USE HistoriaMugak DEF TypeOK, AteratzekoLekua, Ateratzen, Hariak
<1>1. CASE \E balioa \in [gaia : Gaiak, zero : BOOLEAN] : messageArrived(balioa)
  BY <1>1 DEF messageArrived, mezuVars
<1>2. CASE propertyChange \/ CallbackPantallaAldatu
  BY <1>2 DEF propertyChange, CallbackPantallaAldatu, CbJoan, mezuVars
<1>3. ASSUME NEW t \in Hariak, mostrarGrafikak(t) PROVE AteratzekoLekua'
  BY <1>3 DEF mostrarGrafikak, mezuVars
<1>4. ASSUME NEW t \in Hariak, Tamaina(t) PROVE AteratzekoLekua'
  BY <1>4 DEF Tamaina, mezuVars
<1>5. ASSUME NEW t \in Hariak, actualizarHistorial(t) PROVE AteratzekoLekua'
  <2>1. CASE poll(t)
    BY <1>5, <2>1 DEF actualizarHistorial, poll
  <2>2. CASE offer(t)
    BY <1>5, <2>2 DEF actualizarHistorial, offer
  <2>3. CASE evolucionSeries(t)
    BY <1>5, <2>3 DEF actualizarHistorial, evolucionSeries
  <2> QED
    BY <1>5, <2>1, <2>2, <2>3 DEF actualizarHistorial
<1>6. ASSUME NEW t \in Hariak, Salbuespena(t) \/ guardarValorEnArchivo(t)
      PROVE  AteratzekoLekua'
  BY <1>6 DEF Salbuespena, guardarValorEnArchivo, mezuVars
<1>7. CASE GrafikakSakatu \/ MapaSakatu \/ generarGraficoPorFecha(fitxategia)
  BY <1>7 DEF GrafikakSakatu, MapaSakatu, generarGraficoPorFecha, EdtUnchanged
<1>8. CASE \E startIndex \in 0..MaxLerro : Korritu(startIndex)
  BY <1>8 DEF Korritu, EdtUnchanged
<1>9. CASE Irten \/ UNCHANGED vars
  BY <1>9 DEF Irten, vars, mezuVars
<1> QED
  BY <1>1, <1>2, <1>3, <1>4, <1>5, <1>6, <1>7, <1>8, <1>9 DEF Next

\* An old value leaves the history only when no more than two places are free after
\* it: two threads that found the list full may each take one out, and a value of zero
\* puts none in.
ZaharrakGorde == [][~hondatuta /\ luzera' < luzera => luzera' + 2 >= Muga]_vars

\* As long as no race breaks it, the list never loses a value for lack of room while
\* there is room: however the two threads interleave, three places are never freed.
THEOREM ZaharrakGordeBeti == Spec => ZaharrakGorde
<1> DEFINE Galdu == ~hondatuta /\ luzera' < luzera => luzera' + 2 >= Muga
<1>1. Init => AteratzekoLekua
  BY DEF Init, AteratzekoLekua, Hariak
<1>2. TypeOK /\ AteratzekoLekua /\ [Next]_vars => [Galdu]_vars
  <2> SUFFICES ASSUME TypeOK, AteratzekoLekua, Next, ~hondatuta, luzera' < luzera
               PROVE  luzera' + 2 >= Muga
    BY DEF vars
  <2>1. luzera' # luzera
    BY DEF TypeOK
  <2>2. PICK t \in Hariak : actualizarHistorial(t)
    BY <2>1 DEF Next, messageArrived, propertyChange, CallbackPantallaAldatu, CbJoan,
       mostrarGrafikak, Tamaina, Salbuespena, guardarValorEnArchivo, GrafikakSakatu,
       MapaSakatu, generarGraficoPorFecha, Korritu, Irten, EdtUnchanged
  <2>3. poll(t)
    BY <2>2 DEF actualizarHistorial, offer, evolucionSeries, TypeOK
  <2> QED
    BY <2>3, HistoriaMugak DEF poll, TypeOK, AteratzekoLekua, Ateratzen, Hariak
<1> QED
  BY <1>1, <1>2, AteratzekoPausoa, HistoriaMotak, PTL DEF Spec, ZaharrakGorde
=============================================================================
