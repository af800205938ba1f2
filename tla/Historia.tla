------------------------------ MODULE Historia ------------------------------
(***************************************************************************)
(* The gas values a laboratory's window keeps: historialValores, the last  *)
(* ones, for the chart; a file with a line for each; and the window that   *)
(* shows those of a day.  They are written by the MQTT callback thread,    *)
(* for each gas message, and by the Swing event thread (EDT), when the     *)
(* operator goes to the charts; nothing is synchronised.  What is charted  *)
(* is MqttSuscribe's valueTemperature, written for both topics.            *)
(*                                                                         *)
(* A step is one access to what the threads share.  Two that overlap in    *)
(* the LinkedList are a race: it ends in an exception, or in a list whose  *)
(* links and size agree no more, or does no harm.                          *)
(***************************************************************************)
EXTENDS Naturals

CONSTANTS Muga,        \* values the history is to keep (20 in the code)
          Ikusgai,     \* points a day's window shows at once (20)
          MaxLerro     \* bound: lines in the file

ASSUME HistoriaMugak == Muga \in Nat \ {0} /\ Ikusgai \in Nat \ {0} /\ MaxLerro \in Nat

Hariak == {"cb", "edt"}
Gaiak == {"gas", "infragorri"}
Balioak == [gaia : Gaiak \cup {"ezer"}, zero : BOOLEAN]

VARIABLES
  grafikaPanelean,     \* the charts are selected
  valueTemperature,    \* the last value of any topic
  pc, valorActual,     \* of each thread
  luzera,              \* length of historialValores
  hondatuta,           \* a race has broken the list
  fitxategia,          \* lines of the value file
  leihoa,              \* a day's window: its points, and those in view
  irteera,             \* why the process has ended
  gordeta, mapara      \* history, of the message in hand: the callback has put it in
                       \* the list; the operator has gone to the map meanwhile

mezuVars == <<gordeta, mapara>>
vars == <<grafikaPanelean, valueTemperature, pc, valorActual, luzera, hondatuta,
          fitxategia, leihoa, irteera, mezuVars>>

Bizirik == irteera = "ez"
Leihorik == [guztira |-> 0, ikusgai |-> 0]

\* The window is built and no message has come.
Init ==
  /\ grafikaPanelean = TRUE
  /\ valueTemperature = [gaia |-> "ezer", zero |-> TRUE]
  /\ pc = [t \in Hariak |-> "lo"]
  /\ valorActual = [t \in Hariak |-> valueTemperature]
  /\ luzera = 0 /\ hondatuta = FALSE
  /\ fitxategia = 0 /\ leihoa = Leihorik
  /\ irteera = "ez"
  /\ gordeta = FALSE /\ mapara = FALSE
-----------------------------------------------------------------------------
(* The callback thread. *)

\* Mutant: a people message is announced as a gas one.
MutMessageArrivedBiak(balioa) ==
  /\ Bizirik /\ pc["cb"] = "lo"
  /\ valueTemperature' = balioa
  /\ pc' = [pc EXCEPT !["cb"] = "propertyChange"]
  /\ valorActual' = [valorActual EXCEPT !["cb"] = balioa]
  /\ gordeta' = FALSE /\ mapara' = FALSE
  /\ UNCHANGED <<grafikaPanelean, luzera, hondatuta, fitxategia, leihoa, irteera>>

\* messageArrived, with the value of the event; what a people message does is Pertsona.
messageArrived(balioa) ==
  /\ Bizirik /\ pc["cb"] = "lo"
  /\ valueTemperature' = balioa
  /\ IF balioa.gaia = "gas"
       THEN /\ pc' = [pc EXCEPT !["cb"] = "propertyChange"]
            /\ valorActual' = [valorActual EXCEPT !["cb"] = balioa]
            /\ gordeta' = FALSE /\ mapara' = FALSE
       ELSE UNCHANGED <<pc, valorActual, mezuVars>>
  /\ UNCHANGED <<grafikaPanelean, luzera, hondatuta, fitxategia, leihoa, irteera>>

CbJoan(nora) ==
  /\ pc' = [pc EXCEPT !["cb"] = nora]
  /\ UNCHANGED <<grafikaPanelean, valueTemperature, valorActual, luzera, hondatuta,
                 fitxategia, leihoa, irteera, mezuVars>>

\* Mutant: with the map shown the history is not brought up to date.
MutPropertyChangeMapanGorde ==
  /\ Bizirik /\ pc["cb"] = "propertyChange"
  /\ CbJoan(IF grafikaPanelean THEN "pantallaAldatu" ELSE "gorde")

\* propertyChange, aldatuGasa: the charts anew, or the history and the map.
propertyChange ==
  /\ Bizirik /\ pc["cb"] = "propertyChange"
  /\ CbJoan(IF grafikaPanelean THEN "pantallaAldatu" ELSE "tamaina")

\* pantallaAldatu(grafikaPanelean) reads the field again: a map keeps no value.
CallbackPantallaAldatu ==
  /\ Bizirik /\ pc["cb"] = "pantallaAldatu"
  /\ CbJoan(IF grafikaPanelean THEN "mostrarGrafikak" ELSE "lo")
-----------------------------------------------------------------------------
(* mostrarGrafikak, actualizarHistorial and guardarValorEnArchivo, on either *)
(* thread. *)

mostrarGrafikak(t) ==
  /\ Bizirik /\ pc[t] = "mostrarGrafikak"
  /\ valorActual' = [valorActual EXCEPT ![t] = valueTemperature]
  /\ pc' = [pc EXCEPT ![t] = "tamaina"]
  /\ UNCHANGED <<grafikaPanelean, valueTemperature, luzera, hondatuta, fitxategia,
                 leihoa, irteera, mezuVars>>

\* Mutant: off by one.
MutTamainaHandiago(t) ==
  /\ Bizirik /\ pc[t] = "tamaina"
  /\ \/ (luzera > Muga \/ hondatuta) /\ pc' = [pc EXCEPT ![t] = "poll"]
     \/ (luzera <= Muga \/ hondatuta) /\ pc' = [pc EXCEPT ![t] = "offer"]
  /\ UNCHANGED <<grafikaPanelean, valueTemperature, valorActual, luzera, hondatuta,
                 fitxategia, leihoa, irteera, mezuVars>>

\* size: nothing is known of that of a broken list.
Tamaina(t) ==
  /\ Bizirik /\ pc[t] = "tamaina"
  /\ \/ (luzera >= Muga \/ hondatuta) /\ pc' = [pc EXCEPT ![t] = "poll"]
     \/ (luzera < Muga \/ hondatuta) /\ pc' = [pc EXCEPT ![t] = "offer"]
  /\ UNCHANGED <<grafikaPanelean, valueTemperature, valorActual, luzera, hondatuta,
                 fitxategia, leihoa, irteera, mezuVars>>

ZerrendaLana == {"poll", "offer", "serie"}

\* poll, offer unless the value is zero, and the loop that fills the chart.
poll(t) ==
  /\ pc[t] = "poll"
  /\ luzera' = IF luzera = 0 \/ hondatuta THEN luzera ELSE luzera - 1
  /\ pc' = [pc EXCEPT ![t] = "offer"]
  /\ UNCHANGED gordeta
offer(t) ==
  /\ pc[t] = "offer"
  /\ luzera' = IF valorActual[t].zero \/ hondatuta THEN luzera ELSE luzera + 1
  /\ gordeta' = (gordeta \/ t = "cb")
  /\ pc' = [pc EXCEPT ![t] = "serie"]
evolucionSeries(t) ==
  /\ pc[t] = "serie"
  /\ pc' = [pc EXCEPT ![t] = "gorde"]
  /\ UNCHANGED <<luzera, gordeta>>

Lasterketa == \A t \in Hariak : pc[t] \in ZerrendaLana

actualizarHistorial(t) ==
  /\ Bizirik
  /\ poll(t) \/ offer(t) \/ evolucionSeries(t)
  /\ hondatuta' \in IF Lasterketa THEN BOOLEAN ELSE {hondatuta}
  /\ hondatuta => hondatuta'
  /\ UNCHANGED <<grafikaPanelean, valueTemperature, valorActual, fitxategia, leihoa,
                 irteera, mapara>>

\* NullPointerException or ConcurrentModificationException: it ends the action on the
\* EDT; on the callback thread it leaves messageArrived, and connectionLost exits.
Salbuespena(t) ==
  /\ Bizirik /\ pc[t] \in ZerrendaLana /\ (Lasterketa \/ hondatuta)
  /\ pc' = [pc EXCEPT ![t] = "lo"]
  /\ irteera' = IF t = "cb" THEN "salbuespena" ELSE irteera
  /\ UNCHANGED <<grafikaPanelean, valueTemperature, valorActual, luzera, hondatuta,
                 fitxategia, leihoa, mezuVars>>

\* One write of one line, unless the value is zero; an IOException is printed.
guardarValorEnArchivo(t) ==
  /\ Bizirik /\ pc[t] = "gorde"
  /\ \/ /\ ~valorActual[t].zero /\ fitxategia < MaxLerro
        /\ fitxategia' = fitxategia + 1
     \/ UNCHANGED fitxategia
  /\ pc' = [pc EXCEPT ![t] = "lo"]
  /\ UNCHANGED <<grafikaPanelean, valueTemperature, valorActual, luzera, hondatuta,
                 leihoa, irteera, mezuVars>>
-----------------------------------------------------------------------------
(* The EDT: the menu's actions. *)

EdtUnchanged == UNCHANGED <<valueTemperature, valorActual, luzera, hondatuta, fitxategia,
                            irteera, gordeta>>

GrafikakSakatu ==
  /\ Bizirik /\ pc["edt"] = "lo"
  /\ grafikaPanelean' = TRUE
  /\ pc' = [pc EXCEPT !["edt"] = "mostrarGrafikak"]
  /\ EdtUnchanged /\ UNCHANGED <<leihoa, mapara>>

MapaSakatu ==
  /\ Bizirik /\ pc["edt"] = "lo"
  /\ grafikaPanelean' = FALSE
  /\ mapara' = TRUE
  /\ EdtUnchanged /\ UNCHANGED <<pc, leihoa>>

\* Mutant: every point is shown at first.
MutGrafikoaOsoa(totalPuntos) ==
  /\ Bizirik /\ pc["edt"] = "lo"
  /\ totalPuntos >= Ikusgai
  /\ leihoa' = [guztira |-> totalPuntos, ikusgai |-> totalPuntos]
  /\ EdtUnchanged /\ UNCHANGED <<grafikaPanelean, pc, mapara>>

\* The lines of a day are found if its text is the one guardarValorEnArchivo wrote,
\* which has no zero before a single digit.  None is told; fewer than Ikusgai make
\* the scroll bar's constructor throw, and nothing is shown.
generarGraficoPorFecha(totalPuntos) ==
  /\ Bizirik /\ pc["edt"] = "lo"
  /\ totalPuntos >= Ikusgai
  /\ leihoa' = [guztira |-> totalPuntos, ikusgai |-> Ikusgai]
  /\ EdtUnchanged /\ UNCHANGED <<grafikaPanelean, pc, mapara>>

\* The scroll bar keeps value + extent within its maximum.
Korritu(startIndex) ==
  /\ Bizirik /\ pc["edt"] = "lo" /\ leihoa # Leihorik
  /\ startIndex + Ikusgai <= leihoa.guztira
  /\ leihoa' = [leihoa EXCEPT !.ikusgai = IF startIndex + Ikusgai < leihoa.guztira
                                            THEN Ikusgai ELSE leihoa.guztira - startIndex]
  /\ EdtUnchanged /\ UNCHANGED <<grafikaPanelean, pc, mapara>>

Irten ==
  /\ Bizirik /\ pc["edt"] = "lo"
  /\ irteera' = "irten"
  /\ UNCHANGED <<grafikaPanelean, valueTemperature, pc, valorActual, luzera, hondatuta,
                 fitxategia, leihoa, mezuVars>>
-----------------------------------------------------------------------------
Next ==
  \/ \E balioa \in [gaia : Gaiak, zero : BOOLEAN] : messageArrived(balioa)
  \/ propertyChange \/ CallbackPantallaAldatu
  \/ \E t \in Hariak : \/ mostrarGrafikak(t) \/ Tamaina(t) \/ actualizarHistorial(t)
                       \/ Salbuespena(t) \/ guardarValorEnArchivo(t)
  \/ GrafikakSakatu \/ MapaSakatu \/ Irten
  \/ generarGraficoPorFecha(fitxategia)
  \/ \E startIndex \in 0..MaxLerro : Korritu(startIndex)

Spec == Init /\ [][Next]_vars
-----------------------------------------------------------------------------
TypeOK ==
  /\ grafikaPanelean \in BOOLEAN
  /\ valueTemperature \in Balioak
  /\ pc \in [Hariak -> {"lo", "propertyChange", "pantallaAldatu", "mostrarGrafikak",
                        "tamaina", "poll", "offer", "serie", "gorde"}]
  /\ valorActual \in [Hariak -> Balioak]
  /\ luzera \in Nat /\ hondatuta \in BOOLEAN
  /\ fitxategia \in 0..MaxLerro
  /\ leihoa \in [guztira : 0..MaxLerro, ikusgai : 0..Ikusgai]
  /\ irteera \in {"ez", "salbuespena", "irten"}
  /\ gordeta \in BOOLEAN /\ mapara \in BOOLEAN

\* While the list is sound it holds at most one value more than the code means it
\* to: both threads can pass the size test of line 231 before either has offered,
\* and however often they do, it grows no further.
HistoriaMuga == ~hondatuta => luzera <= Muga + 1

\* What the callback thread records is a gas value, although the field it takes it
\* from is written for both topics.  (The EDT has no such luck: a click on Grafikak
\* records the 1 of a people message.)
GasaGordetzen ==
  pc["cb"] \in ZerrendaLana \cup {"tamaina", "gorde"} => valorActual["cb"].gaia = "gas"

\* The callback thread is done with a gas message only when the value has been
\* through the history, unless the operator has gone to the map meanwhile.
GalduGabe ==
  [][pc["cb"] # "lo" /\ pc'["cb"] = "lo" /\ Bizirik' => gordeta' \/ mapara']_vars
=============================================================================
