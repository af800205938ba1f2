------------------------------ MODULE LabMapa ------------------------------
(***************************************************************************)
(* The dashboard's alarm path for one laboratory: the gas messages that    *)
(* LaborategiaPanela.propertyChange handles on the MQTT callback thread,   *)
(* the views the operator switches between, and LabObjektuak, the map,     *)
(* whose Timer blinks the background and publishes the alarm on the Swing  *)
(* event thread (EDT).  Every visit to the map makes a new LabObjektuak;   *)
(* the old ones keep their Timer, their gas value and their piztuta flag.  *)
(*                                                                         *)
(* The two threads share grafikaPanelean, laborategikoObjektuak, the panel *)
(* and the map's fields without synchronisation: a step is one access to   *)
(* them.  Messages go to the map in the field, the buttons of a map in the *)
(* panel act on that map, and nothing keeps the two the same.              *)
(***************************************************************************)
EXTENDS Naturals

CONSTANTS GasBalioak,   \* gas values (mV) that can arrive
          MaxMapa       \* bound: how many LabObjektuak are made

ASSUME MapaMugak == GasBalioak \subseteq Nat /\ MaxMapa \in Nat \ {0}

Mapak == 1..MaxMapa
Hariak == {"callback", "edt"}

VARIABLES
  grafikaPanelean,         \* the chart view is selected
  uneko,                   \* laborategikoObjektuak: the newest map, 0 = null
  ikusgai,                 \* the maps that are in the panel
  mapa,                    \* the fields of every LabObjektuak
  pc, lantzen,             \* where each thread is, and on which map
  alarma,                  \* last command published on "alarma"
  zintzilik,               \* a publisher was left connected
  irteera,                 \* why the process has ended, if it has
  azkenGasa                \* history: the gas value that arrived last

panelVars == <<grafikaPanelean, uneko, ikusgai>>
hariVars == <<pc, lantzen>>
mqttVars == <<alarma, zintzilik>>
vars == <<panelVars, mapa, hariVars, mqttVars, irteera, azkenGasa>>

MapaBerria == [balioGasa |-> 0, piztuta |-> FALSE,
               timer |-> "null",        \* the field: null, a new or a running Timer
               umezurtz |-> FALSE]      \* a running Timer no field refers to

Init == /\ grafikaPanelean = TRUE /\ uneko = 0 /\ ikusgai = {}
        /\ mapa = [i \in Mapak |-> MapaBerria]
        /\ pc = [h \in Hariak |-> "lo"] /\ lantzen = [h \in Hariak |-> 0]
        /\ alarma = "ezer" /\ zintzilik = FALSE
        /\ irteera = "ez"
        /\ azkenGasa = 0

Bizirik == irteera = "ez"

\* Thread h goes from one place in its code to another, on map m (0: on none).
Joan(h, nondik, nora, m) ==
  /\ Bizirik /\ pc[h] = nondik
  /\ pc' = [pc EXCEPT ![h] = nora]
  /\ lantzen' = [lantzen EXCEPT ![h] = m]
-----------------------------------------------------------------------------
(* pantallaAldatu(grafika), which both threads run. *)

Garbiketa(grafika) == IF grafika THEN "garbituGrafikak" ELSE "garbituMapa"

\* removeAll takes whatever the panel shows out of it, then the charts are added.
GrafikakErakutsi(h) ==
  /\ Joan(h, "garbituGrafikak", "lo", 0)
  /\ ikusgai' = {}
  /\ UNCHANGED <<grafikaPanelean, uneko, mapa, mqttVars, irteera, azkenGasa>>

PanelaGarbitu(h) ==
  /\ Joan(h, "garbituMapa", "mostrarMapa", 0)
  /\ ikusgai' = {}
  /\ UNCHANGED <<grafikaPanelean, uneko, mapa, mqttVars, irteera, azkenGasa>>

\* Mutant: the map of the last visit is taken up again.
MutMostrarMapaBerrerabili(h) ==
  /\ Joan(h, "mostrarMapa", "itzuli", 0)
  /\ UNCHANGED <<panelVars, mapa, mqttVars, irteera, azkenGasa>>

\* mostrarMapa stores a new map in the field ...
mostrarMapa(h) ==
  /\ Joan(h, "mostrarMapa", "itzuli", 0)
  /\ uneko' = uneko + 1
  /\ UNCHANGED <<grafikaPanelean, ikusgai, mapa, mqttVars, irteera, azkenGasa>>

\* ... and returns what the field then holds ...
MapaItzuli(h) ==
  /\ Joan(h, "itzuli", "erakutsi", uneko)
  /\ UNCHANGED <<panelVars, mapa, mqttVars, irteera, azkenGasa>>

\* ... which is added to the panel, beside what the other thread may have added.
MapaErakutsi(h) ==
  /\ Joan(h, "erakutsi", "lo", 0)
  /\ ikusgai' = ikusgai \cup {lantzen[h]}
  /\ UNCHANGED <<grafikaPanelean, uneko, mapa, mqttVars, irteera, azkenGasa>>

PantallaAldatu(h) == \/ GrafikakErakutsi(h) \/ PanelaGarbitu(h)
                     \/ mostrarMapa(h) \/ MapaItzuli(h) \/ MapaErakutsi(h)
-----------------------------------------------------------------------------
(* The callback thread: messageArrived, propertyChange, setBalioGasa. *)

\* propertyChange, with azkenGasa its parameter.
GasaIritsi(b) ==
  /\ Joan("callback", "lo", IF grafikaPanelean THEN "pantallaAldatu" ELSE "setBalioGasa", 0)
  /\ azkenGasa' = b
  /\ UNCHANGED <<panelVars, mapa, mqttVars, irteera>>

\* Mutant: a map is built whatever the view.
MutCallbackMapaBeti ==
  /\ Joan("callback", "pantallaAldatu", Garbiketa(FALSE), 0)
  /\ UNCHANGED <<panelVars, mapa, mqttVars, irteera, azkenGasa>>

\* The argument of pantallaAldatu is read anew: unless the operator has chosen the
\* map in between, the charts are built and no map hears of the value.
CallbackPantallaAldatu ==
  /\ Joan("callback", "pantallaAldatu", Garbiketa(grafikaPanelean), 0)
  /\ UNCHANGED <<panelVars, mapa, mqttVars, irteera, azkenGasa>>

\* Before mostrarMapa has stored the first map the field is null: the exception
\* leaves messageArrived, Paho closes the connection and connectionLost exits.
SetBalioGasa ==
  /\ \/ /\ uneko = 0
        /\ Joan("callback", "setBalioGasa", "lo", 0)
        /\ irteera' = "NullPointerException"
        /\ UNCHANGED mapa
     \/ /\ uneko # 0
        /\ mapa' = [mapa EXCEPT ![uneko].balioGasa = azkenGasa]
        /\ IF azkenGasa >= 1000
             THEN Joan("callback", "setBalioGasa", "startFondoAldaketa", uneko)
             ELSE Joan("callback", "setBalioGasa", "lo", 0)
        /\ UNCHANGED irteera
  /\ UNCHANGED <<panelVars, mqttVars, azkenGasa>>

\* startFondoAldaketa: test the field and, if it is null, store a new Timer ...
TimerSortu ==
  LET m == lantzen["callback"] IN
  /\ \/ /\ Joan("callback", "startFondoAldaketa", "timerStart", m)
        /\ mapa[m].timer = "null"
        /\ mapa' = [mapa EXCEPT ![m].timer = "berria"]
     \/ /\ Joan("callback", "startFondoAldaketa", "lo", 0)
        /\ mapa[m].timer # "null"
        /\ UNCHANGED mapa
  /\ UNCHANGED <<panelVars, mqttVars, irteera, azkenGasa>>

\* ... then read the field again to start it: the EDT may have cleared it.
TimerAbiatu ==
  LET m == lantzen["callback"] IN
  /\ Joan("callback", "timerStart", "lo", 0)
  /\ \/ /\ mapa[m].timer = "null"
        /\ irteera' = "NullPointerException"
        /\ UNCHANGED mapa
     \/ /\ mapa[m].timer # "null"
        /\ mapa' = [mapa EXCEPT ![m].timer = "martxan"]
        /\ UNCHANGED irteera
  /\ UNCHANGED <<panelVars, mqttVars, azkenGasa>>

Callback == \/ \E b \in GasBalioak : GasaIritsi(b)
            \/ CallbackPantallaAldatu \/ PantallaAldatu("callback")
            \/ SetBalioGasa \/ TimerSortu \/ TimerAbiatu
-----------------------------------------------------------------------------
(* The EDT: the view actions. *)

\* The map that the callback thread may yet build, caught between its two reads.
CallbackarenMapa ==
  IF pc["callback"] \in {"pantallaAldatu", "garbituMapa", "mostrarMapa"} THEN 1 ELSE 0

\* A click on Mapa, as long as there is room for its map.
MapaSakatu ==
  /\ uneko + CallbackarenMapa < MaxMapa
  /\ Joan("edt", "lo", Garbiketa(FALSE), 0)
  /\ grafikaPanelean' = FALSE
  /\ UNCHANGED <<uneko, ikusgai, mapa, mqttVars, irteera, azkenGasa>>

GrafikakSakatu ==
  /\ Joan("edt", "lo", Garbiketa(TRUE), 0)
  /\ grafikaPanelean' = TRUE
  /\ UNCHANGED <<uneko, ikusgai, mapa, mqttVars, irteera, azkenGasa>>
-----------------------------------------------------------------------------
(* The EDT: LabObjektuak.actionPerformed. *)

\* new MqttPublish; publish; disconnect.  It is done; or no client is left behind
\* that can do harm; or a later call fails, which leaves the client connected and
\* the command sent or not.  All publishers share one client id: a new one makes
\* the broker drop the one left connected, whose connectionLost exits.
ArgitaratuOndo(agindua) ==
  /\ \/ ~zintzilik /\ alarma' = agindua /\ UNCHANGED irteera
     \/ zintzilik /\ alarma' \in {alarma, agindua} /\ irteera' = "connectionLost"
  /\ UNCHANGED zintzilik
ArgitaratuHuts(agindua) ==
  /\ \/ UNCHANGED mqttVars
     \/ zintzilik' = TRUE /\ alarma' \in {alarma, agindua}
  /\ UNCHANGED irteera

\* The buttons are the shown map's own, whatever view is selected and whichever map
\* the messages go to.
AlarmaOn(m) ==
  /\ m \in ikusgai
  /\ Joan("edt", "lo", "fondoa", m)
  /\ ArgitaratuOndo("1") \/ ArgitaratuHuts("1")
  /\ UNCHANGED <<panelVars, mapa, azkenGasa>>

\* Mutant: piztuta is not reset.
MutAlarmaOffPiztuta(m) ==
  /\ m \in ikusgai
  /\ Joan("edt", "lo", "fondoa", m)
  /\ ArgitaratuOndo("0") \/ ArgitaratuHuts("0")
  /\ UNCHANGED <<panelVars, mapa, azkenGasa>>

AlarmaOff(m) ==
  /\ m \in ikusgai
  /\ Joan("edt", "lo", "fondoa", m)
  /\ mapa' = [mapa EXCEPT ![m].piztuta = FALSE]
  /\ ArgitaratuOndo("0") \/ ArgitaratuHuts("0")
  /\ UNCHANGED <<panelVars, azkenGasa>>

\* A running Timer fires, on a map shown or on one left behind.
TimerTick(m) ==
  /\ mapa[m].timer = "martxan" \/ mapa[m].umezurtz
  /\ Joan("edt", "lo", "fondoa", m)
  /\ UNCHANGED <<panelVars, mapa, mqttVars, irteera, azkenGasa>>

\* Below 3000 the Timer, if there is one, is ...
FondoaZuritu ==
  LET m == lantzen["edt"] IN
  /\ Joan("edt", "fondoa", "stopFondoAldaketa", m)
  /\ mapa[m].balioGasa < 3000
  /\ UNCHANGED <<panelVars, mapa, mqttVars, irteera, azkenGasa>>

\* ... stopped ...
TimerGelditu ==
  LET m == lantzen["edt"] IN
  /\ \/ /\ Joan("edt", "stopFondoAldaketa", "lo", 0)
        /\ mapa[m].timer = "null"
        /\ UNCHANGED mapa
     \/ /\ Joan("edt", "stopFondoAldaketa", "timerNull", m)
        /\ mapa[m].timer # "null"
        /\ mapa' = [mapa EXCEPT ![m].timer = "berria"]
  /\ UNCHANGED <<panelVars, mqttVars, irteera, azkenGasa>>

\* ... and its field cleared, whatever the callback thread did with it since.
TimerNull ==
  LET m == lantzen["edt"] IN
  /\ Joan("edt", "timerNull", "lo", 0)
  /\ mapa' = [mapa EXCEPT ![m].timer = "null",
                          ![m].umezurtz = @ \/ mapa[m].timer = "martxan"]
  /\ UNCHANGED <<panelVars, mqttVars, irteera, azkenGasa>>

\* Mutant: piztuta is set before the publish, which may fail.
MutFondoaPiztutaLehenago(ondo) ==
  LET m == lantzen["edt"] IN
  /\ Joan("edt", "fondoa", "lo", 0)
  /\ mapa[m].balioGasa >= 3000
  /\ \/ /\ mapa[m].piztuta
        /\ ondo
        /\ UNCHANGED <<mqttVars, irteera>>
     \/ /\ ~mapa[m].piztuta
        /\ IF ondo THEN ArgitaratuOndo("1") ELSE ArgitaratuHuts("1")
  /\ mapa' = [mapa EXCEPT ![m].piztuta = TRUE]
  /\ UNCHANGED <<panelVars, azkenGasa>>

\* From 3000 on the background blinks and the alarm is published once.
FondoaAldatu(ondo) ==
  LET m == lantzen["edt"] IN
  /\ Joan("edt", "fondoa", "lo", 0)
  /\ mapa[m].balioGasa >= 3000
  /\ \/ /\ mapa[m].piztuta
        /\ ondo
        /\ UNCHANGED <<mqttVars, irteera>>
     \/ /\ ~mapa[m].piztuta
        /\ IF ondo THEN ArgitaratuOndo("1") ELSE ArgitaratuHuts("1")
  /\ mapa' = [mapa EXCEPT ![m].piztuta = ondo]
  /\ UNCHANGED <<panelVars, azkenGasa>>

Botoiak == \E m \in Mapak : AlarmaOn(m) \/ AlarmaOff(m)
Tick == \E m \in Mapak : TimerTick(m)
Fondoa == \/ FondoaZuritu \/ TimerGelditu \/ TimerNull
          \/ \E ondo \in BOOLEAN : FondoaAldatu(ondo)
Eragilea == MapaSakatu \/ GrafikakSakatu \/ Botoiak

Next == Callback \/ Eragilea \/ PantallaAldatu("edt") \/ Tick \/ Fondoa

Spec == Init /\ [][Next]_vars

\* The board keeps publishing, and both threads run on.  The operator's clicks
\* come between ticks and a publish may fail, but no map's every time.
Bidezkoa == /\ WF_vars(Callback)
            /\ WF_vars(PantallaAldatu("edt")) /\ WF_vars(Fondoa)
            /\ \A m \in Mapak : /\ SF_vars(TimerTick(m))
                               /\ SF_vars(lantzen["edt"] = m /\ FondoaAldatu(TRUE))

FairSpec == Spec /\ Bidezkoa
-----------------------------------------------------------------------------
MapaMota == [balioGasa : GasBalioak \cup {0}, piztuta : BOOLEAN,
             timer : {"null", "berria", "martxan"}, umezurtz : BOOLEAN]

Lekuak == {"lo", "garbituGrafikak", "garbituMapa", "mostrarMapa", "itzuli", "erakutsi"}
CallbackLekuak == {"pantallaAldatu", "setBalioGasa", "startFondoAldaketa", "timerStart"}
EdtLekuak == {"fondoa", "stopFondoAldaketa", "timerNull"}

TypeOK ==
  /\ grafikaPanelean \in BOOLEAN /\ uneko \in 0..MaxMapa /\ ikusgai \subseteq Mapak
  /\ mapa \in [Mapak -> MapaMota]
  /\ pc \in [Hariak -> Lekuak \cup CallbackLekuak \cup EdtLekuak]
  /\ lantzen \in [Hariak -> 0..MaxMapa]
  /\ alarma \in {"ezer", "0", "1"} /\ zintzilik \in BOOLEAN
  /\ irteera \in {"ez", "NullPointerException", "connectionLost"}
  /\ azkenGasa \in GasBalioak \cup {0}

\* The map that the messages go to believes that it has raised the alarm, which is
\* off: it will not raise it again.
Ahaztuta == Bizirik /\ uneko # 0 /\ mapa[uneko].piztuta /\ alarma # "1"

\* piztuta (LabObjektuak 153 and 181) comes to claim an alarm that is off in one way
\* only: a click on AlarmaOFF of a map that is still in the panel although the messages
\* already go to another one.  No failed publish, abandoned map or torn Timer does it.
AlarmaGogoratua ==
  [][Ahaztuta' /\ ~Ahaztuta => lantzen'["edt"] \in ikusgai \ {uneko}]_vars

\* Whichever way messages and clicks on the two views cross, the callback thread meets
\* a null map only while the very first one is being built.
MapaNullLeihoa ==
  Bizirik /\ pc["callback"] = "setBalioGasa" /\ uneko = 0
    => pc["edt"] \in {"garbituMapa", "mostrarMapa"}

\* While the gas stays at 3000 or more and the panel shows the map that the messages
\* go to, and no other, the alarm is on again and again: no interleaving of the two
\* threads, no failed publish and no click on AlarmaOFF silences it for good.
AlarmaEtengabe ==
  <>[](Bizirik /\ ~grafikaPanelean /\ ikusgai = {uneko} /\ azkenGasa >= 3000)
    => []<>(alarma = "1")
=============================================================================
