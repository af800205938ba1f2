------------------------------- MODULE Plaka -------------------------------
(***************************************************************************)
(* The board's application threads: GasHaria and InfragorriHaria           *)
(* (app_threadx.c), which sample the sensors into two ThreadX queues and   *)
(* drive two LEDs, and the MQTT thread (app_netxduo.c), which publishes    *)
(* what the queues hold and drives the alarm LED from the messages it      *)
(* receives.  The three LEDs are bits of one register, GPIOB->ODR.         *)
(*                                                                         *)
(* Scheduling.  The MQTT thread has priority 5, InfragorriHaria 14 and     *)
(* GasHaria 15.  tx_user.h defines TX_DISABLE_PREEMPTION_THRESHOLD and     *)
(* GasHaria is created with a threshold (13) other than its priority, so   *)
(* tx_thread_create gives it threshold 0: nothing preempts it and one      *)
(* iteration of its loop is one step.  It runs only while InfragorriHaria  *)
(* sleeps.  InfragorriHaria is preempted by the MQTT thread between any    *)
(* two accesses to shared memory.  The MQTT thread preempts both and is    *)
(* cut only where it may block: a publish, the client's mutex, its sleep.  *)
(***************************************************************************)
EXTENDS Integers, Sequences

CONSTANTS AdcBalioak,      \* what the converter can deliver
          KolaLuzera,      \* messages a ThreadX queue holds (256 in the code)
          PostontziLuzera  \* received messages the packet pool has room for

ASSUME AdcHamabiBit == AdcBalioak \subseteq 0..4095 /\ AdcBalioak # {}
ASSUME KolakTokia   == KolaLuzera \in Nat \ {0} /\ PostontziLuzera \in Nat \ {0}

Ledak     == {"GORRIA", "URDINA", "BERDEA"}
PirBalioak == {0, 1}
Gaiak     == {"gas", "infragorri"}
Aginduak  == {"0", "1"}     \* what the dashboard publishes on "alarma"
Hutsa     == -1             \* no reading yet

VARIABLES
  egoeraGas, adc,                       \* GasHaria and the ADC1 registers
  egoeraInfragorri, pir_value,          \* InfragorriHaria
  infraPc, kopia,                       \* where it is, the ODR value it loaded
  odr,                                  \* GPIOB->ODR, the three LED bits
  QueueGas, QueueInfrarojo,
  mqttPc, message,                      \* the MQTT thread and its buffer
  konektatuta,                          \* the MQTT connection is usable
  postontzia,                           \* the client's received messages
  argitaratua,                          \* published last: a topic and a reading
  agindua, galdua                       \* last alarm command obeyed; whether a
                                        \* stale ODR store has undone it

gasVars   == <<egoeraGas, adc>>
infraVars == <<egoeraInfragorri, pir_value, infraPc, kopia>>
mqttVars  == <<mqttPc, message, konektatuta, postontzia, argitaratua>>
vars == <<gasVars, infraVars, odr, QueueGas, QueueInfrarojo, mqttVars, agindua, galdua>>

ledakItzalita == [l \in Ledak |-> FALSE]

\* gpio_Piztu and gpio_Itzali: one bit of a register value.
ledaPiztu(r, l)  == [r EXCEPT ![l] = TRUE]
MutItzaliOsagarririkGabe(r, l) == [k \in Ledak |-> r[k] /\ k = l]
ledaItzali(r, l) == [r EXCEPT ![l] = FALSE]

\* The converter's registers: SWSTART, EOC, and a read of DR, which clears EOC.
adcHasieratu         == [eoc |-> FALSE, bihurtzen |-> FALSE, dr |-> 0]
startConversion(a)   == [a EXCEPT !.bihurtzen = TRUE]
amaieraKonprobatu(a) == a.eoc
adcIrakurri(a)       == [a EXCEPT !.eoc = FALSE]

\* Millivolts; the division truncates.
adc_to_voltage(a) == (a * 3300) \div 4096
GasMezuak == {adc_to_voltage(a) : a \in AdcBalioak \ {0}}

\* tx_queue_send with TX_NO_WAIT: a full queue refuses the message and the
\* caller, which ignores the status, loses it.
MutBidaliBatGehiago(q, m) == IF Len(q) <= KolaLuzera THEN Append(q, m) ELSE q
MutBidaliAurretik(q, m) == IF Len(q) < KolaLuzera THEN <<m>> \o q ELSE q
tx_queue_send(q, m) == IF Len(q) < KolaLuzera THEN Append(q, m) ELSE q

Init ==
  /\ egoeraGas = "HASIERATU" /\ egoeraInfragorri = "HASIERATU"
  /\ adc = adcHasieratu
  /\ pir_value = 0
  /\ infraPc = "lo" /\ kopia = ledakItzalita
  /\ odr = ledakItzalita
  /\ QueueGas = << >> /\ QueueInfrarojo = << >>
  /\ mqttPc = "konektatu" /\ message = Hutsa
  /\ konektatuta = FALSE
  /\ postontzia = << >>
  /\ argitaratua = <<"gas", Hutsa>>
  /\ agindua = FALSE /\ galdua = FALSE
-----------------------------------------------------------------------------
(* The converter. *)

AdcAmaitutakoak == [eoc : {TRUE}, bihurtzen : {FALSE}, dr : AdcBalioak]

AdcAmaitu ==
  /\ adc.bihurtzen
  /\ adc' \in AdcAmaitutakoak
  /\ UNCHANGED <<egoeraGas, infraVars, odr, QueueGas, QueueInfrarojo, mqttVars, agindua, galdua>>

(* GasHaria: one iteration of its loop per action. *)

\* InfragorriHaria, when it is ready, goes first.
MutGasTxandaBeti == TRUE
GasTxanda == infraPc = "lo"

GasHasieratu ==
  /\ GasTxanda /\ egoeraGas = "HASIERATU"
  /\ egoeraGas' = "ITXARON"
  /\ UNCHANGED <<adc, infraVars, odr, QueueGas, QueueInfrarojo, mqttVars, agindua, galdua>>

\* Mutants: EOC is not polled; no conversion is started.
MutItxaronEocGabe ==
  /\ GasTxanda /\ egoeraGas = "ITXARON"
  /\ odr' = ledaItzali(odr, "GORRIA")
  /\ adc' = startConversion(adc)
  /\ egoeraGas' = "BIDALI"
  /\ UNCHANGED <<infraVars, QueueGas, QueueInfrarojo, mqttVars, agindua, galdua>>
MutItxaronHasiGabe ==
  /\ GasTxanda /\ egoeraGas = "ITXARON"
  /\ odr' = ledaItzali(odr, "GORRIA")
  /\ egoeraGas' = IF adc.eoc THEN "BIDALI" ELSE "ITXARON"
  /\ UNCHANGED <<adc, infraVars, QueueGas, QueueInfrarojo, mqttVars, agindua, galdua>>

\* startConversion, then amaieraKonprobatu: the conversion may end in between.
GasItxaron ==
  /\ GasTxanda /\ egoeraGas = "ITXARON"
  /\ odr' = ledaItzali(odr, "GORRIA")
  /\ adc' \in {startConversion(adc)} \cup AdcAmaitutakoak
  /\ egoeraGas' = IF amaieraKonprobatu(adc') THEN "BIDALI" ELSE "ITXARON"
  /\ UNCHANGED <<infraVars, QueueGas, QueueInfrarojo, mqttVars, agindua, galdua>>

GasBidali ==
  /\ GasTxanda /\ egoeraGas = "BIDALI"
  /\ adc' = adcIrakurri(adc)
  /\ QueueGas' = IF adc.dr > 0 THEN tx_queue_send(QueueGas, adc_to_voltage(adc.dr))
                               ELSE QueueGas
  /\ egoeraGas' = "ITXARON2"
  /\ odr' = ledaPiztu(odr, "GORRIA")
  /\ UNCHANGED <<infraVars, QueueInfrarojo, mqttVars, agindua, galdua>>

GasItxaron2 ==
  /\ GasTxanda /\ egoeraGas = "ITXARON2"
  /\ egoeraGas' = "ITXARON"
  /\ UNCHANGED <<adc, infraVars, odr, QueueGas, QueueInfrarojo, mqttVars, agindua, galdua>>

GasHaria == GasHasieratu \/ GasItxaron \/ GasBidali \/ GasItxaron2
-----------------------------------------------------------------------------
(* InfragorriHaria.  "ODR |= bit" is a load and a store: the MQTT thread    *)
(* can run between them.                                                    *)

InfraHasieratu ==
  /\ infraPc = "lo" /\ egoeraInfragorri = "HASIERATU"
  /\ egoeraInfragorri' = "ITXARON"
  /\ UNCHANGED <<gasVars, pir_value, infraPc, kopia, odr, QueueGas, QueueInfrarojo,
                 mqttVars, agindua, galdua>>

\* ITXARON: read the sensor, then begin ledaItzali(URDINA).
InfraItxaron ==
  /\ infraPc = "lo" /\ egoeraInfragorri = "ITXARON"
  /\ pir_value' \in PirBalioak
  /\ egoeraInfragorri' = "BIDALI"
  /\ kopia' = ledaItzali(odr, "URDINA")
  /\ infraPc' = "idatzi"
  /\ UNCHANGED <<gasVars, odr, QueueGas, QueueInfrarojo, mqttVars, agindua, galdua>>

InfraBidali ==
  /\ infraPc = "lo" /\ egoeraInfragorri = "BIDALI"
  /\ QueueInfrarojo' = tx_queue_send(QueueInfrarojo, pir_value)
  /\ infraPc' = "piztu"
  /\ UNCHANGED <<gasVars, egoeraInfragorri, pir_value, kopia, odr, QueueGas,
                 mqttVars, agindua, galdua>>

InfraLedaKargatu ==
  /\ infraPc = "piztu"
  /\ kopia' = ledaPiztu(odr, "URDINA")
  /\ egoeraInfragorri' = "ITXARON"
  /\ infraPc' = "idatzi"
  /\ UNCHANGED <<gasVars, pir_value, odr, QueueGas, QueueInfrarojo, mqttVars, agindua, galdua>>

InfraLedaIdatzi ==
  /\ infraPc = "idatzi"
  /\ odr' = kopia
  /\ galdua' = (galdua \/ kopia["BERDEA"] # odr["BERDEA"])
  /\ kopia' = ledakItzalita      \* the register is dead: keep one value of it
  /\ infraPc' = "lo"
  /\ UNCHANGED <<gasVars, egoeraInfragorri, pir_value, QueueGas, QueueInfrarojo,
                 mqttVars, agindua>>

InfragorriHaria ==
  InfraHasieratu \/ InfraItxaron \/ InfraBidali \/ InfraLedaKargatu \/ InfraLedaIdatzi
-----------------------------------------------------------------------------
(* App_MQTT_Client_Thread_Entry and mezua_Jaso. *)

sentsoreVars == <<gasVars, infraVars>>

\* nxd_mqtt_client_connect waits for ever, then succeeds or fails for good.
MqttKonektatu ==
  /\ mqttPc = "konektatu"
  /\ \/ konektatuta' = TRUE /\ mqttPc' = "harpidetu"
     \/ mqttPc' = "errorea" /\ UNCHANGED konektatuta
  /\ UNCHANGED <<sentsoreVars, odr, QueueGas, QueueInfrarojo, message, postontzia,
                 argitaratua, agindua, galdua>>

MqttHarpidetu ==
  /\ mqttPc = "harpidetu"
  /\ mqttPc' = IF konektatuta THEN "gas" ELSE "errorea"
  /\ UNCHANGED <<sentsoreVars, odr, QueueGas, QueueInfrarojo, message, konektatuta,
                 postontzia, argitaratua, agindua, galdua>>

\* tx_queue_receive with TX_NO_WAIT copies four words over a one-word local and
\* its neighbours.  The neighbours are dead there, and snprintf formats the
\* received word before the thread can block: only the buffer's value matters.
MqttGasJaso ==
  /\ mqttPc = "gas"
  /\ \/ /\ QueueGas # << >>
        /\ message' = Head(QueueGas) /\ QueueGas' = Tail(QueueGas)
        /\ mqttPc' = "gasBidali"
     \/ /\ QueueGas = << >>
        /\ mqttPc' = "infra"
        /\ UNCHANGED <<QueueGas, message>>
  /\ UNCHANGED <<sentsoreVars, odr, QueueInfrarojo, konektatuta, postontzia,
                 argitaratua, agindua, galdua>>

\* nxd_mqtt_client_publish fails only without a connection: every allocation in
\* it waits for ever.  A failure ends in Error_Handler, which never returns.
MqttGasBidali ==
  /\ mqttPc = "gasBidali"
  /\ \/ konektatuta /\ argitaratua' = <<"gas", message>> /\ mqttPc' = "infra"
     \/ ~konektatuta /\ mqttPc' = "errorea" /\ UNCHANGED argitaratua
  /\ message' = Hutsa           \* the buffer is dead: keep one value of it
  /\ UNCHANGED <<sentsoreVars, odr, QueueGas, QueueInfrarojo, konektatuta,
                 postontzia, agindua, galdua>>

MqttInfraJaso ==
  /\ mqttPc = "infra"
  /\ \/ /\ QueueInfrarojo # << >>
        /\ message' = Head(QueueInfrarojo) /\ QueueInfrarojo' = Tail(QueueInfrarojo)
        /\ mqttPc' = "infraBidali"
     \/ /\ QueueInfrarojo = << >>
        /\ mqttPc' = "jaso"
        /\ UNCHANGED <<QueueInfrarojo, message>>
  /\ UNCHANGED <<sentsoreVars, odr, QueueGas, konektatuta, postontzia,
                 argitaratua, agindua, galdua>>

\* Mutants: the queue is emptied before the thread goes on; a publish begins the
\* loop again.
MutInfraBidaliHustu ==
  /\ mqttPc = "infraBidali"
  /\ \/ konektatuta /\ argitaratua' = <<"infragorri", message>> /\ mqttPc' = "infra"
     \/ ~konektatuta /\ mqttPc' = "errorea" /\ UNCHANGED argitaratua
  /\ message' = Hutsa
  /\ UNCHANGED <<sentsoreVars, odr, QueueGas, QueueInfrarojo, konektatuta,
                 postontzia, agindua, galdua>>
MutInfraBidaliJarraitu ==
  /\ mqttPc = "infraBidali"
  /\ \/ konektatuta /\ argitaratua' = <<"infragorri", message>> /\ mqttPc' = "gas"
     \/ ~konektatuta /\ mqttPc' = "errorea" /\ UNCHANGED argitaratua
  /\ message' = Hutsa
  /\ UNCHANGED <<sentsoreVars, odr, QueueGas, QueueInfrarojo, konektatuta,
                 postontzia, agindua, galdua>>

MqttInfraBidali ==
  /\ mqttPc = "infraBidali"
  /\ \/ konektatuta /\ argitaratua' = <<"infragorri", message>> /\ mqttPc' = "jaso"
     \/ ~konektatuta /\ mqttPc' = "errorea" /\ UNCHANGED argitaratua
  /\ message' = Hutsa
  /\ UNCHANGED <<sentsoreVars, odr, QueueGas, QueueInfrarojo, konektatuta,
                 postontzia, agindua, galdua>>

\* At most one message per iteration; then the thread sleeps.
mezua_Jaso ==
  /\ mqttPc = "jaso"
  /\ mqttPc' = "gas"
  /\ \/ /\ postontzia # << >>
        /\ postontzia' = Tail(postontzia)
        /\ agindua' = (Head(postontzia) = "1")
        /\ odr' = IF Head(postontzia) = "1" THEN ledaPiztu(odr, "BERDEA")
                                            ELSE ledaItzali(odr, "BERDEA")
        /\ galdua' = FALSE
     \/ /\ postontzia = << >>
        /\ UNCHANGED <<postontzia, agindua, odr, galdua>>
  /\ UNCHANGED <<sentsoreVars, QueueGas, QueueInfrarojo, message, konektatuta,
                 argitaratua>>

MqttHaria == \/ MqttKonektatu \/ MqttHarpidetu
             \/ MqttGasJaso \/ MqttGasBidali
             \/ MqttInfraJaso \/ MqttInfraBidali
             \/ mezua_Jaso
-----------------------------------------------------------------------------
(* The MQTT client's own thread and the network. *)

Harpidetuta == mqttPc \notin {"konektatu", "harpidetu"}

\* A message that finds no packet to hold it is dropped: a stuttering step.
AginduaIritsi(m) ==
  /\ konektatuta /\ Harpidetuta
  /\ Len(postontzia) < PostontziLuzera
  /\ postontzia' = Append(postontzia, m)
  /\ UNCHANGED <<sentsoreVars, odr, QueueGas, QueueInfrarojo, mqttPc, message,
                 konektatuta, argitaratua, agindua, galdua>>

\* Nothing in the board connects again: my_disconnect_func only prints.
KonexioaGaldu ==
  /\ konektatuta
  /\ konektatuta' = FALSE
  /\ UNCHANGED <<sentsoreVars, odr, QueueGas, QueueInfrarojo, mqttPc, message,
                 postontzia, argitaratua, agindua, galdua>>

Ingurunea == KonexioaGaldu \/ \E m \in Aginduak : AginduaIritsi(m)

Next == AdcAmaitu \/ GasHaria \/ InfragorriHaria \/ MqttHaria \/ Ingurunea

\* Every thread sleeps in every iteration, so the lower ones get the processor;
\* a publish that cannot go on ends when TCP gives the connection up.  GasHaria
\* is enabled only between two iterations of InfragorriHaria, 10 ticks apart,
\* so it needs strong fairness.
MqttBidezkoa     == WF_vars(MqttHaria)
SentsoreBidezkoa == WF_vars(AdcAmaitu) /\ SF_vars(GasHaria) /\ WF_vars(InfragorriHaria)

Spec     == Init /\ [][Next]_vars
FairSpec == Spec /\ MqttBidezkoa /\ SentsoreBidezkoa
-----------------------------------------------------------------------------
GasMota ==
  /\ egoeraGas \in {"HASIERATU", "ITXARON", "BIDALI", "ITXARON2"}
  /\ adc \in [eoc : BOOLEAN, bihurtzen : BOOLEAN, dr : AdcBalioak \cup {0}]
InfraMota ==
  /\ egoeraInfragorri \in {"HASIERATU", "ITXARON", "BIDALI"}
  /\ pir_value \in PirBalioak
  /\ infraPc \in {"lo", "piztu", "idatzi"}
LedMota ==
  /\ kopia \in [Ledak -> BOOLEAN]
  /\ odr \in [Ledak -> BOOLEAN]
  /\ agindua \in BOOLEAN /\ galdua \in BOOLEAN
KolaMota ==
  /\ QueueGas \in Seq(GasMezuak) /\ Len(QueueGas) <= KolaLuzera
  /\ QueueInfrarojo \in Seq(PirBalioak) /\ Len(QueueInfrarojo) <= KolaLuzera
  /\ postontzia \in Seq(Aginduak) /\ Len(postontzia) <= PostontziLuzera
MqttMota ==
  /\ mqttPc \in {"konektatu", "harpidetu", "gas", "gasBidali", "infra",
                 "infraBidali", "jaso", "errorea"}
  /\ mqttPc = "gasBidali" => message \in GasMezuak
  /\ mqttPc = "infraBidali" => message \in PirBalioak
  /\ konektatuta \in BOOLEAN
  /\ argitaratua \in ({"gas"} \X (GasMezuak \cup {Hutsa}))
                       \cup ({"infragorri"} \X PirBalioak)

\* Types, the limits of the queues and of the message box, and which kind of
\* reading is in hand or was published on each topic.
TypeOK == GasMota /\ InfraMota /\ LedMota /\ KolaMota /\ MqttMota
-----------------------------------------------------------------------------
\* A reading is sent only from a conversion that ended after the previous
\* reading was taken (ITXARON polls EOC, BIDALI's read of DR clears it): the
\* board never sends one conversion twice, nor a register never converted into.
IrakurketaBerria == egoeraGas = "BIDALI" => adc.eoc

\* InfragorriHaria's stores to ODR never undo the red LED that GasHaria drives:
\* it is lit from BIDALI until ITXARON and dark while a conversion is awaited.
GorriaBatDator == /\ egoeraGas = "ITXARON2" => odr["GORRIA"]
                  /\ egoeraGas \in {"HASIERATU", "BIDALI"} => ~odr["GORRIA"]

\* The alarm LED shows the last command mezua_Jaso obeyed, unless that command
\* fell between the load and the store of one of InfragorriHaria's updates of
\* ODR.  Nothing else on the board, in any interleaving, turns the LED.
AlarmaLeda == odr["BERDEA"] # agindua => galdua

\* An alarm command that was received and obeyed stays obeyed until the next
\* one: what the README's "trigger evacuation alarms" needs of the board.
AlarmaMantendu == odr["BERDEA"] = agindua

\* Each queue and the MQTT thread behind it publish the accepted readings in
\* order, each at most once, and lose at most the one in hand when the
\* connection does (tx_queue_send .. nxd_mqtt_client_publish).
GasZain   == (IF mqttPc = "gasBidali" THEN <<message>> ELSE << >>) \o QueueGas
InfraZain == (IF mqttPc = "infraBidali" THEN <<message>> ELSE << >>) \o QueueInfrarojo
Zain      == [g \in Gaiak |-> IF g = "gas" THEN GasZain ELSE InfraZain]
GaiBalioak == [g \in Gaiak |-> IF g = "gas" THEN GasMezuak ELSE PirBalioak]

T == INSTANCE Telemetria WITH
       Balioak <- GaiBalioak, Ahalmena <- KolaLuzera + 1, Hasierakoa <- <<"gas", Hutsa>>,
       zain <- Zain, bizirik <- mqttPc # "errorea"
Telemetriakoa == T!Spec

\* The ADC handshake never wedges: a conversion awaited is a reading taken.
GasLagintzen == egoeraGas = "ITXARON" ~> egoeraGas = "BIDALI"

\* The other queue and the alarm messages cannot starve a waiting reading: it
\* reaches a publish, unless the MQTT thread is in Error_Handler.
IrakurketenIrteera ==
  /\ QueueGas # << >> ~> mqttPc \in {"gasBidali", "errorea"}
  /\ QueueInfrarojo # << >> ~> mqttPc \in {"infraBidali", "errorea"}

\* Nor can the readings starve an alarm: a command to light the LED that is
\* first in the box lights it, unless the MQTT thread is in Error_Handler.
AlarmaPiztu == (postontzia # << >> /\ Head(postontzia) = "1")
                 ~> (odr["BERDEA"] \/ mqttPc = "errorea")
=============================================================================
