---------------------------- MODULE PlakaProofs ----------------------------
(***************************************************************************)
(* Proofs about Plaka for every set of converter values and every queue    *)
(* length.  The inductive invariant is TypeOK, the three safety invariants *)
(* and KopiaGorria: while InfragorriHaria holds a loaded copy of ODR, that *)
(* copy has the red LED's bit right, because GasHaria cannot run.          *)
(***************************************************************************)
EXTENDS Plaka, TLAPS

KopiaGorria == infraPc = "idatzi" => kopia["GORRIA"] = odr["GORRIA"]

Segurtasuna == IrakurketaBerria /\ GorriaBatDator /\ AlarmaLeda

IInv == TypeOK /\ KopiaGorria /\ Segurtasuna
-----------------------------------------------------------------------------
(* What the helpers do. *)

\* tx_queue_send keeps a queue within its length and its element type, and
\* either appends the message or, when the queue is full, changes nothing.
LEMMA BidaliMota ==
  ASSUME NEW S, NEW q \in Seq(S), NEW m \in S, Len(q) <= KolaLuzera
  PROVE  /\ tx_queue_send(q, m) \in Seq(S)
         /\ Len(tx_queue_send(q, m)) <= KolaLuzera
BY KolakTokia DEF tx_queue_send

\* A receive takes the first message and leaves a shorter queue of the same type.
LEMMA JasoMota ==
  ASSUME NEW S, NEW q \in Seq(S), q # << >>
  PROVE  /\ Head(q) \in S
         /\ Tail(q) \in Seq(S)
         /\ \A n \in Nat : Len(q) <= n => Len(Tail(q)) <= n
OBVIOUS

\* Setting or clearing one LED's bit of a register value keeps it one.
LEMMA LedenMota ==
  ASSUME NEW r \in [Ledak -> BOOLEAN], NEW l \in Ledak
  PROVE  /\ ledaPiztu(r, l) \in [Ledak -> BOOLEAN]
         /\ ledaItzali(r, l) \in [Ledak -> BOOLEAN]
BY DEF ledaPiztu, ledaItzali

LEMMA LedenIzenak == "GORRIA" \in Ledak /\ "URDINA" \in Ledak /\ "BERDEA" \in Ledak
BY DEF Ledak

LEMMA ItzalitaMota == ledakItzalita \in [Ledak -> BOOLEAN]
BY DEF ledakItzalita

\* adc_to_voltage: a 12-bit reading is at most 3299 mV, so below the 3300 mV
\* reference, and a reading of at least 3724 gives the 3000 mV of the alarm.
THEOREM TentsioMugak ==
  ASSUME NEW a \in 0..4095
  PROVE  /\ adc_to_voltage(a) \in 0..3299
         /\ adc_to_voltage(a) >= 3000 <=> a >= 3724
BY DEF adc_to_voltage
-----------------------------------------------------------------------------
(* Type correctness, one part of the state at a time: the actions that write *)
(* the part are cases, every other action leaves it unchanged.               *)

LEMMA HasieraMota == Init => TypeOK
<1> SUFFICES ASSUME Init PROVE TypeOK
  OBVIOUS
<1>1. GasMota
  BY DEF Init, GasMota, adcHasieratu
<1>2. InfraMota
  BY DEF Init, InfraMota, PirBalioak
<1>3. LedMota
  BY ItzalitaMota DEF Init, LedMota
<1>4. KolaMota
  BY KolakTokia DEF Init, KolaMota
<1>5. MqttMota
  BY DEF Init, MqttMota
<1> QED
  BY <1>1, <1>2, <1>3, <1>4, <1>5 DEF TypeOK

LEMMA GasMotaPausoa == TypeOK /\ [Next]_vars => GasMota'
<1> SUFFICES ASSUME TypeOK, [Next]_vars PROVE GasMota'
  OBVIOUS
<1>1. CASE AdcAmaitu
  BY <1>1 DEF AdcAmaitu, TypeOK, GasMota, AdcAmaitutakoak
<1>2. CASE GasHasieratu
  BY <1>2 DEF GasHasieratu, TypeOK, GasMota
<1>3. CASE GasItxaron
  BY <1>3 DEF GasItxaron, TypeOK, GasMota, AdcAmaitutakoak, startConversion, amaieraKonprobatu
<1>4. CASE GasBidali
  BY <1>4 DEF GasBidali, TypeOK, GasMota, adcIrakurri
<1>5. CASE GasItxaron2
  BY <1>5 DEF GasItxaron2, TypeOK, GasMota
<1>6. CASE UNCHANGED <<egoeraGas, adc>>
  BY <1>6 DEF TypeOK, GasMota
<1> QED
  BY <1>1, <1>2, <1>3, <1>4, <1>5, <1>6
  DEF Next, GasHaria, InfragorriHaria, MqttHaria, Ingurunea, vars, gasVars, infraVars,
      mqttVars, sentsoreVars,
      InfraHasieratu, InfraItxaron, InfraBidali, InfraLedaKargatu, InfraLedaIdatzi,
      MqttKonektatu, MqttHarpidetu, MqttGasJaso, MqttGasBidali, MqttInfraJaso,
      MqttInfraBidali, mezua_Jaso, AginduaIritsi, KonexioaGaldu

LEMMA InfraMotaPausoa == TypeOK /\ [Next]_vars => InfraMota'
<1> SUFFICES ASSUME TypeOK, [Next]_vars PROVE InfraMota'
  OBVIOUS
<1>1. CASE InfraHasieratu
  BY <1>1 DEF InfraHasieratu, TypeOK, InfraMota
<1>2. CASE InfraItxaron
  BY <1>2 DEF InfraItxaron, TypeOK, InfraMota
<1>3. CASE InfraBidali
  BY <1>3 DEF InfraBidali, TypeOK, InfraMota
<1>4. CASE InfraLedaKargatu
  BY <1>4 DEF InfraLedaKargatu, TypeOK, InfraMota
<1>5. CASE InfraLedaIdatzi
  BY <1>5 DEF InfraLedaIdatzi, TypeOK, InfraMota
<1>6. CASE UNCHANGED <<egoeraInfragorri, pir_value, infraPc>>
  BY <1>6 DEF TypeOK, InfraMota
<1> QED
  BY <1>1, <1>2, <1>3, <1>4, <1>5, <1>6
  DEF Next, GasHaria, InfragorriHaria, MqttHaria, Ingurunea, vars, gasVars, infraVars,
      mqttVars, sentsoreVars,
      AdcAmaitu, GasHasieratu, GasItxaron, GasBidali, GasItxaron2,
      MqttKonektatu, MqttHarpidetu, MqttGasJaso, MqttGasBidali, MqttInfraJaso,
      MqttInfraBidali, mezua_Jaso, AginduaIritsi, KonexioaGaldu

LEMMA LedMotaPausoa == TypeOK /\ [Next]_vars => LedMota'
<1> SUFFICES ASSUME TypeOK, [Next]_vars PROVE LedMota'
  OBVIOUS
<1>1. CASE GasItxaron
  BY <1>1, LedenMota, LedenIzenak DEF GasItxaron, TypeOK, LedMota, infraVars
<1>2. CASE GasBidali
  BY <1>2, LedenMota, LedenIzenak DEF GasBidali, TypeOK, LedMota, infraVars
<1>3. CASE InfraItxaron
  BY <1>3, LedenMota, LedenIzenak DEF InfraItxaron, TypeOK, LedMota
<1>4. CASE InfraLedaKargatu
  BY <1>4, LedenMota, LedenIzenak DEF InfraLedaKargatu, TypeOK, LedMota
<1>5. CASE InfraLedaIdatzi
  BY <1>5, LedenMota, LedenIzenak, ItzalitaMota DEF InfraLedaIdatzi, TypeOK, LedMota
<1>6. CASE mezua_Jaso
  <2>1. odr' \in [Ledak -> BOOLEAN]
    BY <1>6, LedenMota, LedenIzenak DEF mezua_Jaso, TypeOK, LedMota
  <2>2. agindua' \in BOOLEAN /\ galdua' \in BOOLEAN
    BY <1>6 DEF mezua_Jaso, TypeOK, LedMota
  <2> QED
    BY <1>6, <2>1, <2>2 DEF mezua_Jaso, TypeOK, LedMota, sentsoreVars, infraVars
<1>7. CASE UNCHANGED <<kopia, odr, agindua, galdua>>
  BY <1>7 DEF TypeOK, LedMota
<1> QED
  BY <1>1, <1>2, <1>3, <1>4, <1>5, <1>6, <1>7
  DEF Next, GasHaria, InfragorriHaria, MqttHaria, Ingurunea, vars, gasVars, infraVars,
      mqttVars, sentsoreVars,
      AdcAmaitu, GasHasieratu, GasItxaron2, InfraHasieratu, InfraBidali,
      MqttKonektatu, MqttHarpidetu, MqttGasJaso, MqttGasBidali, MqttInfraJaso,
      MqttInfraBidali, AginduaIritsi, KonexioaGaldu

LEMMA KolaMotaPausoa == TypeOK /\ [Next]_vars => KolaMota'
<1> SUFFICES ASSUME TypeOK, [Next]_vars PROVE KolaMota'
  OBVIOUS
<1>1. CASE GasBidali
  <2>1. adc.dr > 0 => adc_to_voltage(adc.dr) \in GasMezuak
    BY AdcHamabiBit DEF TypeOK, GasMota, GasMezuak
  <2>2. QueueGas' \in Seq(GasMezuak) /\ Len(QueueGas') <= KolaLuzera
    BY <1>1, <2>1, BidaliMota DEF GasBidali, TypeOK, KolaMota
  <2> QED
    BY <1>1, <2>2 DEF GasBidali, TypeOK, KolaMota, mqttVars
<1>2. CASE InfraBidali
  <2>1. QueueInfrarojo' \in Seq(PirBalioak) /\ Len(QueueInfrarojo') <= KolaLuzera
    BY <1>2, BidaliMota DEF InfraBidali, TypeOK, KolaMota, InfraMota
  <2> QED
    BY <1>2, <2>1 DEF InfraBidali, TypeOK, KolaMota, mqttVars
<1>3. CASE MqttGasJaso
  <2>1. QueueGas \in Seq(GasMezuak) /\ Len(QueueGas) <= KolaLuzera /\ KolaLuzera \in Nat
    BY KolakTokia DEF TypeOK, KolaMota
  <2>2. QueueGas' \in Seq(GasMezuak) /\ Len(QueueGas') <= KolaLuzera
    <3>1. CASE QueueGas = << >>
      BY <1>3, <2>1, <3>1 DEF MqttGasJaso
    <3>2. CASE QueueGas # << >>
      BY <1>3, <2>1, <3>2, JasoMota DEF MqttGasJaso
    <3> QED
      BY <3>1, <3>2
  <2> QED
    BY <1>3, <2>2 DEF MqttGasJaso, TypeOK, KolaMota
<1>4. CASE MqttInfraJaso
  <2>1. QueueInfrarojo \in Seq(PirBalioak) /\ Len(QueueInfrarojo) <= KolaLuzera /\ KolaLuzera \in Nat
    BY KolakTokia DEF TypeOK, KolaMota
  <2>2. QueueInfrarojo' \in Seq(PirBalioak) /\ Len(QueueInfrarojo') <= KolaLuzera
    <3>1. CASE QueueInfrarojo = << >>
      BY <1>4, <2>1, <3>1 DEF MqttInfraJaso
    <3>2. CASE QueueInfrarojo # << >>
      BY <1>4, <2>1, <3>2, JasoMota DEF MqttInfraJaso
    <3> QED
      BY <3>1, <3>2
  <2> QED
    BY <1>4, <2>2 DEF MqttInfraJaso, TypeOK, KolaMota
<1>5. CASE mezua_Jaso
  <2>1. postontzia \in Seq(Aginduak) /\ Len(postontzia) <= PostontziLuzera /\ PostontziLuzera \in Nat
    BY KolakTokia DEF TypeOK, KolaMota
  <2>2. postontzia' \in Seq(Aginduak) /\ Len(postontzia') <= PostontziLuzera
    <3>1. CASE postontzia = << >>
      BY <1>5, <2>1, <3>1 DEF mezua_Jaso
    <3>2. CASE postontzia # << >>
      BY <1>5, <2>1, <3>2, JasoMota DEF mezua_Jaso
    <3> QED
      BY <3>1, <3>2
  <2> QED
    BY <1>5, <2>2 DEF mezua_Jaso, TypeOK, KolaMota
<1>6. ASSUME NEW m \in Aginduak, AginduaIritsi(m) PROVE KolaMota'
  BY <1>6, KolakTokia DEF AginduaIritsi, TypeOK, KolaMota
<1>7. CASE UNCHANGED <<QueueGas, QueueInfrarojo, postontzia>>
  BY <1>7 DEF TypeOK, KolaMota
<1> QED
  BY <1>1, <1>2, <1>3, <1>4, <1>5, <1>6, <1>7
  DEF Next, GasHaria, InfragorriHaria, MqttHaria, Ingurunea, vars, gasVars, infraVars,
      mqttVars, sentsoreVars,
      AdcAmaitu, GasHasieratu, GasItxaron, GasItxaron2, InfraHasieratu,
      InfraItxaron, InfraLedaKargatu, InfraLedaIdatzi, MqttKonektatu, MqttHarpidetu,
      MqttGasBidali, MqttInfraBidali, KonexioaGaldu

LEMMA MqttMotaPausoa == TypeOK /\ [Next]_vars => MqttMota'
<1> SUFFICES ASSUME TypeOK, [Next]_vars PROVE MqttMota'
  OBVIOUS
<1>1. CASE MqttKonektatu
  BY <1>1 DEF MqttKonektatu, TypeOK, MqttMota
<1>2. CASE MqttHarpidetu
  BY <1>2 DEF MqttHarpidetu, TypeOK, MqttMota
<1>3. CASE MqttGasJaso
  BY <1>3, JasoMota DEF MqttGasJaso, TypeOK, MqttMota, KolaMota
<1>4. CASE MqttGasBidali
  BY <1>4 DEF MqttGasBidali, TypeOK, MqttMota
<1>5. CASE MqttInfraJaso
  BY <1>5, JasoMota DEF MqttInfraJaso, TypeOK, MqttMota, KolaMota
<1>6. CASE MqttInfraBidali
  BY <1>6 DEF MqttInfraBidali, TypeOK, MqttMota
<1>7. CASE mezua_Jaso
  BY <1>7 DEF mezua_Jaso, TypeOK, MqttMota, KolaMota
<1>8. CASE KonexioaGaldu
  BY <1>8 DEF KonexioaGaldu, TypeOK, MqttMota
<1>9. CASE UNCHANGED <<mqttPc, message, konektatuta, argitaratua>>
  BY <1>9 DEF TypeOK, MqttMota
<1> QED
  BY <1>1, <1>2, <1>3, <1>4, <1>5, <1>6, <1>7, <1>8, <1>9
  DEF Next, GasHaria, InfragorriHaria, MqttHaria, Ingurunea, vars, gasVars, infraVars,
      mqttVars, sentsoreVars,
      AdcAmaitu, GasHasieratu, GasItxaron, GasBidali, GasItxaron2,
      InfraHasieratu, InfraItxaron, InfraBidali, InfraLedaKargatu, InfraLedaIdatzi,
      AginduaIritsi

LEMMA PausoMota == TypeOK /\ [Next]_vars => TypeOK'
BY GasMotaPausoa, InfraMotaPausoa, LedMotaPausoa, KolaMotaPausoa, MqttMotaPausoa
   DEF TypeOK

\* Every state the board's threads can reach is well typed, no queue and no
\* message box is over its length, and "gas" carries only voltages.
THEOREM Motak == Spec => []TypeOK
BY HasieraMota, PausoMota, PTL DEF Spec
-----------------------------------------------------------------------------
(* The safety invariants. *)

LEMMA HasieraSegurua == Init => KopiaGorria /\ Segurtasuna
BY LedenIzenak
   DEF Init, KopiaGorria, Segurtasuna, IrakurketaBerria, GorriaBatDator, AlarmaLeda,
       ledakItzalita

\* What the LED operators do to each bit.
LEMMA LedenBalioa ==
  ASSUME NEW r \in [Ledak -> BOOLEAN], NEW l \in Ledak, NEW k \in Ledak
  PROVE  /\ ledaPiztu(r, l)[k] = (k = l \/ r[k])
         /\ ledaItzali(r, l)[k] = (k # l /\ r[k])
BY DEF ledaPiztu, ledaItzali

LEMMA IrakurketaPausoa == TypeOK /\ IrakurketaBerria /\ [Next]_vars => IrakurketaBerria'
<1> SUFFICES ASSUME TypeOK, IrakurketaBerria, [Next]_vars PROVE IrakurketaBerria'
  OBVIOUS
<1>1. CASE AdcAmaitu
  BY <1>1 DEF AdcAmaitu, IrakurketaBerria, AdcAmaitutakoak
<1>2. CASE GasHasieratu
  BY <1>2 DEF GasHasieratu, IrakurketaBerria
<1>3. CASE GasItxaron
  BY <1>3 DEF GasItxaron, IrakurketaBerria, AdcAmaitutakoak, startConversion, amaieraKonprobatu
<1>4. CASE GasBidali
  BY <1>4 DEF GasBidali, IrakurketaBerria
<1>5. CASE GasItxaron2
  BY <1>5 DEF GasItxaron2, IrakurketaBerria
<1>6. CASE UNCHANGED <<egoeraGas, adc>>
  BY <1>6 DEF IrakurketaBerria
<1> QED
  BY <1>1, <1>2, <1>3, <1>4, <1>5, <1>6
  DEF Next, GasHaria, InfragorriHaria, MqttHaria, Ingurunea, vars, gasVars, infraVars,
      mqttVars, sentsoreVars,
      InfraHasieratu, InfraItxaron, InfraBidali, InfraLedaKargatu, InfraLedaIdatzi,
      MqttKonektatu, MqttHarpidetu, MqttGasJaso, MqttGasBidali, MqttInfraJaso,
      MqttInfraBidali, mezua_Jaso, AginduaIritsi, KonexioaGaldu

LEMMA GorriaPausoa == TypeOK /\ KopiaGorria /\ GorriaBatDator /\ [Next]_vars => KopiaGorria' /\ GorriaBatDator'
<1> SUFFICES ASSUME TypeOK, KopiaGorria, GorriaBatDator, [Next]_vars PROVE KopiaGorria' /\ GorriaBatDator'
  OBVIOUS
<1>1. CASE GasHasieratu
  BY <1>1, LedenBalioa, LedenIzenak DEF GasHasieratu, KopiaGorria, GorriaBatDator, TypeOK, LedMota, GasMota,
         gasVars, infraVars, sentsoreVars, GasTxanda
<1>2. CASE GasItxaron
  BY <1>2, LedenBalioa, LedenIzenak DEF GasItxaron, startConversion, amaieraKonprobatu, KopiaGorria, GorriaBatDator, TypeOK, LedMota, GasMota,
         gasVars, infraVars, sentsoreVars, GasTxanda
<1>3. CASE GasBidali
  BY <1>3, LedenBalioa, LedenIzenak DEF GasBidali, KopiaGorria, GorriaBatDator, TypeOK, LedMota, GasMota,
         gasVars, infraVars, sentsoreVars, GasTxanda
<1>4. CASE GasItxaron2
  BY <1>4, LedenBalioa, LedenIzenak DEF GasItxaron2, KopiaGorria, GorriaBatDator, TypeOK, LedMota, GasMota,
         gasVars, infraVars, sentsoreVars, GasTxanda
<1>5. CASE InfraItxaron
  BY <1>5, LedenBalioa, LedenIzenak DEF InfraItxaron, KopiaGorria, GorriaBatDator, TypeOK, LedMota, GasMota,
         gasVars, infraVars, sentsoreVars, GasTxanda
<1>6. CASE InfraBidali
  BY <1>6, LedenBalioa, LedenIzenak DEF InfraBidali, KopiaGorria, GorriaBatDator, TypeOK, LedMota, GasMota,
         gasVars, infraVars, sentsoreVars, GasTxanda
<1>7. CASE InfraLedaKargatu
  BY <1>7, LedenBalioa, LedenIzenak DEF InfraLedaKargatu, KopiaGorria, GorriaBatDator, TypeOK, LedMota, GasMota,
         gasVars, infraVars, sentsoreVars, GasTxanda
<1>8. CASE InfraLedaIdatzi
  BY <1>8, LedenBalioa, LedenIzenak DEF InfraLedaIdatzi, KopiaGorria, GorriaBatDator, TypeOK, LedMota, GasMota,
         gasVars, infraVars, sentsoreVars, GasTxanda
<1>9. CASE mezua_Jaso
  BY <1>9, LedenBalioa, LedenIzenak DEF mezua_Jaso, KopiaGorria, GorriaBatDator, TypeOK, LedMota, GasMota,
         gasVars, infraVars, sentsoreVars, GasTxanda
<1>10. CASE UNCHANGED <<egoeraGas, infraPc, kopia, odr>>
  BY <1>10 DEF KopiaGorria, GorriaBatDator
<1> QED
  BY <1>1, <1>2, <1>3, <1>4, <1>5, <1>6, <1>7, <1>8, <1>9, <1>10
  DEF Next, GasHaria, InfragorriHaria, MqttHaria, Ingurunea, vars, gasVars, infraVars,
      mqttVars, sentsoreVars,
      AdcAmaitu, InfraHasieratu, MqttKonektatu, MqttHarpidetu, MqttGasJaso,
      MqttGasBidali, MqttInfraJaso, MqttInfraBidali, AginduaIritsi, KonexioaGaldu

LEMMA AlarmaPausoa == TypeOK /\ AlarmaLeda /\ [Next]_vars => AlarmaLeda'
<1> SUFFICES ASSUME TypeOK, AlarmaLeda, [Next]_vars PROVE AlarmaLeda'
  OBVIOUS
<1>1. CASE GasItxaron
  BY <1>1, LedenBalioa, LedenIzenak DEF GasItxaron, AlarmaLeda, TypeOK, LedMota
<1>2. CASE GasBidali
  BY <1>2, LedenBalioa, LedenIzenak DEF GasBidali, AlarmaLeda, TypeOK, LedMota
<1>3. CASE InfraLedaIdatzi
  BY <1>3, LedenBalioa, LedenIzenak DEF InfraLedaIdatzi, AlarmaLeda, TypeOK, LedMota
<1>4. CASE mezua_Jaso
  BY <1>4, LedenBalioa, LedenIzenak DEF mezua_Jaso, AlarmaLeda, TypeOK, LedMota
<1>5. CASE UNCHANGED <<odr, agindua, galdua>>
  BY <1>5 DEF AlarmaLeda
<1> QED
  BY <1>1, <1>2, <1>3, <1>4, <1>5
  DEF Next, GasHaria, InfragorriHaria, MqttHaria, Ingurunea, vars, gasVars, infraVars,
      mqttVars, sentsoreVars,
      AdcAmaitu, GasHasieratu, GasItxaron2, InfraHasieratu, InfraItxaron,
      InfraBidali, InfraLedaKargatu, MqttKonektatu, MqttHarpidetu, MqttGasJaso,
      MqttGasBidali, MqttInfraJaso, MqttInfraBidali, AginduaIritsi, KonexioaGaldu

LEMMA IInvBeti == Spec => []IInv
<1>1. Init => IInv
  BY HasieraMota, HasieraSegurua DEF IInv
<1>2. IInv /\ [Next]_vars => IInv'
  <2> SUFFICES ASSUME IInv, [Next]_vars PROVE IInv'
    OBVIOUS
  <2>1. TypeOK'
    BY PausoMota DEF IInv
  <2>2. IrakurketaBerria'
    BY IrakurketaPausoa DEF IInv, Segurtasuna
  <2>3. KopiaGorria' /\ GorriaBatDator'
    BY GorriaPausoa DEF IInv, Segurtasuna
  <2>4. AlarmaLeda'
    BY AlarmaPausoa DEF IInv, Segurtasuna
  <2> QED
    BY <2>1, <2>2, <2>3, <2>4 DEF IInv, Segurtasuna
<1> QED
  BY <1>1, <1>2, PTL DEF Spec

\* Every reading comes from a conversion that ended after the last one read.
THEOREM IrakurketakBerriak == Spec => []IrakurketaBerria
BY IInvBeti, PTL DEF IInv, Segurtasuna

\* InfragorriHaria's unguarded read-modify-writes of ODR never undo the red LED.
THEOREM GorriaBeti == Spec => []GorriaBatDator
BY IInvBeti, PTL DEF IInv, Segurtasuna

\* The alarm LED departs from the last command obeyed only through a store of
\* InfragorriHaria's that overtook the command.
THEOREM AlarmaLedaBeti == Spec => []AlarmaLeda
BY IInvBeti, PTL DEF IInv, Segurtasuna
-----------------------------------------------------------------------------
(* Plaka implements Telemetria. *)

\* Putting a message in front of a queue, and taking it off again.
LEMMA Aurretik ==
  ASSUME NEW S, NEW q \in Seq(S), NEW m \in S
  PROVE  /\ <<m>> \o q \in Seq(S) /\ <<m>> \o q # << >>
         /\ Len(<<m>> \o q) = Len(q) + 1
         /\ Head(<<m>> \o q) = m /\ Tail(<<m>> \o q) = q
OBVIOUS

LEMMA Hutsik == ASSUME NEW S, NEW q \in Seq(S) PROVE << >> \o q = q
OBVIOUS

LEMMA BuruaEtaIsatsa ==
  ASSUME NEW S, NEW q \in Seq(S), q # << >>
  PROVE  <<Head(q)>> \o Tail(q) = q
OBVIOUS

LEMMA AurretikAtzetik ==
  ASSUME NEW S, NEW q \in Seq(S), NEW m \in S, NEW v \in S
  PROVE  <<m>> \o Append(q, v) = Append(<<m>> \o q, v)
OBVIOUS
LEMMA ZainMota ==
  ASSUME TypeOK
  PROVE  /\ GasZain \in Seq(GasMezuak) /\ Len(GasZain) <= Len(QueueGas) + 1
         /\ InfraZain \in Seq(PirBalioak) /\ Len(InfraZain) <= Len(QueueInfrarojo) + 1
<1>1. QueueGas \in Seq(GasMezuak) /\ QueueInfrarojo \in Seq(PirBalioak)
  BY DEF TypeOK, KolaMota
<1>2. CASE mqttPc = "gasBidali"
  BY <1>1, <1>2, Aurretik, Hutsik DEF TypeOK, MqttMota, GasZain, InfraZain
<1>3. CASE mqttPc = "infraBidali"
  BY <1>1, <1>3, Aurretik, Hutsik DEF TypeOK, MqttMota, GasZain, InfraZain
<1>4. CASE mqttPc \notin {"gasBidali", "infraBidali"}
  BY <1>1, <1>4, Hutsik DEF GasZain, InfraZain
<1> QED
  BY <1>2, <1>3, <1>4

LEMMA Kanalak ==
  /\ Zain["gas"] = GasZain /\ Zain["infragorri"] = InfraZain
  /\ InfraZain' = InfraZain => Zain' = [Zain EXCEPT !["gas"] = GasZain']
  /\ GasZain' = GasZain => Zain' = [Zain EXCEPT !["infragorri"] = InfraZain']
BY DEF Zain, Gaiak

LEMMA GasOnartu ==
  TypeOK /\ GasBidali => [T!Next]_(T!vars)
<1> SUFFICES ASSUME TypeOK, GasBidali
             PROVE  [T!Next]_(T!vars)
  OBVIOUS
<1> DEFINE v == adc_to_voltage(adc.dr)
<1>1. UNCHANGED <<message, mqttPc, QueueInfrarojo, argitaratua>>
  BY DEF GasBidali, mqttVars
<1>2. InfraZain' = InfraZain
  BY <1>1 DEF InfraZain
<1>3. CASE adc.dr > 0 /\ Len(QueueGas) < KolaLuzera
  <2>1. v \in GasMezuak
    BY <1>3, AdcHamabiBit DEF TypeOK, GasMota, GasMezuak
  <2>2. QueueGas' = Append(QueueGas, v)
    BY <1>3 DEF GasBidali, tx_queue_send
  <2>3. QueueGas \in Seq(GasMezuak)
    BY DEF TypeOK, KolaMota
  <2>4. GasZain' = Append(GasZain, v)
    <3>1. CASE mqttPc = "gasBidali"
      BY <1>1, <2>1, <2>2, <2>3, <3>1, AurretikAtzetik DEF GasZain, TypeOK, MqttMota
    <3>2. CASE mqttPc # "gasBidali"
      BY <1>1, <2>1, <2>2, <2>3, <3>2, Hutsik DEF GasZain
    <3> QED
      BY <3>1, <3>2
  <2>5. Len(Zain["gas"]) < KolaLuzera + 1
    BY <1>3, <2>3, ZainMota, Kanalak, KolakTokia
  <2>6. Zain' = [Zain EXCEPT !["gas"] = Append(@, v)]
    BY <1>2, <2>4, Kanalak
  <2>7. T!Onartu("gas", v)
    BY <1>1, <2>5, <2>6 DEF T!Onartu
  <2> QED
    BY <2>1, <2>7 DEF T!Next, Gaiak, GaiBalioak
<1>4. CASE ~(adc.dr > 0 /\ Len(QueueGas) < KolaLuzera)
  BY <1>1, <1>4 DEF GasBidali, tx_queue_send, Zain, GasZain, InfraZain, T!vars
<1> QED
  BY <1>3, <1>4

LEMMA InfraOnartu ==
  TypeOK /\ InfraBidali => [T!Next]_(T!vars)
<1> SUFFICES ASSUME TypeOK, InfraBidali
             PROVE  [T!Next]_(T!vars)
  OBVIOUS
<1>1. UNCHANGED <<message, mqttPc, QueueGas, argitaratua>>
  BY DEF InfraBidali, mqttVars
<1>2. GasZain' = GasZain
  BY <1>1 DEF GasZain
<1>3. CASE Len(QueueInfrarojo) < KolaLuzera
  <2>1. pir_value \in PirBalioak
    BY DEF TypeOK, InfraMota
  <2>2. QueueInfrarojo' = Append(QueueInfrarojo, pir_value)
    BY <1>3 DEF InfraBidali, tx_queue_send
  <2>3. QueueInfrarojo \in Seq(PirBalioak)
    BY DEF TypeOK, KolaMota
  <2>4. InfraZain' = Append(InfraZain, pir_value)
    <3>1. CASE mqttPc = "infraBidali"
      BY <1>1, <2>1, <2>2, <2>3, <3>1, AurretikAtzetik DEF InfraZain, TypeOK, MqttMota
    <3>2. CASE mqttPc # "infraBidali"
      BY <1>1, <2>1, <2>2, <2>3, <3>2, Hutsik DEF InfraZain
    <3> QED
      BY <3>1, <3>2
  <2>5. Len(Zain["infragorri"]) < KolaLuzera + 1
    BY <1>3, <2>3, ZainMota, Kanalak, KolakTokia
  <2>6. Zain' = [Zain EXCEPT !["infragorri"] = Append(@, pir_value)]
    BY <1>2, <2>4, Kanalak
  <2>7. T!Onartu("infragorri", pir_value)
    BY <1>1, <2>5, <2>6 DEF T!Onartu
  <2> QED
    BY <2>1, <2>7 DEF T!Next, Gaiak, GaiBalioak
<1>4. CASE ~(Len(QueueInfrarojo) < KolaLuzera)
  BY <1>1, <1>4 DEF InfraBidali, tx_queue_send, Zain, GasZain, InfraZain, T!vars
<1> QED
  BY <1>3, <1>4
LEMMA GasArgitaratu == TypeOK /\ MqttGasBidali => [T!Next]_(T!vars)
<1> SUFFICES ASSUME TypeOK, MqttGasBidali PROVE [T!Next]_(T!vars)
  OBVIOUS
<1>1. mqttPc = "gasBidali" /\ mqttPc' \in {"infra", "errorea"} /\ UNCHANGED <<QueueGas, QueueInfrarojo>>
  BY DEF MqttGasBidali
<1>2. QueueGas \in Seq(GasMezuak) /\ QueueInfrarojo \in Seq(PirBalioak) /\ message \in GasMezuak
  BY <1>1 DEF TypeOK, KolaMota, MqttMota
<1>3. InfraZain' = InfraZain
  BY <1>1 DEF InfraZain
<1>4. GasZain # << >> /\ Head(GasZain) = message /\ GasZain' = Tail(GasZain)
  BY <1>1, <1>2, Aurretik, Hutsik DEF GasZain
<1>5. Zain' = [Zain EXCEPT !["gas"] = Tail(@)] /\ Zain["gas"] # << >>
  BY <1>3, <1>4, Kanalak
<1>6. CASE mqttPc' = "infra"
  <2>1. argitaratua' = <<"gas", Head(Zain["gas"])>>
    BY <1>4, <1>6, Kanalak DEF MqttGasBidali
  <2>2. T!Argitaratu("gas")
    BY <1>1, <1>5, <1>6, <2>1 DEF T!Argitaratu
  <2> QED
    BY <2>2 DEF T!Next, Gaiak
<1>7. CASE mqttPc' = "errorea"
  <2>1. argitaratua' = argitaratua
    BY <1>7 DEF MqttGasBidali
  <2>2. T!Gelditu
    BY <1>1, <1>5, <1>7, <2>1 DEF T!Gelditu, Gaiak
  <2> QED
    BY <2>2 DEF T!Next
<1> QED
  BY <1>1, <1>6, <1>7

LEMMA InfraArgitaratu == TypeOK /\ MqttInfraBidali => [T!Next]_(T!vars)
<1> SUFFICES ASSUME TypeOK, MqttInfraBidali PROVE [T!Next]_(T!vars)
  OBVIOUS
<1>1. mqttPc = "infraBidali" /\ mqttPc' \in {"jaso", "errorea"} /\ UNCHANGED <<QueueGas, QueueInfrarojo>>
  BY DEF MqttInfraBidali
<1>2. QueueInfrarojo \in Seq(PirBalioak) /\ QueueGas \in Seq(GasMezuak) /\ message \in PirBalioak
  BY <1>1 DEF TypeOK, KolaMota, MqttMota
<1>3. GasZain' = GasZain
  BY <1>1 DEF GasZain
<1>4. InfraZain # << >> /\ Head(InfraZain) = message /\ InfraZain' = Tail(InfraZain)
  BY <1>1, <1>2, Aurretik, Hutsik DEF InfraZain
<1>5. Zain' = [Zain EXCEPT !["infragorri"] = Tail(@)] /\ Zain["infragorri"] # << >>
  BY <1>3, <1>4, Kanalak
<1>6. CASE mqttPc' = "jaso"
  <2>1. argitaratua' = <<"infragorri", Head(Zain["infragorri"])>>
    BY <1>4, <1>6, Kanalak DEF MqttInfraBidali
  <2>2. T!Argitaratu("infragorri")
    BY <1>1, <1>5, <1>6, <2>1 DEF T!Argitaratu
  <2> QED
    BY <2>2 DEF T!Next, Gaiak
<1>7. CASE mqttPc' = "errorea"
  <2>1. argitaratua' = argitaratua
    BY <1>7 DEF MqttInfraBidali
  <2>2. T!Gelditu
    BY <1>1, <1>5, <1>7, <2>1 DEF T!Gelditu, Gaiak
  <2> QED
    BY <2>2 DEF T!Next
<1> QED
  BY <1>1, <1>6, <1>7

\* Taking a reading from its queue into the hand changes nothing that waits.
LEMMA GasEskura == TypeOK /\ MqttGasJaso => UNCHANGED T!vars
<1> SUFFICES ASSUME TypeOK, MqttGasJaso PROVE UNCHANGED T!vars
  OBVIOUS
<1>1. QueueGas \in Seq(GasMezuak) /\ UNCHANGED <<QueueInfrarojo, argitaratua>>
  BY DEF TypeOK, KolaMota, MqttGasJaso
<1>2. InfraZain' = InfraZain
  BY <1>1 DEF MqttGasJaso, InfraZain
<1>3. GasZain' = GasZain
  <2>1. CASE QueueGas = << >>
    BY <2>1 DEF MqttGasJaso, GasZain
  <2>2. CASE QueueGas # << >>
    BY <1>1, <2>2, BuruaEtaIsatsa, Hutsik DEF MqttGasJaso, GasZain
  <2> QED
    BY <2>1, <2>2
<1> QED
  BY <1>1, <1>2, <1>3 DEF T!vars, Zain, MqttGasJaso

LEMMA InfraEskura == TypeOK /\ MqttInfraJaso => UNCHANGED T!vars
<1> SUFFICES ASSUME TypeOK, MqttInfraJaso PROVE UNCHANGED T!vars
  OBVIOUS
<1>1. QueueInfrarojo \in Seq(PirBalioak) /\ UNCHANGED <<QueueGas, argitaratua>>
  BY DEF TypeOK, KolaMota, MqttInfraJaso
<1>2. GasZain' = GasZain
  BY <1>1 DEF MqttInfraJaso, GasZain
<1>3. InfraZain' = InfraZain
  <2>1. CASE QueueInfrarojo = << >>
    BY <2>1 DEF MqttInfraJaso, InfraZain
  <2>2. CASE QueueInfrarojo # << >>
    BY <1>1, <2>2, BuruaEtaIsatsa, Hutsik DEF MqttInfraJaso, InfraZain
  <2> QED
    BY <2>1, <2>2
<1> QED
  BY <1>1, <1>2, <1>3 DEF T!vars, Zain, MqttInfraJaso

\* Connecting or subscribing in vain ends the thread with nothing in hand.
LEMMA Hastapena == MqttKonektatu \/ MqttHarpidetu => [T!Next]_(T!vars)
<1> SUFFICES ASSUME MqttKonektatu \/ MqttHarpidetu PROVE [T!Next]_(T!vars)
  OBVIOUS
<1>1. /\ mqttPc \in {"konektatu", "harpidetu"}
      /\ mqttPc' \in {"harpidetu", "gas", "errorea"}
      /\ UNCHANGED <<QueueGas, QueueInfrarojo, argitaratua>>
  BY DEF MqttKonektatu, MqttHarpidetu
<1>2. Zain' = Zain
  BY <1>1 DEF Zain, GasZain, InfraZain
<1>3. CASE mqttPc' = "errorea"
  BY <1>1, <1>2, <1>3 DEF T!Next, T!Gelditu
<1>4. CASE mqttPc' # "errorea"
  BY <1>1, <1>2, <1>4 DEF T!vars
<1> QED
  BY <1>3, <1>4

LEMMA PausoTelemetria == TypeOK /\ [Next]_vars => [T!Next]_(T!vars)
<1> SUFFICES ASSUME TypeOK, [Next]_vars PROVE [T!Next]_(T!vars)
  OBVIOUS
<1>1. CASE mezua_Jaso
  BY <1>1 DEF mezua_Jaso, T!vars, Zain, GasZain, InfraZain
<1>2. CASE UNCHANGED <<QueueGas, QueueInfrarojo, mqttPc, message, argitaratua>>
  BY <1>2 DEF T!vars, Zain, GasZain, InfraZain
<1> QED
  BY <1>1, <1>2, GasOnartu, InfraOnartu, GasArgitaratu, InfraArgitaratu, GasEskura,
     InfraEskura, Hastapena
  DEF Next, GasHaria, InfragorriHaria, MqttHaria, Ingurunea, vars, gasVars, infraVars,
      mqttVars, sentsoreVars, AdcAmaitu, GasHasieratu, GasItxaron, GasItxaron2,
      InfraHasieratu, InfraItxaron, InfraLedaKargatu, InfraLedaIdatzi, AginduaIritsi,
      KonexioaGaldu

\* Plaka implements Telemetria: on each topic the readings its queue accepted are
\* published oldest first and at most once, and a lost connection costs at most
\* the reading in hand.
THEOREM TelemetriaBetetzen == Spec => Telemetriakoa
<1>1. Init => T!Init
  BY DEF Init, T!Init, Zain, GasZain, InfraZain, Gaiak
<1>2. TypeOK /\ [Next]_vars => [T!Next]_(T!vars)
  BY PausoTelemetria
<1> QED
  BY <1>1, <1>2, Motak, PTL DEF Spec, Telemetriakoa, T!Spec
-----------------------------------------------------------------------------
(* The MQTT thread of Plaka is the one Sarea takes as given: Sarea knows it  *)
(* only as connecting, looping or in Error_Handler.  Plaka begins where the  *)
(* main thread, with an address and the cable plugged, has resumed it.       *)

SarekoMqttPc == IF mqttPc \in {"konektatu", "errorea"} THEN mqttPc ELSE "begizta"
S == INSTANCE Sarea WITH
       MaxSemaforoa <- 1, mqttPc <- SarekoMqttPc,
       kablea <- TRUE, helbidea <- TRUE, dhcp <- TRUE, Semaphore <- 0, izan <- TRUE,
       mainPc <- "amaitua", linkPc <- "egoera", linkdown <- FALSE
SareanAske == /\ SarekoMqttPc = "konektatu" /\ ~konektatuta
              /\ [][S!App_MQTT_Client_Thread_Entry \/ S!KonexioaGaldu]_(S!mqttVars)

LEMMA PausoSarea ==
  [Next]_vars
    => [S!App_MQTT_Client_Thread_Entry \/ S!KonexioaGaldu]_(S!mqttVars)
<1> SUFFICES ASSUME [Next]_vars
             PROVE  [S!App_MQTT_Client_Thread_Entry \/ S!KonexioaGaldu]_(S!mqttVars)
  OBVIOUS
<1> USE DEF SarekoMqttPc, S!mqttVars
<1>0. UNCHANGED <<S!dhcpVars, S!linkVars>>
  BY DEF S!dhcpVars, S!linkVars
<1>1. CASE UNCHANGED <<mqttPc, konektatuta>>
  BY <1>1
<1>2. CASE KonexioaGaldu
  BY <1>0, <1>2 DEF KonexioaGaldu, S!KonexioaGaldu
<1>3. CASE MqttKonektatu
  BY <1>0, <1>3 DEF MqttKonektatu, S!App_MQTT_Client_Thread_Entry, S!MqttKonektatu
<1>4. CASE MqttHarpidetu \/ MqttGasBidali \/ MqttInfraBidali
  BY <1>0, <1>4 DEF MqttHarpidetu, MqttGasBidali, MqttInfraBidali,
     S!App_MQTT_Client_Thread_Entry, S!MqttHuts
<1>5. CASE MqttGasJaso \/ MqttInfraJaso \/ mezua_Jaso
  BY <1>5 DEF MqttGasJaso, MqttInfraJaso, mezua_Jaso
<1> QED
  BY <1>1, <1>2, <1>3, <1>4, <1>5
  DEF Next, GasHaria, InfragorriHaria, MqttHaria, Ingurunea, vars,
      mqttVars, AdcAmaitu, GasHasieratu, GasItxaron, GasBidali, GasItxaron2,
      InfraHasieratu, InfraItxaron, InfraBidali, InfraLedaKargatu, InfraLedaIdatzi, AginduaIritsi

\* Once resumed, the board's MQTT thread takes no step that Sarea's thread cannot: it
\* enters Error_Handler only from a failed connect or without a connection, and never
\* leaves it or connects again.
THEOREM SareaBetetzen == Spec => SareanAske
<1>1. Init => SarekoMqttPc = "konektatu" /\ ~konektatuta
  BY DEF Init, SarekoMqttPc
<1> QED
  BY <1>1, PausoSarea, PTL DEF Spec, SareanAske
=============================================================================
