---------------------------- MODULE SareaProofs ----------------------------
(***************************************************************************)
(* Proofs about Sarea for every bound on the semaphore.  The invariants of *)
(* the module are not inductive by themselves: that the MQTT thread starts *)
(* with an address needs that the semaphore counts nothing before one was  *)
(* obtained, and that the main thread is not refused by nx_dhcp_start needs*)
(* that the DHCP client is not started before it runs.                     *)
(***************************************************************************)
EXTENDS Sarea, TLAPS

\* The notifications the semaphore has counted come after a first address.
SemaforoZerbaitegatik == (Semaphore > 0 => izan) /\ (helbidea => izan)

\* Nobody starts the DHCP client before the main thread.
DhcpGeldi == mainPc = "hasi" => ~dhcp

IInv == /\ TypeOK
        /\ SemaforoZerbaitegatik
        /\ HelbideaAurretik
        /\ DhcpGeldi
        /\ MainEzHuts
-----------------------------------------------------------------------------
LEMMA Hasiera == Init => IInv
<1> SUFFICES ASSUME Init PROVE IInv
  OBVIOUS
<1>1. Semaphore \in 0..MaxSemaforoa /\ ~(Semaphore > 0)
  BY SemaforoMuga DEF Init
<1>2. TypeOK
  BY <1>1 DEF Init, TypeOK, DhcpMota, HariMota, LinkMota
<1>3. SemaforoZerbaitegatik
  BY <1>1 DEF Init, SemaforoZerbaitegatik
<1>4. HelbideaAurretik /\ DhcpGeldi /\ MainEzHuts
  BY DEF Init, HelbideaAurretik, DhcpGeldi, MainEzHuts
<1> QED
  BY <1>2, <1>3, <1>4 DEF IInv

LEMMA DhcpMotaPausoa == TypeOK /\ [Next]_vars => DhcpMota'
<1> SUFFICES ASSUME TypeOK, [Next]_vars PROVE DhcpMota'
  OBVIOUS
<1>1. CASE KableaMugitu
  BY <1>1 DEF KableaMugitu, TypeOK, DhcpMota
<1>2. CASE HelbideaLortu
  <2>1. Semaphore' \in 0..MaxSemaforoa
    BY <1>2, SemaforoMuga DEF HelbideaLortu, ip_address_change_notify_callback, TypeOK, DhcpMota
  <2> QED
    BY <1>2, <2>1 DEF HelbideaLortu, TypeOK, DhcpMota
<1>3. CASE HelbideaGaldu
  <2>1. Semaphore' \in 0..MaxSemaforoa
    BY <1>3, SemaforoMuga DEF HelbideaGaldu, ip_address_change_notify_callback, TypeOK, DhcpMota
  <2> QED
    BY <1>3, <2>1 DEF HelbideaGaldu, TypeOK, DhcpMota
<1>4. CASE MainHasi
  BY <1>4 DEF MainHasi, TypeOK, DhcpMota
<1>5. CASE MainItxaron
  BY <1>5, SemaforoMuga DEF MainItxaron, TypeOK, DhcpMota
<1>6. CASE LinkHelbidea
  BY <1>6 DEF LinkHelbidea, TypeOK, DhcpMota
<1>7. CASE UNCHANGED dhcpVars
  BY <1>7 DEF dhcpVars, TypeOK, DhcpMota
<1> QED
  BY <1>1, <1>2, <1>3, <1>4, <1>5, <1>6, <1>7
  DEF Next, vars, App_Main_Thread_Entry, App_MQTT_Client_Thread_Entry,
      App_Link_Thread_Entry, MainPiztu, MqttKonektatu, MqttHuts, LinkEgoera,
      KonexioaGaldu

LEMMA HariMotaPausoa == TypeOK /\ [Next]_vars => HariMota'
<1> SUFFICES ASSUME TypeOK, [Next]_vars PROVE HariMota'
  OBVIOUS
<1>1. CASE App_Main_Thread_Entry
  BY <1>1 DEF App_Main_Thread_Entry, MainHasi, MainItxaron, MainPiztu, mqttVars,
     TypeOK, HariMota
<1>2. CASE App_MQTT_Client_Thread_Entry
  BY <1>2 DEF App_MQTT_Client_Thread_Entry, MqttKonektatu, MqttHuts, TypeOK, HariMota
<1>3. CASE KonexioaGaldu
  BY <1>3 DEF KonexioaGaldu, TypeOK, HariMota
<1>4. CASE UNCHANGED <<mainPc, mqttVars>>
  BY <1>4 DEF mqttVars, TypeOK, HariMota
<1> QED
  BY <1>1, <1>2, <1>3, <1>4
  DEF Next, vars, App_Link_Thread_Entry, LinkEgoera, LinkHelbidea, KableaMugitu,
      HelbideaLortu, HelbideaGaldu

LEMMA LinkMotaPausoa == TypeOK /\ [Next]_vars => LinkMota'
<1> SUFFICES ASSUME TypeOK, [Next]_vars PROVE LinkMota'
  OBVIOUS
<1>1. CASE LinkEgoera
  BY <1>1 DEF LinkEgoera, TypeOK, DhcpMota, LinkMota
<1>2. CASE LinkHelbidea
  BY <1>2 DEF LinkHelbidea, TypeOK, LinkMota
<1>3. CASE UNCHANGED linkVars
  BY <1>3 DEF linkVars, TypeOK, LinkMota
<1> QED
  BY <1>1, <1>2, <1>3
  DEF Next, vars, App_Link_Thread_Entry, App_Main_Thread_Entry, MainHasi, MainItxaron,
      MainPiztu, App_MQTT_Client_Thread_Entry, MqttKonektatu, MqttHuts, KableaMugitu,
      HelbideaLortu, HelbideaGaldu, KonexioaGaldu

\* Only the environment's steps put the semaphore, and each of them either gives
\* an address or takes one away that was given before.
LEMMA HelbideaPausoa ==
  IInv /\ [Next]_vars => SemaforoZerbaitegatik' /\ HelbideaAurretik'
<1> SUFFICES ASSUME IInv, [Next]_vars
             PROVE SemaforoZerbaitegatik' /\ HelbideaAurretik'
  OBVIOUS
<1> USE DEF IInv, TypeOK, DhcpMota, SemaforoZerbaitegatik, HelbideaAurretik,
            dhcpVars, mqttVars, linkVars
<1>1. CASE HelbideaLortu
  BY <1>1 DEF HelbideaLortu
<1>2. CASE HelbideaGaldu
  BY <1>2 DEF HelbideaGaldu
<1>3. CASE MainItxaron
  BY <1>3 DEF MainItxaron
<1>4. CASE MainHasi \/ MainPiztu
  BY <1>4 DEF MainHasi, MainPiztu
<1>5. CASE App_MQTT_Client_Thread_Entry
  BY <1>5 DEF App_MQTT_Client_Thread_Entry, MqttKonektatu, MqttHuts
<1>6. CASE App_Link_Thread_Entry
  BY <1>6 DEF App_Link_Thread_Entry, LinkEgoera, LinkHelbidea
<1>7. CASE KableaMugitu \/ KonexioaGaldu \/ UNCHANGED vars
  BY <1>7 DEF KableaMugitu, KonexioaGaldu, vars
<1> QED
  BY <1>1, <1>2, <1>3, <1>4, <1>5, <1>6, <1>7 DEF Next, App_Main_Thread_Entry

\* Only LinkHelbidea starts the DHCP client behind the main thread's back, and it
\* does not run before the main thread has blocked.
LEMMA MainPausoa == IInv /\ [Next]_vars => DhcpGeldi' /\ MainEzHuts'
<1> SUFFICES ASSUME IInv, [Next]_vars PROVE DhcpGeldi' /\ MainEzHuts'
  OBVIOUS
<1> USE DEF IInv, DhcpGeldi, MainEzHuts, dhcpVars, mqttVars, linkVars
<1>1. CASE App_Main_Thread_Entry
  BY <1>1 DEF App_Main_Thread_Entry, MainHasi, MainItxaron, MainPiztu
<1>2. CASE App_Link_Thread_Entry
  BY <1>2 DEF App_Link_Thread_Entry, LinkTxanda, LinkEgoera, LinkHelbidea
<1>3. CASE App_MQTT_Client_Thread_Entry
  BY <1>3 DEF App_MQTT_Client_Thread_Entry, MqttKonektatu, MqttHuts
<1>4. CASE KableaMugitu \/ HelbideaLortu \/ HelbideaGaldu \/ KonexioaGaldu
  BY <1>4 DEF KableaMugitu, HelbideaLortu, HelbideaGaldu, KonexioaGaldu
<1>5. CASE UNCHANGED vars
  BY <1>5 DEF vars
<1> QED
  BY <1>1, <1>2, <1>3, <1>4, <1>5 DEF Next

LEMMA Induktiboa == Spec => []IInv
<1>1. IInv /\ [Next]_vars => IInv'
  BY DhcpMotaPausoa, HariMotaPausoa, LinkMotaPausoa, HelbideaPausoa, MainPausoa
  DEF IInv, TypeOK
<1> QED
  BY Hasiera, <1>1, PTL DEF Spec
-----------------------------------------------------------------------------
\* Every state of the board's network life is well typed.
THEOREM SareaMotak == Spec => []TypeOK
BY Induktiboa, PTL DEF IInv

\* The MQTT thread (App_MQTT_Client_Thread_Entry) never runs before the interface
\* has had an address, although the callback that puts the semaphore does not
\* look at the address: it is called for lost addresses too.
THEOREM HelbideaAurretikBeti == Spec => []HelbideaAurretik
BY Induktiboa, PTL DEF IInv

\* The main thread never ends in Error_Handler: the link thread's restarts of the
\* DHCP client cannot come before its own start.
THEOREM MainEzHutsBeti == Spec => []MainEzHuts
BY Induktiboa, PTL DEF IInv
=============================================================================
