------------------------------- MODULE Sarea -------------------------------
(***************************************************************************)
(* The board's network life: App_Main_Thread_Entry, which waits for DHCP   *)
(* and then starts the MQTT thread; the MQTT thread up to the point where  *)
(* Error_Handler holds it for ever; and App_Link_Thread_Entry, which       *)
(* watches the cable (app_netxduo.c).  The cable, the DHCP server and the  *)
(* broker are the environment.                                             *)
(*                                                                         *)
(* Scheduling.  The main thread has priority 10 and the link thread 11:    *)
(* the link thread runs only while the main thread is blocked.  Its steps  *)
(* end where nx_ip_interface_status_check may wait.                        *)
(***************************************************************************)
EXTENDS Naturals

CONSTANT MaxSemaforoa   \* bound: puts the semaphore counts

ASSUME SemaforoMuga == MaxSemaforoa \in Nat \ {0}

VARIABLES
  kablea,                  \* the cable is plugged: what the PHY reports
  helbidea,                \* the interface has an address
  dhcp,                    \* the DHCP client is started
  Semaphore,               \* "DHCP Semaphore"
  mainPc,
  mqttPc, konektatuta,     \* the MQTT thread; its connection is usable
  linkPc, linkdown,        \* the link thread and its local flag
  izan                     \* history: an address was obtained

dhcpVars == <<kablea, helbidea, dhcp, Semaphore, izan>>
mqttVars == <<mqttPc, konektatuta>>
linkVars == <<linkPc, linkdown>>
vars == <<dhcpVars, mainPc, mqttVars, linkVars>>

Init == /\ kablea \in BOOLEAN
        /\ helbidea = FALSE /\ dhcp = FALSE /\ Semaphore = 0 /\ izan = FALSE
        /\ mainPc = "hasi"
        /\ mqttPc = "lo" /\ konektatuta = FALSE
        /\ linkPc = "egoera" /\ linkdown = FALSE
-----------------------------------------------------------------------------
(* The environment. *)

KableaMugitu == /\ kablea' = ~kablea
                /\ UNCHANGED <<helbidea, dhcp, Semaphore, izan, mainPc, mqttVars, linkVars>>

\* NetX calls ip_address_change_notify_callback whenever the address changes,
\* when it is lost as well as when it is obtained.
ip_address_change_notify_callback ==
  Semaphore' = IF Semaphore < MaxSemaforoa THEN Semaphore + 1 ELSE Semaphore

HelbideaLortu == /\ dhcp /\ kablea /\ ~helbidea
                 /\ helbidea' = TRUE /\ izan' = TRUE
                 /\ ip_address_change_notify_callback
                 /\ UNCHANGED <<kablea, dhcp, mainPc, mqttVars, linkVars>>

\* The lease ends, or the server refuses to renew it.
HelbideaGaldu == /\ helbidea
                 /\ helbidea' = FALSE
                 /\ ip_address_change_notify_callback
                 /\ UNCHANGED <<kablea, dhcp, izan, mainPc, mqttVars, linkVars>>

\* The broker or TCP gives the connection up; my_disconnect_func only prints.
KonexioaGaldu == /\ konektatuta
                 /\ konektatuta' = FALSE
                 /\ UNCHANGED <<dhcpVars, mainPc, mqttPc, linkVars>>
-----------------------------------------------------------------------------
(* App_Main_Thread_Entry. *)

\* Mutant: the semaphore is not waited for.
MutMainHasiItxaronGabe ==
  /\ mainPc = "hasi"
  /\ mainPc' = IF dhcp THEN "errorea" ELSE "piztu"
  /\ dhcp' = TRUE
  /\ UNCHANGED <<kablea, helbidea, Semaphore, izan, mqttVars, linkVars>>

\* nx_dhcp_start refuses a client that is started: Error_Handler.
MainHasi == /\ mainPc = "hasi"
            /\ mainPc' = IF dhcp THEN "errorea" ELSE "itxaron"
            /\ dhcp' = TRUE
            /\ UNCHANGED <<kablea, helbidea, Semaphore, izan, mqttVars, linkVars>>

\* Mutant: the count goes down without a wait.
MutMainItxaronHutsa == /\ mainPc = "itxaron"
                       /\ Semaphore' = Semaphore - 1
                       /\ mainPc' = "piztu"
                       /\ UNCHANGED <<kablea, helbidea, dhcp, izan, mqttVars, linkVars>>

MainItxaron == /\ mainPc = "itxaron" /\ Semaphore > 0
               /\ Semaphore' = Semaphore - 1
               /\ mainPc' = "piztu"
               /\ UNCHANGED <<kablea, helbidea, dhcp, izan, mqttVars, linkVars>>

\* tx_thread_resume of a thread created with TX_DONT_START; then return.
MainPiztu == /\ mainPc = "piztu"
             /\ mainPc' = "amaitua"
             /\ mqttPc' = "konektatu"
             /\ UNCHANGED <<dhcpVars, konektatuta, linkVars>>

App_Main_Thread_Entry == MainHasi \/ MainItxaron \/ MainPiztu
-----------------------------------------------------------------------------
(* App_MQTT_Client_Thread_Entry, without the messages: see Plaka. *)

MqttKonektatu ==
  /\ mqttPc = "konektatu"
  /\ \/ kablea /\ helbidea /\ konektatuta' = TRUE /\ mqttPc' = "begizta"
     \/ mqttPc' = "errorea" /\ UNCHANGED konektatuta
  /\ UNCHANGED <<dhcpVars, mainPc, linkVars>>

\* The subscription or a publish finds no connection.
MqttHuts ==
  /\ mqttPc = "begizta" /\ ~konektatuta
  /\ mqttPc' = "errorea"
  /\ UNCHANGED <<dhcpVars, mainPc, konektatuta, linkVars>>

App_MQTT_Client_Thread_Entry == MqttKonektatu \/ MqttHuts
-----------------------------------------------------------------------------
(* App_Link_Thread_Entry. *)

\* Mutants: the priorities are ignored; the flag is never cleared.
MutLinkTxandaBeti == TRUE
MutLinkEgoeraGarbituGabe ==
  /\ (mainPc = "itxaron" /\ Semaphore = 0) \/ mainPc \in {"amaitua", "errorea"}
  /\ linkPc = "egoera"
  /\ linkdown' = (linkdown \/ ~kablea)
  /\ linkPc' = IF kablea /\ linkdown THEN "helbidea" ELSE "egoera"
  /\ UNCHANGED <<dhcpVars, mainPc, mqttVars>>

LinkTxanda == \/ mainPc = "itxaron" /\ Semaphore = 0
              \/ mainPc \in {"amaitua", "errorea"}

LinkEgoera ==
  /\ LinkTxanda /\ linkPc = "egoera"
  /\ linkdown' = ~kablea
  /\ linkPc' = IF kablea /\ linkdown THEN "helbidea" ELSE "egoera"
  /\ UNCHANGED <<dhcpVars, mainPc, mqttVars>>

\* Mutant: the DHCP client is stopped and not started.
MutLinkHelbideaGelditu ==
  /\ LinkTxanda /\ linkPc = "helbidea"
  /\ linkPc' = "egoera"
  /\ \/ helbidea /\ UNCHANGED dhcp
     \/ ~helbidea /\ dhcp' = FALSE
  /\ UNCHANGED <<kablea, helbidea, Semaphore, izan, mainPc, mqttVars, linkdown>>

\* With an address the thread only prints so, whatever the MQTT thread
\* does; without, it stops the DHCP client and starts it again.
LinkHelbidea ==
  /\ LinkTxanda /\ linkPc = "helbidea"
  /\ linkPc' = "egoera"
  /\ \/ helbidea /\ UNCHANGED dhcp
     \/ ~helbidea /\ dhcp' = TRUE
  /\ UNCHANGED <<kablea, helbidea, Semaphore, izan, mainPc, mqttVars, linkdown>>

App_Link_Thread_Entry == LinkEgoera \/ LinkHelbidea
-----------------------------------------------------------------------------
Next == \/ KableaMugitu \/ HelbideaLortu \/ HelbideaGaldu \/ KonexioaGaldu
        \/ App_Main_Thread_Entry
        \/ App_MQTT_Client_Thread_Entry
        \/ App_Link_Thread_Entry

Spec == Init /\ [][Next]_vars

\* The scheduler runs every ready thread, the lowest ones while the others are
\* blocked; a DHCP server answers a client whose cable stays plugged.
Bidezkoa == /\ WF_vars(App_Main_Thread_Entry)
            /\ WF_vars(App_MQTT_Client_Thread_Entry)
            /\ SF_vars(App_Link_Thread_Entry)
            /\ WF_vars(HelbideaLortu)

FairSpec == Spec /\ Bidezkoa
-----------------------------------------------------------------------------
DhcpMota == /\ kablea \in BOOLEAN /\ helbidea \in BOOLEAN
            /\ dhcp \in BOOLEAN /\ izan \in BOOLEAN
            /\ Semaphore \in 0..MaxSemaforoa
HariMota == /\ mainPc \in {"hasi", "itxaron", "piztu", "amaitua", "errorea"}
            /\ mqttPc \in {"lo", "konektatu", "begizta", "errorea"}
            /\ konektatuta \in BOOLEAN
LinkMota == /\ linkPc \in {"egoera", "helbidea"} /\ linkdown \in BOOLEAN

\* Types, and the bound on the semaphore.
TypeOK == DhcpMota /\ HariMota /\ LinkMota

\* The MQTT thread does not run before DHCP has given an address once, although
\* the callback also counts the loss of an address and NetX's own threads call
\* it at any time.
HelbideaAurretik == mqttPc # "lo" \/ mainPc = "piztu" => izan

\* The main thread is never held in Error_Handler by a DHCP client that the link
\* thread has started first, whenever the cable is pulled and plugged.
MainEzHuts == mainPc # "errorea"

\* A cable that stays plugged in the end gets the MQTT thread started, however
\* the cable, the address and the link thread's restarts behaved before.
MqttAbiatu == <>[]kablea => <>(mqttPc # "lo")

\* The link thread's flag settles on the state in which the cable settles.
LinkdownZehatza == (<>[]kablea => <>[]~linkdown) /\ (<>[]~kablea => <>[]linkdown)
=============================================================================
