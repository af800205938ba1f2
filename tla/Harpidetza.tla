----------------------------- MODULE Harpidetza -----------------------------
(***************************************************************************)
(* The life of the dashboard's MQTT subscribers: the main window connects  *)
(* one to the broker of every laboratory; choosing a laboratory            *)
(* disconnects them one after the other, closes the window and opens the   *)
(* laboratory's, with a subscriber of its own.  All of them use one client *)
(* id, and a broker that gets a second client with an id drops the first.  *)
(*                                                                         *)
(* The Swing event thread (EDT) runs the constructors and valueChanged;    *)
(* each connected subscriber has a callback thread, whose messages come at *)
(* any time from the subscription on.                                      *)
(***************************************************************************)
EXTENDS Naturals

CONSTANT LabKop        \* number of laboratories, each with a broker of its own

ASSUME LabMugak == LabKop \in Nat \ {0}

Lab == 1..LabKop
Leihoak == {"nagusia", "lab"}

VARIABLES
  edt, i,        \* what the EDT does, and for which laboratory
  leihoa,        \* the window shown
  eraikita,      \* the fields of each window that its listener uses are set
  hautatua,      \* the list's selection; 0 is none
  bez,           \* the state of each window's subscriber at each broker
  irteera,       \* why the process has ended
  hutsegitea     \* history: a call to a broker has failed

edtVars == <<edt, i, leihoa, eraikita>>
vars == <<edtVars, hautatua, bez, irteera, hutsegitea>>

\* The constructor of MqttSuscribe, call by call.  "gasa" and "biak" are
\* subscribed before konektorea exists, "konektorea" has no listener yet.
Eraikitzen == {"konektatuta", "gasa", "biak", "konektorea"}
Konektatuta == Eraikitzen \cup {"entzuten"}
Egoerak == {"ez"} \cup Konektatuta \cup {"itxita", "kanporatuta", "galduta"}

Bizirik == irteera = "ez"

Init ==
  /\ edt = "entzutenHasi" /\ i = 1
  /\ leihoa = "bat ere ez" /\ eraikita = [l \in Leihoak |-> FALSE]
  /\ hautatua = 0
  /\ bez = [l \in Leihoak |-> [k \in Lab |-> "ez"]]
  /\ irteera = "ez" /\ hutsegitea = FALSE
-----------------------------------------------------------------------------
(* new MqttSuscribe(broker, CLIENT_ID) and addPropertyChangeListener. *)

Bestea(l) == IF l = "lab" THEN "nagusia" ELSE "lab"

\* connect: the broker drops the client of the other window, if it is there.
connect(l) ==
  /\ bez[l][i] = "ez"
  /\ bez' = [bez EXCEPT ![l][i] = "konektatuta",
                        ![Bestea(l)][i] = IF @ \in Konektatuta THEN "kanporatuta" ELSE @]

Hurrengoa == [konektatuta |-> "gasa", gasa |-> "biak", biak |-> "konektorea",
              konektorea |-> "entzuten"]
subscribe(l) ==
  /\ bez[l][i] \in Eraikitzen
  /\ bez' = [bez EXCEPT ![l][i] = Hurrengoa[@]]

MqttSuscribe(l) == /\ connect(l) \/ subscribe(l)
                   /\ UNCHANGED <<edtVars, hautatua, irteera, hutsegitea>>

\* connect, or a subscribe, throws; a client connected by then stays connected.
MqttException(l) == bez[l][i] \in {"ez", "konektatuta", "gasa"} /\ hutsegitea' = TRUE
-----------------------------------------------------------------------------
(* The EDT: the constructor of Printzipala. *)

\* entzutenHasi: a failure leaves the constructor; LoginPanela prints it.
EntzutenHasi ==
  /\ Bizirik /\ edt = "entzutenHasi"
  /\ \/ i <= LabKop /\ MqttSuscribe("nagusia")
     \/ /\ i <= LabKop /\ bez["nagusia"][i] = "entzuten"
        /\ i' = i + 1
        /\ UNCHANGED <<edt, leihoa, eraikita, hautatua, bez, irteera, hutsegitea>>
     \/ /\ i <= LabKop /\ MqttException("nagusia")
        /\ edt' = "geldi"
        /\ UNCHANGED <<i, leihoa, eraikita, hautatua, bez, irteera>>
     \/ /\ i = LabKop + 1
        /\ edt' = "zain" /\ leihoa' = "nagusia" /\ eraikita' = [eraikita EXCEPT !["nagusia"] = TRUE]
        /\ UNCHANGED <<i, hautatua, bez, irteera, hutsegitea>>

\* A laboratory is selected in the list; valueChanged is called.
Hautatu(k) ==
  /\ Bizirik /\ edt = "zain" /\ leihoa = "nagusia"
  /\ hautatua' = k
  /\ edt' = "valueChanged" /\ i' = 1
  /\ UNCHANGED <<leihoa, eraikita, bez, irteera, hutsegitea>>

\* Mutant: the first of the list is taken for none.
MutValueChangedBatetik ==
  /\ Bizirik /\ edt = "valueChanged"
  /\ edt' = IF hautatua <= 1 THEN "zain" ELSE "entzutenBukatu"
  /\ UNCHANGED <<i, leihoa, eraikita, hautatua, bez, irteera, hutsegitea>>

\* getSelectedIndex: a message may have cleared the selection again.
valueChanged ==
  /\ Bizirik /\ edt = "valueChanged"
  /\ edt' = IF hautatua = 0 THEN "zain" ELSE "entzutenBukatu"
  /\ UNCHANGED <<i, leihoa, eraikita, hautatua, bez, irteera, hutsegitea>>

\* Mutant: the last subscriber is left out.
MutEntzutenBukatuAzkenaGabe ==
  /\ Bizirik /\ edt = "entzutenBukatu"
  /\ \/ /\ i < LabKop /\ bez["nagusia"][i] \in Konektatuta
        /\ bez' = [bez EXCEPT !["nagusia"][i] = "itxita"]
        /\ i' = i + 1
        /\ UNCHANGED edt
     \/ /\ i = LabKop
        /\ edt' = "dispose"
        /\ UNCHANGED <<i, bez>>
  /\ UNCHANGED <<leihoa, eraikita, hautatua, irteera, hutsegitea>>

\* entzutenBukatu: a disconnect that fails is printed and the rest skipped.
EntzutenBukatu ==
  /\ Bizirik /\ edt = "entzutenBukatu"
  /\ \/ /\ i <= LabKop /\ bez["nagusia"][i] \in Konektatuta
        /\ bez' = [bez EXCEPT !["nagusia"][i] = "itxita"]
        /\ i' = i + 1
        /\ UNCHANGED <<edt, hutsegitea>>
     \/ /\ i <= LabKop
        /\ edt' = "dispose" /\ hutsegitea' = TRUE
        /\ UNCHANGED <<i, bez>>
     \/ /\ i = LabKop + 1
        /\ edt' = "dispose"
        /\ UNCHANGED <<i, bez, hutsegitea>>
  /\ UNCHANGED <<leihoa, eraikita, hautatua, irteera>>

\* Mutant: the selection read again is not looked at.
MutDisposeHautatuGabe ==
  /\ Bizirik /\ edt = "dispose"
  /\ leihoa' = "bat ere ez"
  /\ edt' = "LaborategiaPanela" /\ i' = hautatua
  /\ UNCHANGED <<eraikita, hautatua, bez, irteera, hutsegitea>>

\* dispose, then the selection is read again: without one the constructor of
\* LaborategiaPanela throws on the EDT, and no window is left.
Dispose ==
  /\ Bizirik /\ edt = "dispose"
  /\ leihoa' = "bat ere ez"
  /\ IF hautatua = 0 THEN edt' = "geldi" /\ UNCHANGED i
                     ELSE edt' = "LaborategiaPanela" /\ i' = hautatua
  /\ UNCHANGED <<eraikita, hautatua, bez, irteera, hutsegitea>>

\* Mutant: the exception is printed and the window opened all the same.
MutLaborategiaPanelaJarraitu ==
  /\ Bizirik /\ edt = "LaborategiaPanela"
  /\ \/ MqttSuscribe("lab")
     \/ /\ MqttException("lab") \/ (bez["lab"][i] = "entzuten" /\ UNCHANGED hutsegitea)
        /\ edt' = "zain" /\ leihoa' = "lab" /\ eraikita' = [eraikita EXCEPT !["lab"] = TRUE]
        /\ UNCHANGED <<i, hautatua, bez, irteera>>

\* The constructor of LaborategiaPanela: after a failure mqtt is null, and
\* mostrarGrafikak throws before the window is shown.
LaborategiaPanela ==
  /\ Bizirik /\ edt = "LaborategiaPanela"
  /\ \/ MqttSuscribe("lab")
     \/ /\ MqttException("lab")
        /\ edt' = "geldi"
        /\ UNCHANGED <<i, leihoa, eraikita, hautatua, bez, irteera>>
     \/ /\ bez["lab"][i] = "entzuten"
        /\ edt' = "zain" /\ leihoa' = "lab" /\ eraikita' = [eraikita EXCEPT !["lab"] = TRUE]
        /\ UNCHANGED <<i, hautatua, bez, irteera, hutsegitea>>

Edt == EntzutenHasi \/ valueChanged \/ EntzutenBukatu \/ Dispose \/ LaborategiaPanela
-----------------------------------------------------------------------------
(* The callback threads. *)

\* A message on a topic subscribed to.  Before konektorea exists, and while the
\* window is not built, an exception leaves messageArrived: the client shuts the
\* connection down and connectionLost exits.  Only an infragorri message for a
\* laboratory's window needs nothing of it.  The main window shows its list anew,
\* which clears the selection.
messageArrived(l, k, gaia) ==
  /\ Bizirik
  /\ bez[l][k] \in {"biak", "entzuten"} \/ (bez[l][k] = "gasa" /\ gaia = "gas")
  /\ \/ /\ bez[l][k] # "entzuten" \/ (~eraikita[l] /\ <<l, gaia>> # <<"lab", "infragorri">>)
        /\ irteera' = "mezua"
        /\ UNCHANGED hautatua
     \/ /\ bez[l][k] = "entzuten" /\ eraikita[l] /\ l = "nagusia"
        /\ hautatua' = 0
        /\ UNCHANGED irteera
  /\ UNCHANGED <<edtVars, bez, hutsegitea>>

\* The network, or the broker, fails.
KonexioaGaldu(l, k) ==
  /\ Bizirik /\ bez[l][k] \in Konektatuta
  /\ bez' = [bez EXCEPT ![l][k] = "galduta"]
  /\ UNCHANGED <<edtVars, hautatua, irteera, hutsegitea>>

connectionLost(l, k) ==
  /\ Bizirik /\ bez[l][k] \in {"kanporatuta", "galduta"}
  /\ irteera' = bez[l][k]
  /\ UNCHANGED <<edtVars, hautatua, bez, hutsegitea>>

Sarea == \E l \in Leihoak, k \in Lab :
           \/ \E gaia \in {"gas", "infragorri"} : messageArrived(l, k, gaia)
           \/ KonexioaGaldu(l, k) \/ connectionLost(l, k)

Next == Edt \/ Sarea \/ \E k \in Lab : Hautatu(k)

Spec == Init /\ [][Next]_vars
FairSpec == /\ Spec /\ WF_vars(Edt)
            /\ \A l \in Leihoak, k \in Lab : WF_vars(connectionLost(l, k))
-----------------------------------------------------------------------------
TypeOK ==
  /\ edt \in {"entzutenHasi", "zain", "valueChanged", "entzutenBukatu", "dispose",
              "LaborategiaPanela", "geldi"}
  /\ i \in 1..LabKop + 1
  /\ leihoa \in Leihoak \cup {"bat ere ez"}
  /\ eraikita \in [Leihoak -> BOOLEAN]
  /\ hautatua \in Lab \cup {0}
  /\ bez \in [Leihoak -> [Lab -> Egoerak]]
  /\ irteera \in {"ez", "mezua", "kanporatuta", "galduta"}
  /\ hutsegitea \in BOOLEAN

\* The dashboard never throws one of its own subscribers out of a broker, which
\* ends the process, unless a call to a broker has failed before.
KanporaketaArrazoia ==
  (\E l \in Leihoak, k \in Lab : bez[l][k] = "kanporatuta") => hutsegitea

\* The window of a laboratory is never shown without a subscriber that listens to
\* it: whatever fails on the way leaves no window, and not a silent one.
LeihoaEntzuten == leihoa = "lab" => bez["lab"][i] \in {"entzuten", "kanporatuta", "galduta"}

\* A choice in the list ends in the laboratory's window, unless the process ends, a
\* call to a broker has failed, or a message clears the selection half-way.
HautaketaBete ==
  edt = "valueChanged" ~> leihoa = "lab" \/ hautatua = 0 \/ ~Bizirik \/ hutsegitea
=============================================================================
