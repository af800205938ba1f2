-------------------------- MODULE HarpidetzaProofs --------------------------
(***************************************************************************)
(* Proofs about Harpidetza for every number of laboratories: the dashboard *)
(* throws itself out of a broker only after a failed call, and never shows *)
(* the window of a laboratory without a subscriber.  Both rest on the order*)
(* of the calls: by the time the second window connects, the first has     *)
(* closed all its subscribers, or a disconnect has failed.                 *)
(***************************************************************************)
EXTENDS Harpidetza, TLAPS

\* While the first window connects, the second has no subscriber.
LabGabe == edt = "entzutenHasi" => \A k \in Lab : bez["lab"][k] = "ez"

\* What entzutenBukatu has closed by then, unless a call has failed.
ItxiArte == ~hutsegitea =>
  /\ edt \in {"valueChanged", "entzutenBukatu"} =>
       \A k \in Lab : k < i => bez["nagusia"][k] = "itxita"
  /\ edt \in {"dispose", "LaborategiaPanela"} => \A k \in Lab : bez["nagusia"][k] = "itxita"

\* The window of a laboratory is built for one, and then only listens.
LabLeihoa == /\ edt = "LaborategiaPanela" => i \in Lab
             /\ leihoa = "lab" => edt = "zain"

Ordena == LabGabe /\ ItxiArte /\ LabLeihoa /\ KanporaketaArrazoia /\ LeihoaEntzuten

IInv == TypeOK /\ Ordena
-----------------------------------------------------------------------------
LEMMA Hasiera == Init => IInv
<1> SUFFICES ASSUME Init PROVE IInv
  OBVIOUS
<1>1. i \in 1..LabKop + 1
  <2>1. i = 1
    BY DEF Init
  <2> QED
    BY <2>1, LabMugak
<1>2. bez \in [Leihoak -> [Lab -> {"ez"}]]
  BY DEF Init
<1>3. bez \in [Leihoak -> [Lab -> Egoerak]] /\ eraikita \in [Leihoak -> BOOLEAN]
  BY <1>2 DEF Init, Egoerak
<1>4. TypeOK
  BY <1>1, <1>3 DEF Init, TypeOK, Leihoak
<1>5. LabGabe /\ ItxiArte /\ LabLeihoa
  BY <1>2 DEF Init, LabGabe, ItxiArte, LabLeihoa, Leihoak
<1>6. KanporaketaArrazoia /\ LeihoaEntzuten
  BY <1>2 DEF Init, KanporaketaArrazoia, LeihoaEntzuten
<1> QED
  BY <1>4, <1>5, <1>6 DEF IInv, Ordena

-----------------------------------------------------------------------------
(* What the calls of the constructor do to bez. *)

BezMota == bez \in [Leihoak -> [Lab -> Egoerak]]

\* A call of the constructor: only connect touches the other window's subscriber, and
\* only one that is connected.
LEMMA Eraiki ==
  ASSUME BezMota, NEW l \in Leihoak, i \in Lab, MqttSuscribe(l)
  PROVE  /\ BezMota'
         /\ bez'[l][i] \in Konektatuta
         /\ \A m \in Leihoak, k \in Lab :
              (m # l /\ bez[m][k] \notin Konektatuta) \/ k # i => bez'[m][k] = bez[m][k]
         /\ UNCHANGED <<edtVars, hautatua, irteera, hutsegitea>>
<1>1. UNCHANGED <<edtVars, hautatua, irteera, hutsegitea>>
  BY DEF MqttSuscribe
<1>2. CASE connect(l)
  <2> DEFINE b == Bestea(l)
             e == IF bez[b][i] \in Konektatuta THEN "kanporatuta" ELSE bez[b][i]
  <2>1. b \in Leihoak /\ b # l /\ (\A m \in Leihoak : m # l => m = b)
    BY DEF Bestea, Leihoak
  <2>2. e \in Egoerak /\ "konektatuta" \in Konektatuta /\ "konektatuta" \in Egoerak
    BY <2>1 DEF BezMota, Egoerak, Konektatuta, Eraikitzen
  <2>3. bez' = [bez EXCEPT ![l][i] = "konektatuta", ![b][i] = e]
    BY <1>2, <2>1 DEF connect, BezMota
  <2> HIDE DEF b
  <2>4. /\ BezMota'
        /\ bez'[l][i] = "konektatuta" /\ bez'[b][i] = e
        /\ \A m \in Leihoak, k \in Lab : k # i => bez'[m][k] = bez[m][k]
    <3> HIDE DEF e
    <3> QED
      BY <2>1, <2>2, <2>3 DEF BezMota
  <2> QED
    BY <1>1, <2>1, <2>2, <2>4
<1>3. CASE subscribe(l)
  <2>1. bez[l][i] \in Eraikitzen /\ Hurrengoa[bez[l][i]] \in Konektatuta
    BY <1>3 DEF subscribe, Eraikitzen, Konektatuta, Hurrengoa
  <2>2. Hurrengoa[bez[l][i]] \in Egoerak
    BY <2>1 DEF Egoerak
  <2>3. bez' = [bez EXCEPT ![l][i] = Hurrengoa[bez[l][i]]]
    BY <1>3 DEF subscribe, BezMota
  <2> QED
    BY <1>1, <2>1, <2>2, <2>3 DEF BezMota
<1> QED
  BY <1>2, <1>3 DEF MqttSuscribe

LEMMA Isilik ==
  ASSUME Ordena, UNCHANGED <<edtVars, bez, hutsegitea>>
  PROVE  Ordena'
  BY DEF edtVars, Ordena, LabGabe, ItxiArte, LabLeihoa, KanporaketaArrazoia, LeihoaEntzuten
-----------------------------------------------------------------------------
(* The actions, one lemma each. *)

LEMMA EntzutenHasiPausoa == IInv /\ EntzutenHasi => IInv'
<1> SUFFICES ASSUME IInv, EntzutenHasi PROVE IInv'
  OBVIOUS
<1> USE DEF IInv
<1>1. BezMota /\ i \in 1..LabKop + 1 /\ LabKop \in Nat
  BY LabMugak DEF TypeOK, BezMota
<1>2. CASE i <= LabKop /\ MqttSuscribe("nagusia")
  <2>1. i \in Lab /\ "nagusia" \in Leihoak /\ "lab" \in Leihoak
    BY <1>1, <1>2 DEF Lab, Leihoak
  <2>2. /\ BezMota' /\ bez'["nagusia"][i] \in Konektatuta
        /\ \A m \in Leihoak, k \in Lab :
             (m # "nagusia" /\ bez[m][k] \notin Konektatuta) \/ k # i => bez'[m][k] = bez[m][k]
        /\ UNCHANGED <<edtVars, hautatua, irteera, hutsegitea>>
    BY <1>1, <1>2, <2>1, Eraiki
  <2>3. TypeOK'
    BY <2>2 DEF TypeOK, BezMota, edtVars
  <2>4. edt = "entzutenHasi" /\ \A k \in Lab : bez["lab"][k] = "ez"
    BY DEF EntzutenHasi, Ordena, LabGabe
  <2>5. "ez" \notin Konektatuta /\ "kanporatuta" \notin Konektatuta
    BY DEF Konektatuta, Eraikitzen
  <2>6. \A k \in Lab : bez'["lab"][k] = "ez"
    BY <2>1, <2>2, <2>4, <2>5
  <2>7. LabGabe' /\ ItxiArte' /\ LabLeihoa' /\ LeihoaEntzuten'
    BY <2>2, <2>4, <2>6 DEF edtVars, Ordena, LabGabe, ItxiArte, LabLeihoa, LeihoaEntzuten
  <2>8. KanporaketaArrazoia'
    BY <2>1, <2>2, <2>5, <2>6 DEF Ordena, KanporaketaArrazoia, Leihoak
  <2> QED
    BY <2>3, <2>7, <2>8 DEF Ordena
<1>3. CASE UNCHANGED bez
  <2>1. TypeOK'
    <3>1. i' \in 1..LabKop + 1
      BY <1>1, <1>3 DEF EntzutenHasi, MqttSuscribe, edtVars
    <3>2. eraikita' \in [Leihoak -> BOOLEAN] /\ leihoa' \in Leihoak \cup {"bat ere ez"}
      BY <1>3 DEF EntzutenHasi, MqttSuscribe, edtVars, TypeOK, Leihoak
    <3>3. hutsegitea' \in BOOLEAN
      BY <1>3 DEF EntzutenHasi, MqttSuscribe, MqttException, TypeOK
    <3> QED
      BY <1>3, <3>1, <3>2, <3>3 DEF EntzutenHasi, MqttSuscribe, edtVars, TypeOK
  <2>2. Ordena'
    BY <1>3 DEF EntzutenHasi, MqttSuscribe, MqttException, edtVars, Ordena, LabGabe,
       ItxiArte, LabLeihoa, KanporaketaArrazoia, LeihoaEntzuten
  <2> QED
    BY <2>1, <2>2
<1> QED
  BY <1>2, <1>3 DEF EntzutenHasi

LEMMA EntzutenBukatuPausoa == IInv /\ EntzutenBukatu => IInv'
<1> SUFFICES ASSUME IInv, EntzutenBukatu PROVE IInv'
  OBVIOUS
<1> USE DEF IInv
<1>1. BezMota /\ i \in 1..LabKop + 1 /\ LabKop \in Nat /\ "nagusia" \in Leihoak
  BY LabMugak DEF TypeOK, BezMota, Leihoak
<1>2. CASE /\ i <= LabKop /\ i' = i + 1
           /\ bez' = [bez EXCEPT !["nagusia"][i] = "itxita"]
           /\ UNCHANGED <<edt, hutsegitea>>
  <2>1. i \in Lab /\ i' \in 1..LabKop + 1 /\ "itxita" \in Egoerak
    BY <1>1, <1>2 DEF Lab, Egoerak
  <2>2. /\ BezMota' /\ bez'["nagusia"][i] = "itxita"
        /\ \A m \in Leihoak, k \in Lab : m # "nagusia" \/ k # i => bez'[m][k] = bez[m][k]
    BY <1>1, <1>2, <2>1 DEF BezMota
  <2>3. TypeOK'
    BY <1>2, <2>1, <2>2 DEF EntzutenBukatu, BezMota, TypeOK
  <2>4. edt = "entzutenBukatu"
    BY DEF EntzutenBukatu
  <2>5. ItxiArte'
    BY <1>1, <1>2, <2>1, <2>2, <2>4 DEF Ordena, ItxiArte, Lab
  <2>6. LabGabe' /\ LabLeihoa' /\ LeihoaEntzuten'
    BY <1>2, <2>4 DEF EntzutenBukatu, Ordena, LabGabe, LabLeihoa, LeihoaEntzuten
  <2>7. KanporaketaArrazoia'
    BY <1>2, <2>2 DEF Ordena, KanporaketaArrazoia
  <2> QED
    BY <2>3, <2>5, <2>6, <2>7 DEF Ordena
<1>3. CASE edt' = "dispose" /\ UNCHANGED <<i, bez>>
  <2>1. TypeOK'
    BY <1>3 DEF EntzutenBukatu, TypeOK
  <2>2. ItxiArte'
    BY <1>1, <1>3 DEF EntzutenBukatu, Ordena, ItxiArte, Lab
  <2>3. LabGabe' /\ LabLeihoa' /\ LeihoaEntzuten'
    BY <1>3 DEF EntzutenBukatu, Ordena, LabGabe, LabLeihoa, LeihoaEntzuten
  <2>4. KanporaketaArrazoia'
    BY <1>3 DEF EntzutenBukatu, Ordena, KanporaketaArrazoia
  <2> QED
    BY <2>1, <2>2, <2>3, <2>4 DEF Ordena
<1> QED
  BY <1>2, <1>3 DEF EntzutenBukatu

LEMMA DisposePausoa == IInv /\ Dispose => IInv'
<1> SUFFICES ASSUME IInv, Dispose PROVE IInv'
  OBVIOUS
<1> USE DEF IInv
<1>1. hautatua # 0 => hautatua \in Lab /\ hautatua \in 1..LabKop + 1
  <2>1. hautatua \in Lab \cup {0}
    BY DEF TypeOK
  <2> QED
    BY <2>1, LabMugak DEF Lab
<1>2. TypeOK'
  BY <1>1 DEF Dispose, TypeOK
<1>3. LabGabe' /\ ItxiArte' /\ LabLeihoa' /\ LeihoaEntzuten'
  BY <1>1 DEF Dispose, Ordena, LabGabe, ItxiArte, LabLeihoa, LeihoaEntzuten
<1>4. KanporaketaArrazoia'
  BY DEF Dispose, Ordena, KanporaketaArrazoia
<1> QED
  BY <1>2, <1>3, <1>4 DEF Ordena

LEMMA LaborategiaPanelaPausoa == IInv /\ LaborategiaPanela => IInv'
<1> SUFFICES ASSUME IInv, LaborategiaPanela PROVE IInv'
  OBVIOUS
<1> USE DEF IInv
<1>1. edt = "LaborategiaPanela" /\ i \in Lab /\ leihoa # "lab" /\ BezMota
  BY DEF LaborategiaPanela, Ordena, LabLeihoa, TypeOK, BezMota
<1>2. CASE MqttSuscribe("lab")
  <2>1. "nagusia" \in Leihoak /\ "lab" \in Leihoak
    BY DEF Leihoak
  <2>2. /\ BezMota' /\ bez'["lab"][i] \in Konektatuta
        /\ \A m \in Leihoak, k \in Lab :
             (m # "lab" /\ bez[m][k] \notin Konektatuta) \/ k # i => bez'[m][k] = bez[m][k]
        /\ UNCHANGED <<edtVars, hautatua, irteera, hutsegitea>>
    BY <1>1, <1>2, <2>1, Eraiki
  <2>3. TypeOK'
    BY <2>2 DEF TypeOK, BezMota, edtVars
  <2>4. "itxita" \notin Konektatuta /\ "kanporatuta" \notin Konektatuta
    BY DEF Konektatuta, Eraikitzen
  <2>5. ASSUME ~hutsegitea
        PROVE  \A k \in Lab : bez'["nagusia"][k] = "itxita" /\ bez["nagusia"][k] = "itxita"
    BY <1>1, <2>1, <2>2, <2>4, <2>5 DEF Ordena, ItxiArte
  <2>6. LabGabe' /\ ItxiArte' /\ LabLeihoa' /\ LeihoaEntzuten'
    BY <1>1, <2>2, <2>5 DEF edtVars, Ordena, LabGabe, ItxiArte, LabLeihoa, LeihoaEntzuten
  <2>7. KanporaketaArrazoia'
    BY <2>1, <2>2, <2>4, <2>5 DEF Ordena, KanporaketaArrazoia, Leihoak
  <2> QED
    BY <2>3, <2>6, <2>7 DEF Ordena
<1>3. CASE UNCHANGED bez
  <2>1. TypeOK'
    <3>1. eraikita' \in [Leihoak -> BOOLEAN] /\ leihoa' \in Leihoak \cup {"bat ere ez"}
      BY <1>3 DEF LaborategiaPanela, MqttSuscribe, edtVars, TypeOK, Leihoak
    <3>2. hutsegitea' \in BOOLEAN
      BY <1>3 DEF LaborategiaPanela, MqttSuscribe, MqttException, TypeOK
    <3> QED
      BY <1>3, <3>1, <3>2 DEF LaborategiaPanela, MqttSuscribe, edtVars, TypeOK
  <2>2. Ordena'
    BY <1>1, <1>3 DEF LaborategiaPanela, MqttSuscribe, MqttException, edtVars, Ordena,
       LabGabe, ItxiArte, LabLeihoa, KanporaketaArrazoia, LeihoaEntzuten
  <2> QED
    BY <2>1, <2>2
<1> QED
  BY <1>2, <1>3 DEF LaborategiaPanela

LEMMA KonexioaGalduPausoa ==
  ASSUME IInv, NEW l \in Leihoak, NEW k \in Lab, KonexioaGaldu(l, k)
  PROVE  IInv'
<1> USE DEF IInv
<1>1. BezMota /\ "galduta" \in Egoerak /\ bez[l][k] \in Konektatuta
  BY DEF TypeOK, BezMota, Egoerak, KonexioaGaldu
<1>2. "ez" \notin Konektatuta /\ "itxita" \notin Konektatuta
  BY DEF Konektatuta, Eraikitzen
<1>3. /\ BezMota' /\ bez'[l][k] = "galduta"
      /\ \A m \in Leihoak, j \in Lab : m # l \/ j # k => bez'[m][j] = bez[m][j]
  BY <1>1 DEF KonexioaGaldu, BezMota
<1>4. TypeOK'
  BY <1>3 DEF KonexioaGaldu, BezMota, TypeOK, edtVars
<1>5. "lab" \in Leihoak /\ "nagusia" \in Leihoak
  BY DEF Leihoak
<1>6. LabGabe' /\ LabLeihoa'
  BY <1>1, <1>2, <1>3, <1>5 DEF KonexioaGaldu, edtVars, Ordena, LabGabe, LabLeihoa
<1>7. ItxiArte'
  BY <1>1, <1>2, <1>3, <1>5 DEF KonexioaGaldu, edtVars, Ordena, ItxiArte
<1>8. LeihoaEntzuten'
  BY <1>3, <1>5 DEF KonexioaGaldu, edtVars, Ordena, LeihoaEntzuten
<1>9. KanporaketaArrazoia'
  BY <1>3 DEF KonexioaGaldu, Ordena, KanporaketaArrazoia
<1> QED
  BY <1>4, <1>6, <1>7, <1>8, <1>9 DEF Ordena

LEMMA Pausoa == IInv /\ [Next]_vars => IInv'
<1> SUFFICES ASSUME IInv, [Next]_vars PROVE IInv'
  OBVIOUS
<1>1. CASE Edt
  <2>1. CASE valueChanged
    <3>1. TypeOK'
      BY <2>1 DEF valueChanged, IInv, TypeOK
    <3>2. Ordena'
      BY <2>1 DEF valueChanged, IInv, Ordena, LabGabe, ItxiArte, LabLeihoa,
         KanporaketaArrazoia, LeihoaEntzuten
    <3> QED
      BY <3>1, <3>2 DEF IInv
  <2> QED
    BY <1>1, <2>1, EntzutenHasiPausoa, EntzutenBukatuPausoa, DisposePausoa,
       LaborategiaPanelaPausoa DEF Edt
<1>2. ASSUME NEW k \in Lab, Hautatu(k) PROVE IInv'
  <2>1. TypeOK'
    BY <1>2, LabMugak DEF Hautatu, IInv, TypeOK
  <2>2. Ordena'
    BY <1>2 DEF Hautatu, IInv, Ordena, LabGabe, ItxiArte, LabLeihoa,
       KanporaketaArrazoia, LeihoaEntzuten, Lab
  <2> QED
    BY <2>1, <2>2 DEF IInv
<1>3. ASSUME NEW l \in Leihoak, NEW k \in Lab, NEW gaia \in {"gas", "infragorri"},
             messageArrived(l, k, gaia)
      PROVE  IInv'
  <2>1. UNCHANGED <<edtVars, bez, hutsegitea>>
    BY <1>3 DEF messageArrived
  <2>2. TypeOK'
    BY <1>3 DEF messageArrived, edtVars, IInv, TypeOK
  <2> QED
    BY <2>1, <2>2, Isilik DEF IInv
<1>4. ASSUME NEW l \in Leihoak, NEW k \in Lab, connectionLost(l, k) PROVE IInv'
  <2>1. UNCHANGED <<edtVars, bez, hutsegitea>>
    BY <1>4 DEF connectionLost
  <2>2. TypeOK'
    BY <1>4 DEF connectionLost, edtVars, IInv, TypeOK
  <2> QED
    BY <2>1, <2>2, Isilik DEF IInv
<1>5. CASE UNCHANGED vars
  BY <1>5, Isilik DEF vars, edtVars, IInv, TypeOK
<1> QED
  BY <1>1, <1>2, <1>3, <1>4, <1>5, KonexioaGalduPausoa DEF Next, Sarea
-----------------------------------------------------------------------------
LEMMA InbarianteaBeti == Spec => []IInv
  BY Hasiera, Pausoa, PTL DEF Spec

\* Every reachable state has the types the declarations give it: a laboratory's window
\* is built for one of the laboratories there are.
THEOREM HarpidetzaMotak == Spec => []TypeOK
<1>1. IInv => TypeOK
  BY DEF IInv
<1> QED
  BY InbarianteaBeti, <1>1, PTL

\* With any number of laboratories, the dashboard throws itself out of a broker only
\* after a call to a broker has failed.
THEOREM KanporaketaArrazoiaBeti == Spec => []KanporaketaArrazoia
<1>1. IInv => KanporaketaArrazoia
  BY DEF IInv, Ordena
<1> QED
  BY InbarianteaBeti, <1>1, PTL

\* The window of a laboratory is never shown without its subscriber.
THEOREM LeihoaEntzutenBeti == Spec => []LeihoaEntzuten
<1>1. IInv => LeihoaEntzuten
  BY DEF IInv, Ordena
<1> QED
  BY InbarianteaBeti, <1>1, PTL
=============================================================================
