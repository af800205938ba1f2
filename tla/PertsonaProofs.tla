--------------------------- MODULE PertsonaProofs ---------------------------
(***************************************************************************)
(* Proofs about Pertsona for walls anywhere, any size, speed and number of *)
(* Timers.  That the person stays by the walls needs its direction: it     *)
(* only walks towards a wall it has not reached.  That it never freezes    *)
(* needs what a tick that saw nobody still promises while it is on its way *)
(* to stop a Timer: some Timer runs, and, if the person has come back, one *)
(* that is not the field's.                                                *)
(***************************************************************************)
EXTENDS Pertsona, TLAPS

\* One coordinate k with speed v between two walls: M is its longest step.
Ibilbidea(k, v, behekoa, goikoa, M) ==
  /\ k \in behekoa - M * Abiadura .. goikoa - RADIO + M * Abiadura
  /\ v > 0 => k + RADIO < goikoa
  /\ v < 0 => k > behekoa

Horma == /\ Ibilbidea(x, vx, Ezkerra, Eskuina, MaxDtX)
         /\ Ibilbidea(y, vy, Goia, Behea, MaxDtY)

\* A Timer is kept free for a person who is on its way in.
Lekua == cb \in {"sartu", "add", "timerSortu"} => Libre # {}

Geldiketa == edt = "stop" =>
  /\ martxan # {}
  /\ mapa = "pertsona" /\ cb # "timerSortu" => martxan \ {timer} # {}

IInv == TypeOK /\ Lekua /\ Geldiketa /\ MugituJarraitzen
-----------------------------------------------------------------------------
LEMMA Biderkadura == \A a, b, c \in Nat : a <= b => a * c <= b * c
  OBVIOUS

LEMMA Urratsa ==
  ASSUME NEW k \in Int, NEW v \in {Abiadura, -Abiadura},
         NEW behekoa \in Int, NEW goikoa \in Int, behekoa + RADIO < goikoa,
         NEW M \in Nat, NEW d \in 0..M,
         Ibilbidea(k, v, behekoa, goikoa, M)
  PROVE  /\ k + d * v \in Int
         /\ Errebotatu(v, k + d * v, behekoa, goikoa) \in {Abiadura, -Abiadura}
         /\ Ibilbidea(k + d * v, Errebotatu(v, k + d * v, behekoa, goikoa),
                      behekoa, goikoa, M)
<1> DEFINE A == Abiadura
           l == d * A
<1>1. A \in Nat \ {0} /\ RADIO \in Nat \ {0} /\ d \in Nat
  BY HormaMugak
<1>2. l \in Nat /\ l <= M * A /\ M * A \in Nat
  BY <1>1, Biderkadura
<1>3. CASE v = A
  <2>1. d * v = l
    BY <1>3
  <2> HIDE DEF l
  <2> QED
    BY <1>1, <1>2, <1>3, <2>1 DEF Ibilbidea, Errebotatu
<1>4. CASE v = -A
  <2>1. d * v = -l
    BY <1>1, <1>4
  <2> HIDE DEF l
  <2> QED
    BY <1>1, <1>2, <1>4, <2>1 DEF Ibilbidea, Errebotatu
<1> QED
  BY <1>3, <1>4
-----------------------------------------------------------------------------
LEMMA Hasiera == Init => IInv
<1> SUFFICES ASSUME Init PROVE IInv
  OBVIOUS
<1>1. TypeOK
  BY HormaMugak DEF Init, TypeOK, Timerrak
<1>2. Lekua /\ Geldiketa /\ MugituJarraitzen
  BY DEF Init, Lekua, Geldiketa, MugituJarraitzen
<1> QED
  BY <1>1, <1>2 DEF IInv

LEMMA HormaHasiera == Init => Horma
<1> SUFFICES ASSUME Init PROVE Horma
  OBVIOUS
<1>1. MaxDtX * Abiadura \in Nat /\ MaxDtY * Abiadura \in Nat
  BY HormaMugak
<1>2. Ibilbidea(x, vx, Ezkerra, Eskuina, MaxDtX)
  BY <1>1, HormaMugak DEF Init, Ibilbidea
<1>3. Ibilbidea(y, vy, Goia, Behea, MaxDtY)
  BY <1>1, HormaMugak DEF Init, Ibilbidea
<1> QED
  BY <1>2, <1>3 DEF Horma

LEMMA MugituMota ==
  ASSUME TypeOK, mugitu
  PROVE  x' \in Int /\ y' \in Int /\ {vx', vy'} \subseteq {Abiadura, -Abiadura}
<1>1. /\ x \in Int /\ vx \in {Abiadura, -Abiadura}
      /\ y \in Int /\ vy \in {Abiadura, -Abiadura}
  BY DEF TypeOK
<1>2. MaxDtX \in Nat /\ MaxDtY \in Nat /\ Abiadura \in Nat
  BY HormaMugak
<1>3. x' \in Int /\ y' \in Int
  BY <1>1, <1>2 DEF mugitu
<1>4. {vx', vy'} \subseteq {Abiadura, -Abiadura}
  BY <1>1, <1>2 DEF mugitu, Errebotatu
<1> QED
  BY <1>3, <1>4

\* A step of the walk keeps both coordinates on their way.
LEMMA MugituHorma ==
  ASSUME TypeOK, Horma, mugitu
  PROVE  Horma'
<1>1. PICK dx \in 0..MaxDtX : x' = x + dx * vx
  BY DEF mugitu
<1>2. PICK dy \in 0..MaxDtY : y' = y + dy * vy
  BY DEF mugitu
<1>3. /\ vx' = Errebotatu(vx, x + dx * vx, Ezkerra, Eskuina)
      /\ vy' = Errebotatu(vy, y + dy * vy, Goia, Behea)
  BY <1>1, <1>2 DEF mugitu
<1>4. /\ x \in Int /\ vx \in {Abiadura, -Abiadura}
      /\ y \in Int /\ vy \in {Abiadura, -Abiadura}
  BY DEF TypeOK
<1>5. /\ Ezkerra \in Int /\ Eskuina \in Int /\ Ezkerra + RADIO < Eskuina
      /\ Goia \in Int /\ Behea \in Int /\ Goia + RADIO < Behea
      /\ MaxDtX \in Nat /\ MaxDtY \in Nat
  BY HormaMugak
<1>6. Ibilbidea(x', vx', Ezkerra, Eskuina, MaxDtX)
  BY <1>1, <1>3, <1>4, <1>5, Urratsa DEF Horma
<1>7. Ibilbidea(y', vy', Goia, Behea, MaxDtY)
  BY <1>2, <1>3, <1>4, <1>5, Urratsa DEF Horma
<1> QED
  BY <1>6, <1>7 DEF Horma, Ibilbidea

LEMMA HormaPausoa == TypeOK /\ Horma /\ [Next]_vars => Horma'
<1> SUFFICES ASSUME TypeOK, Horma, [Next]_vars PROVE Horma'
  OBVIOUS
<1>1. CASE mugitu
  BY <1>1, MugituHorma
<1>2. CASE UNCHANGED pertsonaVars
  BY <1>2 DEF pertsonaVars, Horma, Ibilbidea
<1> QED
  BY <1>1, <1>2 DEF Next, vars, Callback, CbLanean, Edt, EdtLanean, GasaIritsi,
     CallbackPantallaAldatu, JendeaIritsi, JendeaBadago, JendeaAldatu, TimerSortu,
     TimerAbiatu, GrafikakSakatu, MapaSakatu, mostrarMapa, Tick, TimerGelditu, TimerNull

LEMMA Pausoa == IInv /\ [Next]_vars => IInv'
<1> SUFFICES ASSUME IInv, [Next]_vars PROVE IInv'
  OBVIOUS
<1> USE DEF IInv
<1>1. CASE GasaIritsi
  <2>1. TypeOK'
    BY <1>1 DEF GasaIritsi, pertsonaVars, TypeOK, Lekua, Libre
  <2>2. Lekua'
    BY <1>1 DEF GasaIritsi, pertsonaVars, TypeOK, Lekua, Libre
  <2>3. Geldiketa'
    BY <1>1 DEF GasaIritsi, pertsonaVars, TypeOK, Geldiketa
  <2>4. MugituJarraitzen'
    BY <1>1 DEF GasaIritsi, pertsonaVars, TypeOK, MugituJarraitzen, Bizirik
  <2> QED
    BY <2>1, <2>2, <2>3, <2>4
<1>2. CASE CallbackPantallaAldatu
  <2>1. TypeOK'
    BY <1>2 DEF CallbackPantallaAldatu, pertsonaVars, TypeOK, Lekua, Libre
  <2>2. Lekua'
    BY <1>2 DEF CallbackPantallaAldatu, pertsonaVars, TypeOK, Lekua, Libre
  <2>3. Geldiketa'
    BY <1>2 DEF CallbackPantallaAldatu, pertsonaVars, TypeOK, Geldiketa
  <2>4. MugituJarraitzen'
    BY <1>2 DEF CallbackPantallaAldatu, pertsonaVars, TypeOK, MugituJarraitzen,
       Bizirik
  <2> QED
    BY <2>1, <2>2, <2>3, <2>4
<1>3. CASE \E b \in {0, 1} : JendeaIritsi(b)
  <2>1. TypeOK'
    BY <1>3 DEF JendeaIritsi, pertsonaVars, TypeOK, Lekua, Libre, Timerrak
  <2>2. Lekua'
    BY <1>3 DEF JendeaIritsi, pertsonaVars, TypeOK, Lekua, Libre
  <2>3. Geldiketa'
    BY <1>3 DEF JendeaIritsi, pertsonaVars, TypeOK, Geldiketa
  <2>4. MugituJarraitzen'
    BY <1>3 DEF JendeaIritsi, pertsonaVars, TypeOK, MugituJarraitzen, Bizirik
  <2> QED
    BY <2>1, <2>2, <2>3, <2>4
<1>4. CASE JendeaBadago
  <2>1. TypeOK'
    BY <1>4 DEF JendeaBadago, pertsonaVars, TypeOK, Lekua, Libre
  <2>2. Lekua'
    BY <1>4 DEF JendeaBadago, pertsonaVars, TypeOK, Lekua, Libre
  <2>3. Geldiketa'
    BY <1>4 DEF JendeaBadago, pertsonaVars, TypeOK, Geldiketa
  <2>4. MugituJarraitzen'
    BY <1>4 DEF JendeaBadago, pertsonaVars, TypeOK, MugituJarraitzen, Bizirik
  <2> QED
    BY <2>1, <2>2, <2>3, <2>4
<1>5. CASE JendeaAldatu
  <2>1. TypeOK'
    BY <1>5 DEF JendeaAldatu, pertsonaVars, TypeOK, Lekua, Libre, Timerrak
  <2>2. Lekua'
    BY <1>5 DEF JendeaAldatu, pertsonaVars, TypeOK, Lekua, Libre
  <2>3. Geldiketa'
    BY <1>5 DEF JendeaAldatu, pertsonaVars, TypeOK, Geldiketa
  <2>4. MugituJarraitzen'
    BY <1>5 DEF JendeaAldatu, pertsonaVars, TypeOK, MugituJarraitzen, Bizirik
  <2> QED
    BY <2>1, <2>2, <2>3, <2>4
<1>6. CASE TimerSortu
  <2>1. TypeOK'
    BY <1>6 DEF TimerSortu, pertsonaVars, TypeOK, Lekua, Libre, Timerrak
  <2>2. Lekua'
    BY <1>6 DEF TimerSortu, pertsonaVars, TypeOK, Lekua, Libre
  <2>3. Geldiketa'
    BY <1>6 DEF TimerSortu, pertsonaVars, TypeOK, Geldiketa, Lekua, Libre
  <2>4. MugituJarraitzen'
    BY <1>6 DEF TimerSortu, pertsonaVars, TypeOK, MugituJarraitzen, Bizirik
  <2> QED
    BY <2>1, <2>2, <2>3, <2>4
<1>7. CASE TimerAbiatu
  <2>1. TypeOK'
    BY <1>7 DEF TimerAbiatu, pertsonaVars, TypeOK, Lekua, Libre, Timerrak
  <2>2. Lekua'
    BY <1>7 DEF TimerAbiatu, pertsonaVars, TypeOK, Lekua, Libre
  <2>3. Geldiketa'
    BY <1>7 DEF TimerAbiatu, pertsonaVars, TypeOK, Geldiketa
  <2>4. MugituJarraitzen'
    BY <1>7 DEF TimerAbiatu, pertsonaVars, TypeOK, MugituJarraitzen, Bizirik
  <2> QED
    BY <2>1, <2>2, <2>3, <2>4
<1>8. CASE GrafikakSakatu
  <2>1. TypeOK'
    BY <1>8 DEF GrafikakSakatu, pertsonaVars, TypeOK, Lekua, Libre
  <2>2. Lekua'
    BY <1>8 DEF GrafikakSakatu, pertsonaVars, TypeOK, Lekua, Libre
  <2>3. Geldiketa'
    BY <1>8 DEF GrafikakSakatu, pertsonaVars, TypeOK, Geldiketa
  <2>4. MugituJarraitzen'
    BY <1>8 DEF GrafikakSakatu, pertsonaVars, TypeOK, MugituJarraitzen, Bizirik
  <2> QED
    BY <2>1, <2>2, <2>3, <2>4
<1>9. CASE MapaSakatu
  <2>1. TypeOK'
    BY <1>9 DEF MapaSakatu, pertsonaVars, TypeOK, Lekua, Libre
  <2>2. Lekua'
    BY <1>9 DEF MapaSakatu, pertsonaVars, TypeOK, Lekua, Libre
  <2>3. Geldiketa'
    BY <1>9 DEF MapaSakatu, pertsonaVars, TypeOK, Geldiketa
  <2>4. MugituJarraitzen'
    BY <1>9 DEF MapaSakatu, pertsonaVars, TypeOK, MugituJarraitzen, Bizirik
  <2> QED
    BY <2>1, <2>2, <2>3, <2>4
<1>10. CASE mostrarMapa
  <2>1. TypeOK'
    BY <1>10 DEF mostrarMapa, pertsonaVars, TypeOK, Lekua, Libre
  <2>2. Lekua'
    BY <1>10 DEF mostrarMapa, pertsonaVars, TypeOK, Lekua, Libre
  <2>3. Geldiketa'
    BY <1>10 DEF mostrarMapa, pertsonaVars, TypeOK, Geldiketa
  <2>4. MugituJarraitzen'
    BY <1>10 DEF mostrarMapa, pertsonaVars, TypeOK, MugituJarraitzen, Bizirik
  <2> QED
    BY <2>1, <2>2, <2>3, <2>4
<1>11. CASE \E t \in Timerrak : Tick(t)
  <2> PICK t \in Timerrak : Tick(t)
    BY <1>11
  <2>1. TypeOK'
    <3>1. {x', y'} \subseteq Int /\ {vx', vy'} \subseteq {Abiadura, -Abiadura}
      <4>1. CASE mugitu
        BY <4>1, MugituMota
      <4>2. CASE UNCHANGED pertsonaVars
        BY <4>2 DEF pertsonaVars, TypeOK
      <4> QED
        BY <4>1, <4>2 DEF Tick
    <3>2. edt' \in {"lo", "stop"}
      BY DEF Tick
    <3> QED
      BY <3>1, <3>2 DEF Tick, TypeOK, Libre
  <2>2. Lekua'
    BY DEF Tick, TypeOK, Lekua, Libre
  <2>3. Geldiketa'
    BY DEF Tick, TypeOK, Geldiketa
  <2>4. MugituJarraitzen'
    BY DEF Tick, TypeOK, MugituJarraitzen, Bizirik
  <2> QED
    BY <2>1, <2>2, <2>3, <2>4
<1>12. CASE TimerGelditu
  <2>1. TypeOK'
    BY <1>12 DEF TimerGelditu, pertsonaVars, TypeOK, Lekua, Libre, Timerrak
  <2>2. Lekua'
    BY <1>12 DEF TimerGelditu, pertsonaVars, TypeOK, Lekua, Libre
  <2>3. Geldiketa'
    BY <1>12 DEF TimerGelditu, pertsonaVars, TypeOK, Geldiketa
  <2>4. MugituJarraitzen'
    BY <1>12 DEF TimerGelditu, pertsonaVars, TypeOK, MugituJarraitzen, Geldiketa,
       Bizirik
  <2> QED
    BY <2>1, <2>2, <2>3, <2>4
<1>13. CASE TimerNull
  <2>1. TypeOK'
    BY <1>13 DEF TimerNull, pertsonaVars, TypeOK, Lekua, Libre, Timerrak
  <2>2. Lekua'
    <3>1. 0 \notin Timerrak
      BY TimerMugak DEF Timerrak
    <3>2. Libre \subseteq Libre'
      BY <1>13, <3>1 DEF TimerNull, Libre, Timerrak
    <3> QED
      BY <1>13, <3>2 DEF TimerNull, Lekua
  <2>3. Geldiketa'
    BY <1>13 DEF TimerNull, pertsonaVars, TypeOK, Geldiketa
  <2>4. MugituJarraitzen'
    BY <1>13 DEF TimerNull, pertsonaVars, TypeOK, MugituJarraitzen, Bizirik
  <2> QED
    BY <2>1, <2>2, <2>3, <2>4
<1>14. CASE UNCHANGED vars
  <2>1. TypeOK'
    BY <1>14 DEF vars, pertsonaVars, TypeOK, Lekua, Libre
  <2>2. Lekua'
    BY <1>14 DEF vars, pertsonaVars, TypeOK, Lekua, Libre
  <2>3. Geldiketa'
    BY <1>14 DEF vars, pertsonaVars, TypeOK, Geldiketa
  <2>4. MugituJarraitzen'
    BY <1>14 DEF vars, pertsonaVars, TypeOK, MugituJarraitzen, Bizirik
  <2> QED
    BY <2>1, <2>2, <2>3, <2>4
<1> QED
  BY <1>1, <1>2, <1>3, <1>4, <1>5, <1>6, <1>7, <1>8, <1>9, <1>10, <1>11, <1>12,
     <1>13, <1>14 DEF Next, Callback, CbLanean, Edt, EdtLanean
-----------------------------------------------------------------------------
LEMMA InbarianteaBeti == Spec => []IInv
  BY Hasiera, Pausoa, PTL DEF Spec

\* Every reachable state has the types the declarations give it, and a person who is
\* let in always finds a Timer.
THEOREM PertsonaMotak == Spec => []TypeOK
<1>1. IInv => TypeOK
  BY DEF IInv
<1> QED
  BY InbarianteaBeti, <1>1, PTL

\* However long it walks, and at any speed, the person is never more than one longest
\* step beyond a wall.
THEOREM HormenInguruanBeti == Spec => []HormenInguruan
<1>1. Spec => []Horma
  <2>1. Spec => []TypeOK
    BY PertsonaMotak
  <2> QED
    BY <2>1, HormaHasiera, HormaPausoa, PTL DEF Spec
<1>2. Horma => HormenInguruan
  BY DEF Horma, Ibilbidea, HormenInguruan
<1> QED
  BY <1>1, <1>2, PTL

\* A person on the map has a Timer that runs, whichever Timers were overwritten,
\* stopped by another's tick or left behind.
THEOREM MugituJarraitzenBeti == Spec => []MugituJarraitzen
<1>1. IInv => MugituJarraitzen
  BY DEF IInv
<1> QED
  BY InbarianteaBeti, <1>1, PTL
-----------------------------------------------------------------------------
(* The window in which there is no map. *)

MapaAurretik ==
  mapa = "null" /\ (~grafikaPanelean \/ cb \in {"sartu", "irten"}) => edt = "mostrarMapa"

LEMMA MapaAurretikPausoa == TypeOK /\ MapaAurretik /\ [Next]_vars => MapaAurretik'
<1> SUFFICES ASSUME TypeOK, MapaAurretik, [Next]_vars PROVE MapaAurretik'
  OBVIOUS
<1> USE DEF MapaAurretik
<1>1. CASE GasaIritsi \/ CallbackPantallaAldatu
  BY <1>1 DEF GasaIritsi, CallbackPantallaAldatu
<1>2. CASE \E b \in {0, 1} : JendeaIritsi(b)
  BY <1>2 DEF JendeaIritsi
<1>3. CASE JendeaBadago \/ JendeaAldatu
  BY <1>3 DEF JendeaBadago, JendeaAldatu
<1>4. CASE TimerSortu \/ TimerAbiatu
  BY <1>4 DEF TimerSortu, TimerAbiatu
<1>5. CASE GrafikakSakatu \/ MapaSakatu \/ mostrarMapa
  BY <1>5 DEF GrafikakSakatu, MapaSakatu, mostrarMapa
<1>6. CASE \E t \in Timerrak : Tick(t)
  BY <1>6 DEF Tick
<1>7. CASE TimerGelditu \/ TimerNull
  BY <1>7 DEF TimerGelditu, TimerNull
<1>8. CASE UNCHANGED vars
  BY <1>8 DEF vars
<1> QED
  BY <1>1, <1>2, <1>3, <1>4, <1>5, <1>6, <1>7, <1>8
  DEF Next, Callback, CbLanean, Edt, EdtLanean

\* A people message finds no map, which ends the dashboard, only while the very first
\* one is being built: no later crossing of messages and clicks opens the window again.
THEOREM PertsonaNullLeihoaBeti ==
  Spec => [](mapa = "null" /\ cb \in {"sartu", "irten"} => edt = "mostrarMapa")
<1>1. Init => MapaAurretik
  BY DEF Init, MapaAurretik
<1>2. MapaAurretik => (mapa = "null" /\ cb \in {"sartu", "irten"} => edt = "mostrarMapa")
  BY DEF MapaAurretik
<1> QED
  BY <1>1, <1>2, MapaAurretikPausoa, PertsonaMotak, PTL DEF Spec
=============================================================================
