------------------------------ MODULE Pertsona ------------------------------
(***************************************************************************)
(* The person on the map of a laboratory's window.  The callback thread    *)
(* puts it on the map and takes it off at people messages, and starts a    *)
(* Timer, kept in a field; the Timer's ticks, on the Swing event thread    *)
(* (EDT), move it within the walls, or stop the Timer of the field if the  *)
(* person has gone.  Every click on Mapa makes a new map, with nobody on   *)
(* it.  Nothing is synchronised: a step is one access to what is shared.   *)
(***************************************************************************)
EXTENDS Integers

CONSTANTS
  Ezkerra, Eskuina, Goia, Behea,      \* PARED_IZQUIERDA ...: 470, 1375, 10, 876
  RADIO, Abiadura,                    \* 50, 8
  MaxDtX, MaxDtY,                     \* rd.nextInt(5), rd.nextInt(10): 4, 9
  HasieraX, HasieraY,                 \* 500, 200
  MaxTimer                            \* bound: Timers at a time

ASSUME HormaMugak ==
  /\ {Ezkerra, Eskuina, Goia, Behea, HasieraX, HasieraY} \subseteq Int
  /\ {RADIO, Abiadura} \subseteq Nat \ {0}
  /\ {MaxDtX, MaxDtY} \subseteq Nat
  /\ Ezkerra < HasieraX /\ HasieraX + RADIO < Eskuina
  /\ Goia < HasieraY /\ HasieraY + RADIO < Behea

ASSUME TimerMugak == MaxTimer \in Nat \ {0}

Timerrak == 1..MaxTimer

VARIABLES
  x, y, vx, vy,          \* the person
  grafikaPanelean,       \* the charts are selected
  mapa,                  \* the newest map: null, empty, or with the person
  timer, martxan,        \* the field, 0 is null; the Timers that run
  cb, edt,               \* where the threads are
  irteera                \* an exception has ended the process

pertsonaVars == <<x, y, vx, vy>>
vars == <<pertsonaVars, grafikaPanelean, mapa, timer, martxan, cb, edt, irteera>>

Bizirik == ~irteera

Init ==
  /\ x = HasieraX /\ y = HasieraY /\ vx = Abiadura /\ vy = Abiadura
  /\ grafikaPanelean = TRUE
  /\ mapa = "null"
  /\ timer = 0 /\ martxan = {}
  /\ cb = "lo" /\ edt = "lo"
  /\ irteera = FALSE
-----------------------------------------------------------------------------
(* Pertsona.mugitu. *)

\* Mutant: the direction is not looked at, so beyond a wall it turns at every step.
MutErrebotatuBeti(v, k, behekoa, goikoa) ==
  IF k <= behekoa \/ k + RADIO >= goikoa THEN -v ELSE v

\* The speed after a step to k: turned at the wall it goes towards.
Errebotatu(v, k, behekoa, goikoa) ==
  IF (v < 0 /\ k <= behekoa) \/ (v > 0 /\ k + RADIO >= goikoa) THEN -v ELSE v

mugitu ==
  /\ \E dt \in 0..MaxDtX : x' = x + dt * vx
  /\ \E dt \in 0..MaxDtY : y' = y + dt * vy
  /\ vx' = Errebotatu(vx, x', Ezkerra, Eskuina)
  /\ vy' = Errebotatu(vy, y', Goia, Behea)
-----------------------------------------------------------------------------
(* The callback thread. *)

Libre == Timerrak \ (martxan \cup {timer})

\* A gas message with the charts selected draws them again, unless the operator goes
\* to the map before the second read of the field: then this thread makes a map.
GasaIritsi ==
  /\ Bizirik /\ cb = "lo" /\ grafikaPanelean
  /\ cb' = "pantallaAldatu"
  /\ UNCHANGED <<pertsonaVars, grafikaPanelean, mapa, timer, martxan, edt, irteera>>

CallbackPantallaAldatu ==
  /\ Bizirik /\ cb = "pantallaAldatu"
  /\ mapa' = IF grafikaPanelean THEN mapa ELSE "hutsik"
  /\ cb' = "lo"
  /\ UNCHANGED <<pertsonaVars, grafikaPanelean, timer, martxan, edt, irteera>>

\* propertyChange, aldatuJendea.
JendeaIritsi(balioJendea) ==
  /\ Bizirik /\ cb = "lo" /\ ~grafikaPanelean
  /\ balioJendea = 1 => Libre # {}
  /\ cb' = IF balioJendea = 1 THEN "sartu" ELSE "irten"
  /\ UNCHANGED <<pertsonaVars, grafikaPanelean, mapa, timer, martxan, edt, irteera>>

\* contains: before the first map is stored, a NullPointerException.
JendeaBadago ==
  /\ Bizirik /\ cb \in {"sartu", "irten"}
  /\ irteera' = (mapa = "null")
  /\ cb' = CASE cb = "sartu" /\ mapa = "hutsik"   -> "add"
             [] cb = "irten" /\ mapa = "pertsona" -> "remove"
             [] OTHER -> "lo"
  /\ UNCHANGED <<pertsonaVars, grafikaPanelean, mapa, timer, martxan, edt>>

\* add and remove are on the newest map, which may be a later one.
JendeaAldatu ==
  /\ Bizirik /\ cb \in {"add", "remove"}
  /\ mapa' = IF cb = "add" THEN "pertsona" ELSE "hutsik"
  /\ cb' = IF cb = "add" THEN "timerSortu" ELSE "lo"
  /\ UNCHANGED <<pertsonaVars, grafikaPanelean, timer, martxan, edt, irteera>>

\* Mutant: the Timer that is there is kept.
MutTimerSortuNullBada ==
  /\ Bizirik /\ cb = "timerSortu"
  /\ timer' \in IF timer = 0 THEN Libre ELSE {timer}
  /\ cb' = "timerStart"
  /\ UNCHANGED <<pertsonaVars, grafikaPanelean, mapa, martxan, edt, irteera>>

\* startPertsonaMugitzen: the field is overwritten; a Timer it held runs on.
TimerSortu ==
  /\ Bizirik /\ cb = "timerSortu"
  /\ timer' \in Libre
  /\ cb' = "timerStart"
  /\ UNCHANGED <<pertsonaVars, grafikaPanelean, mapa, martxan, edt, irteera>>

\* Mutant: whatever is read is started.
MutTimerAbiatuBeti ==
  /\ Bizirik /\ cb = "timerStart"
  /\ martxan' = martxan \cup {timer}
  /\ cb' = "lo"
  /\ UNCHANGED <<pertsonaVars, grafikaPanelean, mapa, timer, edt, irteera>>

\* ... and read again: the EDT may have cleared it.
TimerAbiatu ==
  /\ Bizirik /\ cb = "timerStart"
  /\ irteera' = (timer = 0)
  /\ martxan' = martxan \cup ({timer} \ {0})
  /\ cb' = "lo"
  /\ UNCHANGED <<pertsonaVars, grafikaPanelean, mapa, timer, edt>>

CbLanean == CallbackPantallaAldatu \/ JendeaBadago \/ JendeaAldatu \/ TimerSortu \/ TimerAbiatu
Callback == CbLanean \/ GasaIritsi \/ \E b \in {0, 1} : JendeaIritsi(b)
-----------------------------------------------------------------------------
(* The EDT. *)

GrafikakSakatu ==
  /\ Bizirik /\ edt = "lo"
  /\ grafikaPanelean' = TRUE
  /\ UNCHANGED <<pertsonaVars, mapa, timer, martxan, cb, edt, irteera>>

MapaSakatu ==
  /\ Bizirik /\ edt = "lo"
  /\ grafikaPanelean' = FALSE
  /\ edt' = "mostrarMapa"
  /\ UNCHANGED <<pertsonaVars, mapa, timer, martxan, cb, irteera>>

mostrarMapa ==
  /\ Bizirik /\ edt = "mostrarMapa"
  /\ mapa' = "hutsik"
  /\ edt' = "lo"
  /\ UNCHANGED <<pertsonaVars, grafikaPanelean, timer, martxan, cb, irteera>>

\* actionPerformed, for a tick of any Timer that runs.
Tick(t) ==
  /\ Bizirik /\ edt = "lo" /\ t \in martxan
  /\ \/ mapa = "pertsona" /\ mugitu /\ UNCHANGED edt
     \/ mapa # "pertsona" /\ edt' = "stop" /\ UNCHANGED pertsonaVars
  /\ UNCHANGED <<grafikaPanelean, mapa, timer, martxan, cb, irteera>>

\* stopPertsonaMugitzen: stop the Timer the field holds, if any, then clear it.
TimerGelditu ==
  /\ Bizirik /\ edt = "stop"
  /\ martxan' = martxan \ {timer}
  /\ edt' = IF timer = 0 THEN "lo" ELSE "null"
  /\ UNCHANGED <<pertsonaVars, grafikaPanelean, mapa, timer, cb, irteera>>

\* Mutant: the field is not cleared.
MutTimerNullGabe ==
  /\ Bizirik /\ edt = "null"
  /\ edt' = "lo"
  /\ UNCHANGED <<pertsonaVars, grafikaPanelean, mapa, timer, martxan, cb, irteera>>

TimerNull ==
  /\ Bizirik /\ edt = "null"
  /\ timer' = 0
  /\ edt' = "lo"
  /\ UNCHANGED <<pertsonaVars, grafikaPanelean, mapa, martxan, cb, irteera>>

EdtLanean == mostrarMapa \/ TimerGelditu \/ TimerNull
Edt == EdtLanean \/ GrafikakSakatu \/ MapaSakatu \/ \E t \in Timerrak : Tick(t)
-----------------------------------------------------------------------------
Next == Callback \/ Edt

Spec == Init /\ [][Next]_vars
FairSpec == /\ Spec /\ WF_vars(CbLanean) /\ WF_vars(EdtLanean)
            /\ \A t \in Timerrak : SF_vars(Tick(t))
-----------------------------------------------------------------------------
TypeOK ==
  /\ {x, y} \subseteq Int
  /\ {vx, vy} \subseteq {Abiadura, -Abiadura}
  /\ grafikaPanelean \in BOOLEAN
  /\ mapa \in {"null", "hutsik", "pertsona"}
  /\ timer \in Timerrak \cup {0} /\ martxan \subseteq Timerrak
  /\ cb \in {"lo", "pantallaAldatu", "sartu", "irten", "add", "remove", "timerSortu",
             "timerStart"}
  /\ edt \in {"lo", "mostrarMapa", "stop", "null"}
  /\ irteera \in BOOLEAN
  /\ cb = "timerSortu" => Libre # {}

\* However long it walks, the person is never more than one step beyond a wall.
HormenInguruan ==
  /\ x \in Ezkerra - MaxDtX * Abiadura .. Eskuina - RADIO + MaxDtX * Abiadura
  /\ y \in Goia - MaxDtY * Abiadura .. Behea - RADIO + MaxDtY * Abiadura

\* A person on the map has a Timer that runs, so it never freezes there: a tick that
\* saw nobody may stop the new Timer of a person who has come back, but then the one
\* it came from runs on.
MugituJarraitzen ==
  Bizirik /\ mapa = "pertsona" /\ cb \notin {"timerSortu", "timerStart"} => martxan # {}

\* Once the person is gone for good the field's Timer is stopped and cleared (one
\* that was overwritten while it ran is not: it ticks until the process ends).
TimerraAskatu ==
  <>[](Bizirik /\ mapa # "pertsona") => <>[](timer = 0)
=============================================================================
