---------------------------- MODULE Erregistroa -----------------------------
(***************************************************************************)
(* What one account's registry promises, with no files, window, threads or *)
(* crashes: laboratories are added at the end, each with a name and a      *)
(* broker of its own; a removal takes, in one step, the first line that    *)
(* contains the text asked for and all that follow it, or nothing, or it   *)
(* loses the registry, for good; and recorded values are deleted only of a *)
(* laboratory that is no longer registered and is itself what was asked    *)
(* for.  Printzipala.tla implements it.                                    *)
(***************************************************************************)
EXTENDS Naturals, Sequences

CONSTANTS Izenak, Ipak,   \* names and brokers
          Testuak,        \* texts a removal may be asked for with
          Testurik,       \* no removal is under way
          Barruan,        \* <<t, s>>: the text t is a substring of s
          HasierakoFitxategia

VARIABLES lerroak,   \* the registered laboratories
          balioak,   \* the laboratories with recorded values
          eskatua,   \* the text of the removal under way
          galduta    \* a removal has lost the registry

vars == <<lerroak, balioak, eskatua, galduta>>

Badator(t, l) == <<t, l[1]>> \in Barruan \/ <<t, l[2]>> \in Barruan

Init == /\ lerroak = HasierakoFitxategia
        /\ balioak = {lerroak[i] : i \in DOMAIN lerroak}
        /\ eskatua = Testurik /\ galduta = FALSE

Gehitu(l) == /\ eskatua = Testurik /\ ~galduta
             /\ \A i \in DOMAIN lerroak : lerroak[i][1] # l[1] /\ lerroak[i][2] # l[2]
             /\ lerroak' = Append(lerroak, l)
             /\ balioak' = balioak \/ balioak' = balioak \cup {l}
             /\ UNCHANGED <<eskatua, galduta>>

Eskatu(t) == /\ eskatua = Testurik /\ ~galduta
             /\ eskatua' = t
             /\ UNCHANGED <<lerroak, balioak, galduta>>

Moztu == \E n \in DOMAIN lerroak :
           /\ Badator(eskatua, lerroak[n])
           /\ \A i \in 1..(n - 1) : ~Badator(eskatua, lerroak[i])
           /\ lerroak' = SubSeq(lerroak, 1, n - 1)
           /\ UNCHANGED <<balioak, eskatua, galduta>>

\* Nothing takes galduta back.
Galdu == /\ eskatua # Testurik
         /\ lerroak' = << >> /\ galduta' = TRUE
         /\ eskatua' = Testurik
         /\ UNCHANGED balioak

BalioakEzabatu(l) == /\ eskatua = l[1] \/ eskatua = l[2]
                     /\ \A i \in DOMAIN lerroak : lerroak[i] # l
                     /\ balioak' = balioak \ {l}
                     /\ UNCHANGED <<lerroak, eskatua, galduta>>

Utzi == eskatua' = Testurik /\ UNCHANGED <<lerroak, balioak, galduta>>

Next == \/ \E l \in Izenak \X Ipak : Gehitu(l) \/ BalioakEzabatu(l)
        \/ \E t \in Testuak : Eskatu(t)
        \/ Moztu \/ Galdu \/ Utzi

Spec == Init /\ [][Next]_vars
=============================================================================
