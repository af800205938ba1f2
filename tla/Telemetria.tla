----------------------------- MODULE Telemetria -----------------------------
(***************************************************************************)
(* What the board promises of its telemetry, with no threads, buffers or   *)
(* LEDs: the readings a sensor's channel accepts are published one by one, *)
(* the oldest first, none twice, until the MQTT thread gives up; giving up *)
(* costs at most the one reading in hand.  Plaka.tla implements it.        *)
(***************************************************************************)
EXTENDS Naturals, Sequences

CONSTANTS Gaiak,       \* the topics, one channel each
          Balioak,     \* Balioak[g]: the readings channel g can accept
          Ahalmena,    \* how many accepted readings may wait in a channel
          Hasierakoa   \* "nothing published yet"

VARIABLES zain,         \* zain[g]: accepted, not yet published, oldest first
          argitaratua,  \* what was published last, with its topic
          bizirik       \* the MQTT thread has not reached Error_Handler

vars == <<zain, argitaratua, bizirik>>

Init == /\ zain = [g \in Gaiak |-> << >>]
        /\ argitaratua = Hasierakoa
        /\ bizirik = TRUE

Onartu(g, b) == /\ Len(zain[g]) < Ahalmena
                /\ zain' = [zain EXCEPT ![g] = Append(@, b)]
                /\ UNCHANGED <<argitaratua, bizirik>>

Argitaratu(g) == /\ bizirik
                 /\ zain[g] # << >>
                 /\ argitaratua' = <<g, Head(zain[g])>>
                 /\ zain' = [zain EXCEPT ![g] = Tail(@)]
                 /\ UNCHANGED bizirik

Gelditu == /\ bizirik
           /\ bizirik' = FALSE
           /\ \/ UNCHANGED zain
              \/ \E g \in Gaiak : /\ zain[g] # << >>
                                  /\ zain' = [zain EXCEPT ![g] = Tail(@)]
           /\ UNCHANGED argitaratua

Next == \/ \E g \in Gaiak : Argitaratu(g) \/ \E b \in Balioak[g] : Onartu(g, b)
        \/ Gelditu

Spec == Init /\ [][Next]_vars
=============================================================================
