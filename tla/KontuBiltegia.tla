--------------------------- MODULE KontuBiltegia ----------------------------
(***************************************************************************)
(* What the accounts promise, with no file, form or process: an account is *)
(* created once for each user, with one password, and never changes; it is *)
(* created while nobody is inside; and only the exact pair of an existing  *)
(* account lets anybody in.  Saioa.tla implements it.                      *)
(***************************************************************************)
CONSTANTS Izenak, Klabeak,  \* user names and passwords
          Inor,             \* no user
          HasierakoKontua

VARIABLES kontuak,  \* the accounts: pairs of a user and a password
          saioa     \* the account inside, or InorEz

vars == <<kontuak, saioa>>

InorEz == <<Inor, Inor>>

Init == kontuak = {HasierakoKontua} /\ saioa = InorEz

Sortu(u, p) == /\ saioa = InorEz
               /\ \A k \in kontuak : k[1] # u
               /\ kontuak' = kontuak \cup {<<u, p>>}
               /\ UNCHANGED saioa

Sartu == /\ saioa = InorEz
         /\ saioa' \in kontuak
         /\ UNCHANGED kontuak

Irten == saioa' = InorEz /\ UNCHANGED kontuak

Next == Sartu \/ Irten \/ \E u \in Izenak, p \in Klabeak : Sortu(u, p)

Spec == Init /\ [][Next]_vars
=============================================================================
