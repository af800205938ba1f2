------------------------------- MODULE Saioa -------------------------------
(***************************************************************************)
(* The login window: its form, which is used to log in and to create an    *)
(* account, and what it leaves on the disk: the account file, a user name  *)
(* and a password on alternate lines, and one registry file per account.   *)
(* The files outlive the process, which may end at any moment.  Of the main*)
(* window, modelled in Printzipala.tla, only what takes the user's registry*)
(* away is here.                                                           *)
(*                                                                         *)
(* Everything runs on the Swing event thread; a modal dialog blocks the    *)
(* form, so that an operation is cut only where a dialog is open.          *)
(***************************************************************************)
EXTENDS Naturals, Sequences

CONSTANTS Izenak,         \* user names that may be typed
          Klabeak,        \* passwords that may be typed; the two may overlap
          Inor,           \* no user
          HasierakoKontua \* the account the program is delivered with

\* A field left untouched, or emptied and left, holds its default text.
Erabiltzailea == "Erabiltzailea"
Pasahitza     == "Pasahitza"

ASSUME TestuenMotak ==
  /\ Inor \notin Izenak \cup Klabeak
  /\ HasierakoKontua \in (Izenak \X Klabeak)

VARIABLES
  pasahitzak,           \* the lines of the account file
  erregistroak,         \* the users with a registry file
  leihoa, saioa,        \* the window open, and the user and password let in
  erabilSortu,          \* the form creates an account
  botoiak, entzuleak,   \* the buttons shown; how often each calls the controller
  eremuak,              \* how many fields the form has
  sortzen,              \* the user whose creation is being announced
  galduta               \* history: users with an account left without a registry

diskoa == <<pasahitzak, erregistroak>>
forma == <<erabilSortu, botoiak, entzuleak, eremuak>>
vars == <<diskoa, leihoa, saioa, forma, sortzen, galduta>>

Botoiak == {"hasi", "erabiltzailea sortu", "sortu"}

\* The files are read in steps of two lines: users are at the odd ones.
Bikoteak == {i \in DOMAIN pasahitzak : i % 2 = 1}
MutLerroGuztiak(u, p) ==
  \E i \in DOMAIN pasahitzak : pasahitzak[i] = u /\ i < Len(pasahitzak) /\ pasahitzak[i + 1] = p
datuakKonprobatu(u, p) ==
  \E i \in Bikoteak : pasahitzak[i] = u /\ i < Len(pasahitzak) /\ pasahitzak[i + 1] = p
MutKontuaBadago(u) == \E i \in Bikoteak : i > 2 /\ pasahitzak[i] = u
badagoErabiltzailea(u) == \E i \in Bikoteak : pasahitzak[i] = u

Init ==
  /\ pasahitzak = HasierakoKontua
  /\ erregistroak = {HasierakoKontua[1]}
  /\ leihoa = "itxita" /\ saioa = <<Inor, Inor>>
  /\ erabilSortu = FALSE /\ botoiak = {} /\ eremuak = 0
  /\ entzuleak = [b \in Botoiak |-> 0]
  /\ sortzen = Inor
  /\ galduta = {}
-----------------------------------------------------------------------------
\* main and sortuLeihoa.
sortuLeihoa ==
  /\ leihoa = "itxita"
  /\ leihoa' = "login"
  /\ erabilSortu' = FALSE
  /\ botoiak' = {"hasi", "erabiltzailea sortu"} /\ eremuak' = 2
  /\ entzuleak' = [b \in Botoiak |-> IF b \in botoiak' THEN 1 ELSE 0]
  /\ UNCHANGED <<diskoa, saioa, sortzen, galduta>>

\* A click reaches propertyChange through the controller and the model.
Sakatu(b) == leihoa = "login" /\ sortzen = Inor /\ b \in botoiak /\ entzuleak[b] > 0

\* "hasi": a wrong user or password opens a dialog and changes nothing.
Hasi(u, p) ==
  /\ Sakatu("hasi") /\ ~erabilSortu
  /\ datuakKonprobatu(u, p)
  /\ leihoa' = "barruan" /\ saioa' = <<u, p>>
  /\ UNCHANGED <<diskoa, forma, sortzen, galduta>>

\* "erabiltzailea sortu": erabiltzaileBerria puts a new button in place of the two
\* others, and a third field is added.
erabiltzaileBerria ==
  /\ Sakatu("erabiltzailea sortu") /\ ~erabilSortu
  /\ botoiak' = {"sortu"} /\ entzuleak' = [entzuleak EXCEPT !["sortu"] = 1]
  /\ eremuak' = eremuak + 1
  /\ erabilSortu' = TRUE
  /\ UNCHANGED <<diskoa, leihoa, saioa, sortzen, galduta>>

\* The two buttons come back: the controller is taken off them and added again.
MutAktibatuKenduGabe ==
  /\ botoiak' = {"hasi", "erabiltzailea sortu"}
  /\ entzuleak' = [b \in Botoiak |-> IF b \in botoiak' THEN entzuleak[b] + 1 ELSE entzuleak[b]]
loginekoBotoiakAktibatu ==
  /\ botoiak' = {"hasi", "erabiltzailea sortu"}
  /\ entzuleak' = [b \in Botoiak |->
       IF b \in botoiak' THEN (IF entzuleak[b] > 0 THEN entzuleak[b] - 1 ELSE 0) + 1
                         ELSE entzuleak[b]]

\* The account is appended; an error is printed and taken for success.
kontuaGehitu(u, p) ==
  pasahitzak' = pasahitzak \o <<u, p>> \/ UNCHANGED pasahitzak

\* Mutant: untouched fields are not refused.
MutEremuUkituGabe(u, p, p2) ==
  /\ Sakatu("sortu") /\ erabilSortu
  /\ p = p2
  /\ ~badagoErabiltzailea(u)
  /\ kontuaGehitu(u, p)
  /\ loginekoBotoiakAktibatu
  /\ erabilSortu' = FALSE
  /\ eremuak' = eremuak - 1
  /\ sortzen' = u
  /\ UNCHANGED <<erregistroak, leihoa, saioa, galduta>>

\* "sortu": the user must be new, no field untouched, the two passwords equal;
\* otherwise a dialog opens and the form stays as it is.
erabiltzaileaBerriaSortu(u, p, p2) ==
  /\ Sakatu("sortu") /\ erabilSortu
  /\ u # Erabiltzailea /\ p # Pasahitza /\ p2 # Pasahitza
  /\ p = p2
  /\ ~badagoErabiltzailea(u)
  /\ kontuaGehitu(u, p)
  /\ loginekoBotoiakAktibatu
  /\ erabilSortu' = FALSE
  /\ eremuak' = eremuak - 1
  /\ sortzen' = u
  /\ UNCHANGED <<erregistroak, leihoa, saioa, galduta>>

\* An account in the file that is left without its registry.
galdu(u) == galduta' = IF badagoErabiltzailea(u) THEN galduta \cup {u} ELSE galduta

\* When the dialog that announces the account has been closed.  An existing file
\* is kept; creating one may fail.
MutFitxategiaSortuGabe ==
  /\ leihoa = "login" /\ sortzen # Inor
  /\ UNCHANGED <<erregistroak, galduta>>
  /\ sortzen' = Inor
  /\ UNCHANGED <<pasahitzak, leihoa, saioa, forma>>
fitxategiaSortu ==
  /\ leihoa = "login" /\ sortzen # Inor
  /\ \/ erregistroak' = erregistroak \cup {sortzen} /\ UNCHANGED galduta
     \/ /\ sortzen \notin erregistroak
        /\ galdu(sortzen) /\ UNCHANGED erregistroak
  /\ sortzen' = Inor
  /\ UNCHANGED <<pasahitzak, leihoa, saioa, forma>>

\* The main window's Kendu deletes the registry and the rename that would put the
\* rewritten one in its place fails, or the process ends before it.
KenduErregistroa ==
  /\ leihoa = "barruan" /\ saioa[1] \in erregistroak
  /\ erregistroak' = erregistroak \ {saioa[1]}
  /\ galdu(saioa[1])
  /\ UNCHANGED <<pasahitzak, leihoa, saioa, forma, sortzen>>

\* The window is closed, or the process ends, with or without a dialog open.
prozesuaAmaitu ==
  /\ leihoa # "itxita"
  /\ leihoa' = "itxita" /\ saioa' = <<Inor, Inor>>
  /\ erabilSortu' = FALSE /\ botoiak' = {} /\ eremuak' = 0
  /\ entzuleak' = [b \in Botoiak |-> 0]
  /\ sortzen' = Inor
  /\ IF sortzen \in erregistroak \cup {Inor} THEN UNCHANGED galduta ELSE galdu(sortzen)
  /\ UNCHANGED diskoa

Erabiltzaileak == Izenak \cup {Erabiltzailea}
Pasahitzak     == Klabeak \cup {Pasahitza}

Next == \/ sortuLeihoa \/ erabiltzaileBerria \/ fitxategiaSortu \/ KenduErregistroa
        \/ prozesuaAmaitu
        \/ \E u \in Erabiltzaileak, p \in Pasahitzak :
             \/ Hasi(u, p)
             \/ \E p2 \in Pasahitzak : erabiltzaileaBerriaSortu(u, p, p2)

Spec == Init /\ [][Next]_vars
-----------------------------------------------------------------------------
TypeOK ==
  /\ pasahitzak \in Seq(Izenak \cup Klabeak)
  /\ erregistroak \subseteq Izenak
  /\ leihoa \in {"itxita", "login", "barruan"}
  /\ saioa \in (Erabiltzaileak \cup {Inor}) \X (Pasahitzak \cup {Inor})
  /\ erabilSortu \in BOOLEAN
  /\ botoiak \subseteq Botoiak /\ entzuleak \in [Botoiak -> Nat]
  /\ eremuak \in {0, 2, 3}
  /\ sortzen \in Izenak \cup {Inor}
  /\ galduta \subseteq Izenak

\* Through every creation, failed write and restart the account file is a list of
\* pairs, one for each user: no name can be taken twice, and no password line can
\* be read as a user.
KontuakBikotetan ==
  /\ Len(pasahitzak) % 2 = 0
  /\ \A i, j \in Bikoteak : pasahitzak[i] = pasahitzak[j] => i = j

\* The pairs of lines are the accounts: whoever is let in has typed the pair of one,
\* although a password of one account may be the name of another, and no creation,
\* failed write or restart changes an account there is.
Kontuak == {<<pasahitzak[i], pasahitzak[i + 1]>> : i \in Bikoteak}
K == INSTANCE KontuBiltegia WITH kontuak <- Kontuak
Kontuetakoa == K!Spec

\* The form is in one of its two modes, in all its parts at once, and a click is
\* handled once, however many accounts have been created from the same window.
FormaDator ==
  leihoa = "login" =>
    /\ botoiak = IF erabilSortu THEN {"sortu"} ELSE {"hasi", "erabiltzailea sortu"}
    /\ eremuak = IF erabilSortu THEN 3 ELSE 2
    /\ \A b \in botoiak : entzuleak[b] = 1

\* An account is without a registry, which its user could log in to but never add a
\* laboratory in, just when it was lost in one of three ways: the process ended with
\* the dialog of its creation open, createNewFile failed, or Kendu deleted it and did
\* not put the rewritten one in its place.  Nothing else takes a registry away, and
\* nothing ever gives it back.
KontuakErregistroa ==
  \A i \in Bikoteak :
    pasahitzak[i] # sortzen => (pasahitzak[i] \in erregistroak <=> pasahitzak[i] \notin galduta)
=============================================================================
