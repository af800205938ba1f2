----------------------------- MODULE SaioaProofs -----------------------------
(***************************************************************************)
(* Proofs about Saioa for all user names and passwords, those that are both*)
(* included.  The invariant keeps the account file a list of pairs of a    *)
(* user and a password: from that follows that Saioa implements            *)
(* KontuBiltegia, and so who is let in, and that no account ever changes.  *)
(***************************************************************************)
EXTENDS Saioa, TLAPS

\* A user's line is followed by a password's.
Bikoteka == /\ pasahitzak \in Seq(Izenak \cup Klabeak)
            /\ \A i \in Bikoteak : /\ i + 1 \in DOMAIN pasahitzak
                                   /\ pasahitzak[i] \in Izenak
                                   /\ pasahitzak[i + 1] \in Klabeak

\* A button of the first mode keeps its listener while it is off the form.
Entzuten == leihoa = "login" => /\ entzuleak["hasi"] = 1
                                /\ entzuleak["erabiltzailea sortu"] = 1

Fitxategian == Bikoteka /\ KontuakBikotetan

\* Nobody is inside while the form is open, and whoever is inside has an account.
Barruan == IF leihoa = "barruan" THEN saioa \in Kontuak ELSE saioa = <<Inor, Inor>>

\* Only accounts of the file are counted as lost, and not the one being announced, which
\* keeps everybody out.
Galduak == /\ \A u \in galduta : badagoErabiltzailea(u)
           /\ sortzen \notin galduta /\ (sortzen # Inor => leihoa = "login")

IInv == /\ TypeOK /\ Fitxategian /\ Barruan /\ Entzuten /\ FormaDator
        /\ KontuakErregistroa /\ Galduak
-----------------------------------------------------------------------------
(* The account file. *)

LEMMA Hasierakoa ==
  /\ HasierakoKontua \in Seq(Izenak \cup Klabeak) /\ Len(HasierakoKontua) = 2
  /\ HasierakoKontua[1] \in Izenak /\ HasierakoKontua[2] \in Klabeak
<1>1. PICK u \in Izenak, p \in Klabeak : HasierakoKontua = <<u, p>>
  BY TestuenMotak
<1> QED
  BY <1>1

LEMMA Bakoitia == ASSUME NEW n \in Nat, n % 2 = 0 PROVE (n + 1) % 2 = 1
OBVIOUS

\* Appending a new user's pair leaves the pairs before it as they were.
LEMMA BikoteaGehitu ==
  ASSUME pasahitzak \in Seq(Izenak \cup Klabeak), Len(pasahitzak) % 2 = 0,
         NEW u \in Izenak, NEW p \in Klabeak, pasahitzak' = pasahitzak \o <<u, p>>
  PROVE  /\ pasahitzak' \in Seq(Izenak \cup Klabeak)
         /\ Len(pasahitzak') = Len(pasahitzak) + 2 /\ Len(pasahitzak') % 2 = 0
         /\ \A i \in Bikoteak' : i \in Bikoteak \/ i = Len(pasahitzak) + 1
         /\ \A i \in 1..Len(pasahitzak) : pasahitzak'[i] = pasahitzak[i]
         /\ pasahitzak'[Len(pasahitzak) + 1] = u /\ pasahitzak'[Len(pasahitzak) + 2] = p
         /\ Bikoteak \subseteq Bikoteak' /\ Len(pasahitzak) + 1 \in Bikoteak'
<1>1. <<u, p>> \in Seq(Izenak \cup Klabeak) /\ Len(<<u, p>>) = 2
  OBVIOUS
<1>2. /\ pasahitzak' \in Seq(Izenak \cup Klabeak)
      /\ Len(pasahitzak') = Len(pasahitzak) + 2 /\ Len(pasahitzak) \in Nat
  BY <1>1
<1>3. DOMAIN pasahitzak = 1..Len(pasahitzak) /\ DOMAIN pasahitzak' = 1..Len(pasahitzak) + 2
  BY <1>2
<1>4. Len(pasahitzak') % 2 = 0 /\ (Len(pasahitzak) + 2) % 2 = 0
  BY <1>2
<1>5. \A i \in Bikoteak' : i \in Bikoteak \/ i = Len(pasahitzak) + 1
  <2>1. SUFFICES ASSUME NEW i \in Bikoteak' PROVE i \in Bikoteak \/ i = Len(pasahitzak) + 1
    OBVIOUS
  <2>2. i \in 1..Len(pasahitzak) + 2 /\ i % 2 = 1
    BY <1>3 DEF Bikoteak
  <2>3. i # Len(pasahitzak) + 2
    <3>1. (Len(pasahitzak) + 2) % 2 # 1
      <4>1. 0 # 1
        OBVIOUS
      <4> QED
        BY <1>4, <4>1, Zenon
    <3> QED
      BY <2>2, <3>1, Zenon
  <2>4. i \in 1..Len(pasahitzak) \/ i = Len(pasahitzak) + 1
    BY <1>2, <2>2, <2>3
  <2> QED
    BY <1>3, <2>2, <2>4 DEF Bikoteak
<1>6. \A i \in 1..Len(pasahitzak) : pasahitzak'[i] = pasahitzak[i]
  BY <1>1
<1>7. pasahitzak'[Len(pasahitzak) + 1] = u /\ pasahitzak'[Len(pasahitzak) + 2] = p
  BY <1>1
<1>8. Bikoteak \subseteq Bikoteak'
  BY <1>2, <1>3 DEF Bikoteak
<1>9. Len(pasahitzak) + 1 \in Bikoteak'
  <2>1. (Len(pasahitzak) + 1) % 2 = 1
    BY <1>2, Bakoitia
  <2> QED
    BY <1>2, <1>3, <2>1 DEF Bikoteak
<1> QED
  BY <1>2, <1>4, <1>5, <1>6, <1>7, <1>8, <1>9

LEMMA KontuakHasiera == Init => Fitxategian
<1> SUFFICES ASSUME Init PROVE Fitxategian
  OBVIOUS
<1>1. /\ pasahitzak \in Seq(Izenak \cup Klabeak) /\ Len(pasahitzak) = 2
      /\ pasahitzak[1] \in Izenak /\ pasahitzak[2] \in Klabeak
  BY Hasierakoa DEF Init
<1>2. \A i \in Bikoteak : i = 1
  BY <1>1 DEF Bikoteak
<1>3. DOMAIN pasahitzak = 1..2
  BY <1>1
<1>5. Bikoteka
  BY <1>1, <1>2, <1>3 DEF Bikoteka
<1>6. KontuakBikotetan
  BY <1>1, <1>2 DEF KontuakBikotetan
<1> QED
  BY <1>5, <1>6 DEF Fitxategian

\* An account's creation that succeeds adds its pair and keeps the others; one that
\* fails changes nothing.
LEMMA KontuakGehitu ==
  ASSUME Fitxategian, NEW u \in Izenak, NEW p \in Klabeak, ~badagoErabiltzailea(u),
         kontuaGehitu(u, p)
  PROVE  /\ Fitxategian'
         /\ \A i \in Bikoteak' : pasahitzak'[i] = u \/ (i \in Bikoteak /\ pasahitzak'[i] = pasahitzak[i])
         /\ \A i \in Bikoteak : i \in Bikoteak' /\ pasahitzak'[i] = pasahitzak[i]
         /\ Kontuak' = Kontuak \/ Kontuak' = Kontuak \cup {<<u, p>>}
<1>1. CASE UNCHANGED pasahitzak
  BY <1>1 DEF Fitxategian, Bikoteka, KontuakBikotetan, Bikoteak, Kontuak
<1>2. CASE pasahitzak' = pasahitzak \o <<u, p>>
  <2> DEFINE n == Len(pasahitzak)
  <2>1. pasahitzak \in Seq(Izenak \cup Klabeak) /\ n % 2 = 0 /\ n \in Nat
    BY DEF Fitxategian, Bikoteka, KontuakBikotetan
  <2>2. /\ pasahitzak' \in Seq(Izenak \cup Klabeak)
        /\ Len(pasahitzak') = n + 2 /\ Len(pasahitzak') % 2 = 0
        /\ \A i \in Bikoteak' : i \in Bikoteak \/ i = n + 1
        /\ \A i \in 1..n : pasahitzak'[i] = pasahitzak[i]
        /\ pasahitzak'[n + 1] = u /\ pasahitzak'[n + 2] = p
        /\ Bikoteak \subseteq Bikoteak' /\ n + 1 \in Bikoteak'
    BY <1>2, <2>1, BikoteaGehitu
  <2>3. \A i \in Bikoteak : /\ i \in 1..n /\ i + 1 \in 1..n
                            /\ pasahitzak[i] \in Izenak /\ pasahitzak[i] # u
                            /\ pasahitzak[i + 1] \in Klabeak
    <3>1. DOMAIN pasahitzak = 1..n
      BY <2>1
    <3>2. \A i \in Bikoteak : /\ i + 1 \in 1..n /\ pasahitzak[i] \in Izenak
                              /\ pasahitzak[i + 1] \in Klabeak
      BY <3>1 DEF Fitxategian, Bikoteka
    <3>3. \A i \in Bikoteak : i \in 1..n /\ pasahitzak[i] # u
      BY <3>1 DEF Bikoteak, badagoErabiltzailea
    <3> QED
      BY <3>2, <3>3
  <2>4. DOMAIN pasahitzak' = 1..n + 2
    BY <2>2
  <2>5. \A i \in Bikoteak : pasahitzak'[i] = pasahitzak[i] /\ pasahitzak'[i + 1] = pasahitzak[i + 1]
    BY <2>2, <2>3
  <2>6. Bikoteka'
    <3>1. ASSUME NEW i \in Bikoteak'
          PROVE  /\ i + 1 \in DOMAIN pasahitzak' /\ pasahitzak'[i] \in Izenak
                 /\ pasahitzak'[i + 1] \in Klabeak
      <4>1. CASE i \in Bikoteak
        BY <4>1, <2>1, <2>3, <2>4, <2>5
      <4>2. CASE i = n + 1
        BY <4>2, <2>1, <2>2, <2>4
      <4> QED
        BY <4>1, <4>2, <2>2
    <3> QED
      BY <2>2, <3>1 DEF Bikoteka
  <2>7. KontuakBikotetan'
    <3>1. ASSUME NEW i \in Bikoteak', NEW j \in Bikoteak', pasahitzak'[i] = pasahitzak'[j]
          PROVE  i = j
      <4>1. (i \in Bikoteak \/ i = n + 1) /\ (j \in Bikoteak \/ j = n + 1)
        BY <2>2
      <4>2. \A k, m \in Bikoteak : pasahitzak[k] = pasahitzak[m] => k = m
        BY DEF Fitxategian, KontuakBikotetan
      <4> QED
        BY <3>1, <4>1, <4>2, <2>2, <2>3
    <3> QED
      BY <2>2, <3>1 DEF KontuakBikotetan
  <2>8. \A i \in Bikoteak' : pasahitzak'[i] = u \/ (i \in Bikoteak /\ pasahitzak'[i] = pasahitzak[i])
    BY <2>2, <2>3
  <2>9. Kontuak' = Kontuak \cup {<<u, p>>}
    <3> DEFINE f(i) == <<pasahitzak[i], pasahitzak[i + 1]>>
               g(i) == <<pasahitzak'[i], pasahitzak'[i + 1]>>
    <3>1. \A i \in Bikoteak : g(i) = f(i)
      BY <2>5
    <3>2. g(n + 1) = <<u, p>>
      <4>1. n + 1 + 1 = n + 2
        BY <2>1
      <4> QED
        BY <4>1, <2>2
    <3>3. Kontuak = {f(i) : i \in Bikoteak} /\ Kontuak' = {g(i) : i \in Bikoteak'}
      BY DEF Kontuak
    <3> HIDE DEF f, g, n
    <3> QED
      BY <2>2, <3>1, <3>2, <3>3
  <2> QED
    BY <2>2, <2>5, <2>6, <2>7, <2>8, <2>9 DEF Fitxategian
<1> QED
  BY <1>1, <1>2 DEF kontuaGehitu
-----------------------------------------------------------------------------
(* The actions. *)

LEMMA KontuakPausoa == TypeOK /\ Fitxategian /\ [Next]_vars => Fitxategian'
<1> SUFFICES ASSUME TypeOK, Fitxategian, [Next]_vars PROVE Fitxategian'
  OBVIOUS
<1>1. CASE UNCHANGED pasahitzak
  BY <1>1 DEF Fitxategian, Bikoteka, KontuakBikotetan, Bikoteak
<1>2. ASSUME NEW u \in Erabiltzaileak, NEW p \in Pasahitzak, NEW p2 \in Pasahitzak,
             erabiltzaileaBerriaSortu(u, p, p2)
      PROVE  Fitxategian'
  <2>1. u \in Izenak /\ p \in Klabeak /\ ~badagoErabiltzailea(u) /\ kontuaGehitu(u, p)
    BY <1>2 DEF erabiltzaileaBerriaSortu, Erabiltzaileak, Pasahitzak
  <2> QED
    BY <2>1, KontuakGehitu
<1> QED
  BY <1>1, <1>2 DEF Next, vars, diskoa, sortuLeihoa, Hasi, erabiltzaileBerria,
     fitxategiaSortu, KenduErregistroa, prozesuaAmaitu

\* Listeners and fields go up and down by one.
LEMMA Kontaketa == 2 + 1 = 3 /\ 3 - 1 = 2 /\ (IF 1 > 0 THEN 1 - 1 ELSE 0) + 1 = 1
  OBVIOUS

\* The number of fields and the mode go together.
LEMMA EremuKopurua ==
  ASSUME FormaDator, leihoa = "login"
  PROVE  (erabilSortu => eremuak = 3) /\ (~erabilSortu => eremuak = 2)
<1>1. eremuak = IF erabilSortu THEN 3 ELSE 2
  BY DEF FormaDator
<1> QED
  BY <1>1

\* Putting the buttons of the first mode back leaves one listener on each.
LEMMA AktibatuBat ==
  ASSUME entzuleak \in [Botoiak -> Nat], loginekoBotoiakAktibatu
  PROVE  /\ entzuleak' \in [Botoiak -> Nat]
         /\ \A b \in {"hasi", "erabiltzailea sortu"} :
              entzuleak[b] = 1 => entzuleak'[b] = 1
<1>1. \A n \in Nat : (IF n > 0 THEN n - 1 ELSE 0) + 1 \in Nat
  OBVIOUS
<1>2. entzuleak' \in [Botoiak -> Nat]
  BY <1>1 DEF loginekoBotoiakAktibatu
<1>3. \A b \in {"hasi", "erabiltzailea sortu"} :
        entzuleak'[b] = (IF entzuleak[b] > 0 THEN entzuleak[b] - 1 ELSE 0) + 1
  BY DEF loginekoBotoiakAktibatu, Botoiak
<1>4. ASSUME NEW b \in {"hasi", "erabiltzailea sortu"}, entzuleak[b] = 1
      PROVE  entzuleak'[b] = 1
  <2>1. entzuleak'[b] = (IF 1 > 0 THEN 1 - 1 ELSE 0) + 1
    BY <1>3, <1>4
  <2> QED
    BY <2>1, Kontaketa, Zenon
<1> QED
  BY <1>2, <1>4

\* The rest of the state, and what is said of it.
LEMMA MotakPausoa == TypeOK /\ Fitxategian /\ FormaDator /\ [Next]_vars => TypeOK'
<1> SUFFICES ASSUME TypeOK, Fitxategian, FormaDator, [Next]_vars PROVE TypeOK'
  OBVIOUS
<1>1. pasahitzak' \in Seq(Izenak \cup Klabeak)
  BY KontuakPausoa DEF Fitxategian, Bikoteka
<1>2. CASE sortuLeihoa
  <2>1. entzuleak' \in [Botoiak -> Nat] /\ botoiak' \subseteq Botoiak
    BY <1>2 DEF sortuLeihoa, Botoiak
  <2> QED
    BY <1>1, <1>2, <2>1 DEF sortuLeihoa, diskoa, TypeOK
<1>3. ASSUME NEW u \in Erabiltzaileak, NEW p \in Pasahitzak, Hasi(u, p) PROVE TypeOK'
  BY <1>1, <1>3 DEF Hasi, diskoa, forma, TypeOK
<1>4. CASE erabiltzaileBerria
  <2>1. eremuak = 2 /\ eremuak' = 3
    <3>1. leihoa = "login" /\ ~erabilSortu /\ eremuak' = eremuak + 1
      BY <1>4 DEF erabiltzaileBerria, Sakatu
    <3>2. eremuak = 2
      BY <3>1, EremuKopurua
    <3> QED
      BY <3>1, <3>2
  <2>2. entzuleak' \in [Botoiak -> Nat] /\ botoiak' \subseteq Botoiak
    BY <1>4 DEF erabiltzaileBerria, TypeOK, Botoiak
  <2> QED
    BY <1>1, <1>4, <2>1, <2>2 DEF erabiltzaileBerria, diskoa, TypeOK
<1>5. ASSUME NEW u \in Erabiltzaileak, NEW p \in Pasahitzak, NEW p2 \in Pasahitzak,
             erabiltzaileaBerriaSortu(u, p, p2)
      PROVE  TypeOK'
  <2>1. u \in Izenak
    BY <1>5 DEF erabiltzaileaBerriaSortu, Erabiltzaileak
  <2>2. entzuleak' \in [Botoiak -> Nat]
    BY <1>5, AktibatuBat DEF erabiltzaileaBerriaSortu, TypeOK
  <2>3. botoiak' \subseteq Botoiak
    BY <1>5 DEF erabiltzaileaBerriaSortu, loginekoBotoiakAktibatu, Botoiak
  <2>4. eremuak' \in {0, 2, 3}
    <3>1. eremuak = 3
      BY <1>5, EremuKopurua DEF erabiltzaileaBerriaSortu, Sakatu
    <3> QED
      BY <1>5, <3>1 DEF erabiltzaileaBerriaSortu
  <2>5. sortzen' \in Izenak \cup {Inor} /\ erabilSortu' \in BOOLEAN
    BY <1>5, <2>1 DEF erabiltzaileaBerriaSortu
  <2>6. UNCHANGED <<erregistroak, leihoa, saioa, galduta>>
    BY <1>5 DEF erabiltzaileaBerriaSortu
  <2> QED
    BY <1>1, <2>2, <2>3, <2>4, <2>5, <2>6 DEF TypeOK
<1>6. CASE fitxategiaSortu
  <2>1. sortzen \in Izenak
    BY <1>6 DEF fitxategiaSortu, TypeOK
  <2>2. galduta' \subseteq Izenak
    BY <1>6, <2>1 DEF fitxategiaSortu, galdu, TypeOK
  <2> QED
    BY <1>1, <1>6, <2>1, <2>2 DEF fitxategiaSortu, forma, TypeOK
<1>7. CASE prozesuaAmaitu
  <2>1. entzuleak' \in [Botoiak -> Nat] /\ botoiak' \subseteq Botoiak /\ eremuak' \in {0, 2, 3}
    BY <1>7 DEF prozesuaAmaitu
  <2>2. /\ erregistroak' \subseteq Izenak /\ galduta' \subseteq Izenak
        /\ sortzen' \in Izenak \cup {Inor}
    BY <1>7 DEF prozesuaAmaitu, galdu, diskoa, TypeOK
  <2>3. /\ leihoa' \in {"itxita", "login", "barruan"} /\ erabilSortu' \in BOOLEAN
        /\ saioa' \in (Erabiltzaileak \cup {Inor}) \X (Pasahitzak \cup {Inor})
    BY <1>7 DEF prozesuaAmaitu
  <2> QED
    BY <1>1, <2>1, <2>2, <2>3 DEF TypeOK
<1>8. CASE KenduErregistroa
  BY <1>1, <1>8 DEF KenduErregistroa, galdu, forma, TypeOK
<1>9. CASE UNCHANGED vars
  BY <1>1, <1>9 DEF vars, diskoa, forma, TypeOK
<1> QED
  BY <1>2, <1>3, <1>4, <1>5, <1>6, <1>7, <1>8, <1>9 DEF Next

LEMMA FormaPausoa == TypeOK /\ Entzuten /\ FormaDator /\ [Next]_vars => (Entzuten /\ FormaDator)'
<1> SUFFICES ASSUME TypeOK, Entzuten, FormaDator, [Next]_vars PROVE (Entzuten /\ FormaDator)'
  OBVIOUS
<1> USE DEF Entzuten, FormaDator
<1>1. CASE sortuLeihoa
  BY <1>1 DEF sortuLeihoa, Botoiak
<1>2. CASE erabiltzaileBerria
  <2>1. entzuleak \in [Botoiak -> Nat]
    BY DEF TypeOK
  <2>2. entzuleak' = [entzuleak EXCEPT !["sortu"] = 1]
    BY <1>2 DEF erabiltzaileBerria
  <2>3. /\ entzuleak'["sortu"] = 1 /\ entzuleak'["hasi"] = entzuleak["hasi"]
        /\ entzuleak'["erabiltzailea sortu"] = entzuleak["erabiltzailea sortu"]
    BY <2>1, <2>2 DEF Botoiak
  <2>4. /\ leihoa = "login" /\ ~erabilSortu /\ eremuak' = eremuak + 1
        /\ botoiak' = {"sortu"} /\ erabilSortu'
    BY <1>2 DEF erabiltzaileBerria, Sakatu
  <2>5. eremuak = 2
    BY <2>4, EremuKopurua
  <2>6. eremuak' = 3
    BY <2>4, <2>5, Kontaketa, Zenon
  <2> QED
    BY <2>3, <2>4, <2>6
<1>3. ASSUME NEW u \in Erabiltzaileak, NEW p \in Pasahitzak, NEW p2 \in Pasahitzak,
             erabiltzaileaBerriaSortu(u, p, p2)
      PROVE  (Entzuten /\ FormaDator)'
  <2>1. leihoa = "login" /\ eremuak' = 2 /\ ~erabilSortu'
    <3>1. leihoa = "login" /\ erabilSortu /\ eremuak' = eremuak - 1 /\ ~erabilSortu'
      BY <1>3 DEF erabiltzaileaBerriaSortu, Sakatu
    <3>2. eremuak = 3
      BY <3>1, EremuKopurua
    <3> QED
      BY <3>1, <3>2, Kontaketa, Zenon
  <2>2. botoiak' = {"hasi", "erabiltzailea sortu"}
    BY <1>3 DEF erabiltzaileaBerriaSortu, loginekoBotoiakAktibatu
  <2>3. entzuleak'["hasi"] = 1 /\ entzuleak'["erabiltzailea sortu"] = 1
    BY <1>3, <2>1, AktibatuBat DEF erabiltzaileaBerriaSortu, TypeOK
  <2> QED
    BY <2>1, <2>2, <2>3
<1>4. CASE leihoa' # "login"
  BY <1>4
<1>5. CASE UNCHANGED <<leihoa, forma>>
  BY <1>5 DEF forma
<1> QED
  BY <1>1, <1>2, <1>3, <1>4, <1>5 DEF Next, vars, Hasi, fitxategiaSortu,
     KenduErregistroa, prozesuaAmaitu

\* What each step does to the accounts and to who is inside.
LEMMA PausoMota ==
  ASSUME TypeOK, Fitxategian, [Next]_vars
  PROVE  \/ UNCHANGED <<Kontuak, saioa, leihoa>>
         \/ /\ leihoa # "barruan" /\ leihoa' = "barruan"
            /\ saioa' \in Kontuak /\ Kontuak' = Kontuak
         \/ /\ leihoa' # "barruan" /\ Kontuak' = Kontuak
            /\ saioa' = <<Inor, Inor>> \/ (leihoa # "barruan" /\ saioa' = saioa)
         \/ /\ leihoa = "login" /\ UNCHANGED <<leihoa, saioa>>
            /\ \E u \in Izenak, p \in Klabeak : ~badagoErabiltzailea(u)
                                                /\ Kontuak' = Kontuak \cup {<<u, p>>}
<1>1. pasahitzak' = pasahitzak => Kontuak' = Kontuak
  BY DEF Kontuak, Bikoteak
<1>2. ASSUME NEW u \in Erabiltzaileak, NEW p \in Pasahitzak, Hasi(u, p)
      PROVE  /\ leihoa # "barruan" /\ leihoa' = "barruan"
             /\ saioa' \in Kontuak /\ Kontuak' = Kontuak
  <2>1. PICK i \in Bikoteak : pasahitzak[i] = u /\ pasahitzak[i + 1] = p
    BY <1>2 DEF Hasi, datuakKonprobatu
  <2>2. <<u, p>> \in Kontuak
    BY <2>1 DEF Kontuak
  <2> QED
    BY <1>1, <1>2, <2>2 DEF Hasi, Sakatu, diskoa
<1>3. ASSUME NEW u \in Erabiltzaileak, NEW p \in Pasahitzak, NEW p2 \in Pasahitzak,
             erabiltzaileaBerriaSortu(u, p, p2)
      PROVE  /\ leihoa = "login" /\ UNCHANGED <<leihoa, saioa>>
             /\ u \in Izenak /\ p \in Klabeak /\ ~badagoErabiltzailea(u)
             /\ Kontuak' = Kontuak \/ Kontuak' = Kontuak \cup {<<u, p>>}
  <2>1. /\ leihoa = "login" /\ UNCHANGED <<leihoa, saioa>>
        /\ u \in Izenak /\ p \in Klabeak /\ ~badagoErabiltzailea(u) /\ kontuaGehitu(u, p)
    BY <1>3 DEF erabiltzaileaBerriaSortu, Sakatu, Erabiltzaileak, Pasahitzak
  <2> QED
    BY <2>1, KontuakGehitu
<1>4. CASE sortuLeihoa
  BY <1>1, <1>4 DEF sortuLeihoa, diskoa
<1>5. CASE prozesuaAmaitu
  BY <1>1, <1>5 DEF prozesuaAmaitu, diskoa
<1>6. CASE erabiltzaileBerria \/ fitxategiaSortu \/ KenduErregistroa \/ UNCHANGED vars
  BY <1>1, <1>6 DEF erabiltzaileBerria, fitxategiaSortu, KenduErregistroa, vars, diskoa
<1> QED
  BY <1>2, <1>3, <1>4, <1>5, <1>6 DEF Next

LEMMA BarruanPausoa == TypeOK /\ Fitxategian /\ Barruan /\ [Next]_vars => Barruan'
<1> SUFFICES ASSUME TypeOK, Fitxategian, Barruan, [Next]_vars PROVE Barruan'
  OBVIOUS
<1> QED
  BY PausoMota DEF Barruan

\* A registry goes only with its user entered among the lost, and both stay apart.
LEMMA ErregistroaPausoa ==
  TypeOK /\ Fitxategian /\ Barruan /\ KontuakErregistroa /\ Galduak /\ [Next]_vars
    => (KontuakErregistroa /\ Galduak)'
<1> SUFFICES ASSUME TypeOK, Fitxategian, Barruan, KontuakErregistroa, Galduak, [Next]_vars
             PROVE  (KontuakErregistroa /\ Galduak)'
  OBVIOUS
<1> USE DEF KontuakErregistroa, Galduak, badagoErabiltzailea
<1>1. \A i \in Bikoteak : pasahitzak[i] # Inor
  BY TestuenMotak DEF Fitxategian, Bikoteka
<1>2. ASSUME NEW u \in Erabiltzaileak, NEW p \in Pasahitzak, NEW p2 \in Pasahitzak,
             erabiltzaileaBerriaSortu(u, p, p2)
      PROVE  (KontuakErregistroa /\ Galduak)'
  <2>1. u \in Izenak /\ p \in Klabeak /\ ~badagoErabiltzailea(u) /\ kontuaGehitu(u, p)
    BY <1>2 DEF erabiltzaileaBerriaSortu, Erabiltzaileak, Pasahitzak
  <2>2. \A i \in Bikoteak' : pasahitzak'[i] = u \/ (i \in Bikoteak /\ pasahitzak'[i] = pasahitzak[i])
    BY <2>1, KontuakGehitu
  <2>3. sortzen = Inor /\ sortzen' = u /\ UNCHANGED <<erregistroak, galduta>>
    BY <1>2 DEF erabiltzaileaBerriaSortu, Sakatu
  <2>4. u \notin galduta
    BY <2>1
  <2>5. KontuakErregistroa'
    BY <1>1, <2>2, <2>3
  <2>6. Galduak'
    <3>1. ASSUME NEW v \in galduta' PROVE \E i \in Bikoteak' : pasahitzak'[i] = v
      <4>1. PICK i \in Bikoteak : pasahitzak[i] = v
        BY <2>3, <3>1
      <4>2. i \in Bikoteak' /\ pasahitzak'[i] = pasahitzak[i]
        BY <2>1, KontuakGehitu
      <4> QED
        BY <4>1, <4>2
    <3>2. sortzen' \notin galduta' /\ leihoa' = "login"
      BY <1>2, <2>3, <2>4 DEF erabiltzaileaBerriaSortu, Sakatu
    <3> QED
      BY <3>1, <3>2
  <2> QED
    BY <2>5, <2>6
<1>3. CASE fitxategiaSortu
  <2>1. sortzen' = Inor /\ Bikoteak' = Bikoteak /\ UNCHANGED pasahitzak
    BY <1>3 DEF fitxategiaSortu, Bikoteak
  <2>2. Inor \notin galduta /\ sortzen # Inor
    BY <1>3, TestuenMotak DEF fitxategiaSortu, TypeOK
  <2>3. CASE erregistroak' = erregistroak \cup {sortzen} /\ UNCHANGED galduta
    BY <2>1, <2>2, <2>3
  <2>4. CASE galdu(sortzen) /\ UNCHANGED erregistroak /\ sortzen \notin erregistroak
    <3>1. CASE badagoErabiltzailea(sortzen)
      BY <2>1, <2>2, <2>4, <3>1 DEF galdu
    <3>2. CASE ~badagoErabiltzailea(sortzen)
      BY <2>1, <2>2, <2>4, <3>2 DEF galdu
    <3> QED
      BY <3>1, <3>2
  <2> QED
    BY <1>3, <2>3, <2>4 DEF fitxategiaSortu
<1>4. CASE prozesuaAmaitu
  <2>1. sortzen' = Inor /\ Bikoteak' = Bikoteak /\ UNCHANGED <<pasahitzak, erregistroak>>
    BY <1>4 DEF prozesuaAmaitu, diskoa, Bikoteak
  <2>2. Inor \notin Izenak
    BY TestuenMotak
  <2>3. IF sortzen \in erregistroak \cup {Inor} THEN UNCHANGED galduta ELSE galdu(sortzen)
    BY <1>4 DEF prozesuaAmaitu
  <2> QED
    BY <1>1, <2>1, <2>2, <2>3 DEF galdu, TypeOK
<1>5. CASE KenduErregistroa
  <2>1. /\ erregistroak' = erregistroak \ {saioa[1]} /\ galdu(saioa[1])
        /\ Bikoteak' = Bikoteak /\ UNCHANGED <<pasahitzak, leihoa, sortzen>>
    BY <1>5 DEF KenduErregistroa, Bikoteak
  <2>2. PICK i \in Bikoteak : pasahitzak[i] = saioa[1]
    BY <1>5 DEF KenduErregistroa, Barruan, Kontuak
  <2>3. galduta' = galduta \cup {saioa[1]}
    BY <2>1, <2>2 DEF galdu
  <2>4. sortzen = Inor /\ saioa[1] # Inor
    BY <1>1, <1>5, <2>2 DEF KenduErregistroa
  <2> QED
    BY <2>1, <2>2, <2>3, <2>4
<1>6. CASE UNCHANGED <<diskoa, sortzen, galduta>> /\ (sortzen = Inor \/ leihoa' = leihoa)
  BY <1>6 DEF diskoa, Bikoteak
<1> QED
  BY <1>2, <1>3, <1>4, <1>5, <1>6
  DEF Next, vars, sortuLeihoa, Hasi, Sakatu, erabiltzaileBerria

LEMMA Hasiera == Init => IInv
<1> SUFFICES ASSUME Init PROVE IInv
  OBVIOUS
<1>1. Fitxategian
  BY KontuakHasiera
<1>2. TypeOK
  <2>1. pasahitzak \in Seq(Izenak \cup Klabeak)
    BY <1>1 DEF Fitxategian, Bikoteka
  <2>2. erregistroak \subseteq Izenak
    BY Hasierakoa DEF Init
  <2>3. entzuleak \in [Botoiak -> Nat]
    BY DEF Init
  <2>4. saioa \in (Erabiltzaileak \cup {Inor}) \X (Pasahitzak \cup {Inor})
    BY DEF Init
  <2>5. eremuak \in {0, 2, 3} /\ botoiak \subseteq Botoiak /\ galduta \subseteq Izenak
    BY DEF Init
  <2> QED
    BY <2>1, <2>2, <2>3, <2>4, <2>5 DEF Init, TypeOK
<1>3. Barruan /\ Entzuten /\ FormaDator
  BY DEF Init, Barruan, Entzuten, FormaDator
<1>4. KontuakErregistroa /\ Galduak
  <2>1. \A i \in Bikoteak : i = 1
    BY Hasierakoa DEF Init, Bikoteak
  <2> QED
    BY <2>1 DEF Init, KontuakErregistroa, Galduak
<1> QED
  BY <1>1, <1>2, <1>3, <1>4 DEF IInv

LEMMA InbarianteaBeti == Spec => []IInv
<1>1. IInv /\ [Next]_vars => IInv'
  BY KontuakPausoa, MotakPausoa, FormaPausoa, BarruanPausoa, ErregistroaPausoa DEF IInv
<1> QED
  BY Hasiera, <1>1, PTL DEF Spec
-----------------------------------------------------------------------------
\* Every reachable state has the types the declarations give it; the default texts of
\* the form are never taken for a user or a password.
THEOREM SaioaMotak == Spec => []TypeOK
<1>1. IInv => TypeOK
  BY DEF IInv
<1> QED
  BY InbarianteaBeti, <1>1, PTL

\* Whatever is typed, and whatever write fails, the account file stays a list of pairs
\* with one for each user.
THEOREM KontuakBikotetanBeti == Spec => []KontuakBikotetan
<1>1. IInv => KontuakBikotetan
  BY DEF IInv, Fitxategian
<1> QED
  BY InbarianteaBeti, <1>1, PTL

\* Saioa implements KontuBiltegia: only the pair of an account lets anybody in, even when
\* passwords are also names, and no creation, failed write or restart changes an account.
THEOREM KontuBiltegiaBetetzen == Spec => Kontuetakoa
<1>1. Init => K!Init
  <2> SUFFICES ASSUME Init PROVE K!Init
    OBVIOUS
  <2>1. /\ pasahitzak = HasierakoKontua /\ Len(pasahitzak) = 2
        /\ HasierakoKontua = <<pasahitzak[1], pasahitzak[2]>>
    BY TestuenMotak DEF Init
  <2>2. \A i : i \in Bikoteak <=> i = 1
    BY <2>1, Hasierakoa DEF Bikoteak
  <2>3. Kontuak = {HasierakoKontua}
    BY <2>1, <2>2 DEF Kontuak
  <2> QED
    BY <2>3 DEF Init, K!Init, K!InorEz
<1>2. IInv /\ [Next]_vars => [K!Next]_(K!vars)
  <2> SUFFICES ASSUME TypeOK, Fitxategian, Barruan, [Next]_vars PROVE [K!Next]_(K!vars)
    BY DEF IInv
  <2>1. \A u : ~badagoErabiltzailea(u) => \A k \in Kontuak : k[1] # u
    BY DEF badagoErabiltzailea, Kontuak
  <2> QED
    BY <2>1, PausoMota DEF Barruan, K!Next, K!Sartu, K!Irten, K!Sortu, K!InorEz, K!vars
<1> QED
  BY <1>1, <1>2, InbarianteaBeti, PTL DEF Spec, Kontuetakoa, K!Spec

\* In particular, whoever is inside has typed the pair of an account, and nobody is
\* inside while the form is open.
THEOREM SarreraKontuarenaBeti ==
  Spec => [](IF leihoa = "barruan" THEN saioa \in Kontuak ELSE saioa = <<Inor, Inor>>)
<1>1. IInv => Barruan
  BY DEF IInv
<1> QED
  BY InbarianteaBeti, <1>1, PTL DEF Barruan

\* The form is always in one of its two modes in all its parts, and no number of created
\* accounts doubles a listener.
THEOREM FormaDatorBeti == Spec => []FormaDator
<1>1. IInv => FormaDator
  BY DEF IInv
<1> QED
  BY InbarianteaBeti, <1>1, PTL

\* An account is without a registry just when its creation was cut before createNewFile,
\* that failed, or Kendu deleted the registry and put no other in its place: nothing else
\* takes a registry away, and nothing gives it back.
THEOREM KontuakErregistroaBeti == Spec => []KontuakErregistroa
<1>1. IInv => KontuakErregistroa
  BY DEF IInv
<1> QED
  BY InbarianteaBeti, <1>1, PTL
=============================================================================
