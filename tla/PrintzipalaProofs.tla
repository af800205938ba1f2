-------------------------- MODULE PrintzipalaProofs --------------------------
(***************************************************************************)
(* Proofs about Printzipala for all names, brokers and typed texts,        *)
(* whichever text is a part of which.  What Kendu keeps of the registry is *)
(* the part before the first line that matches, so nothing kept matches;   *)
(* from this, and from the order of its file operations, follows what      *)
(* survives a removal, a failure and a crash.                              *)
(***************************************************************************)
EXTENDS Printzipala, FiniteSetTheorems, WellFoundedInduction, TLAPS

LEMMA Txikiagoak == ASSUME NEW x \in Nat, NEW y \in Nat, y < x
                    PROVE  <<y, x>> \in OpToRel(<, Nat)
<1>1. <<y, x>> \in Nat \X Nat /\ <<y, x>>[1] = y /\ <<y, x>>[2] = x
  OBVIOUS
<1> QED
  BY <1>1 DEF OpToRel

LEMMA MinTxikiena ==
  ASSUME NEW I \in SUBSET Nat, I # {}
  PROVE  Min(I) \in I /\ \A j \in I : Min(I) <= j
<1>1. PICK x \in I : \A y \in I : ~(<<y, x>> \in OpToRel(<, Nat))
  BY NatLessThanWellFounded, WFMin
<1>2. \A y \in I : ~(y < x)
  BY <1>1, Txikiagoak
<1>3. \A y \in I : x <= y
  BY <1>2
<1> QED
  BY <1>3 DEF Min

\* LehenDatorrena is the first line that contains the text, 0 if none does.
LEMMA Lehena ==
  ASSUME NEW f \in Seq(Lerroak), NEW t
  PROVE  /\ LehenDatorrena(f, t) \in 0..Len(f)
         /\ LehenDatorrena(f, t) # 0 => Dator(t, f[LehenDatorrena(f, t)])
         /\ \A i \in 1..Len(f) :
              Dator(t, f[i]) => LehenDatorrena(f, t) # 0 /\ LehenDatorrena(f, t) <= i
<1> DEFINE I == {i \in 1..Len(f) : Dator(t, f[i])}
           n == LehenDatorrena(f, t)
<1>1. n = IF I # {} THEN Min(I) ELSE 0
  BY DEF LehenDatorrena, SelectInSeq
<1>2. I \in SUBSET Nat /\ Len(f) \in Nat
  OBVIOUS
<1>3. I # {} => Min(I) \in I /\ \A j \in I : Min(I) <= j
  BY <1>2, MinTxikiena
<1>4. \A i : i \in I <=> i \in 1..Len(f) /\ Dator(t, f[i])
  OBVIOUS
<1> HIDE DEF I, n
<1>5. CASE I = {}
  <2>1. n = 0
    BY <1>1, <1>5
  <2> QED
    BY <1>2, <1>4, <1>5, <2>1 DEF n
<1>6. CASE I # {}
  <2>1. n \in I /\ \A j \in I : n <= j
    BY <1>1, <1>3, <1>6
  <2> QED
    BY <1>2, <1>4, <2>1 DEF n
<1> QED
  BY <1>5, <1>6

\* What Kendu keeps: the lines before the first that contains the text.
LEMMA AurrekoakDira ==
  ASSUME NEW f \in Seq(Lerroak), NEW t
  PROVE  /\ Aurrekoak(f, t) \in Seq(Lerroak) /\ Len(Aurrekoak(f, t)) <= Len(f)
         /\ \A i \in 1..Len(Aurrekoak(f, t)) :
              Aurrekoak(f, t)[i] = f[i] /\ ~Dator(t, Aurrekoak(f, t)[i])
<1> DEFINE n == LehenDatorrena(f, t)
<1>1. /\ n \in 0..Len(f) /\ Len(f) \in Nat
      /\ \A i \in 1..Len(f) : Dator(t, f[i]) => n # 0 /\ n <= i
  BY Lehena
<1>2. Aurrekoak(f, t) = IF n = 0 THEN f ELSE SubSeq(f, 1, n - 1)
  BY DEF Aurrekoak
<1> HIDE DEF n
<1>3. CASE n = 0
  BY <1>1, <1>2, <1>3
<1>4. CASE n # 0
  <2>1. n \in 1..Len(f) /\ n - 1 \in 0..Len(f)
    BY <1>1, <1>4
  <2>2. /\ SubSeq(f, 1, n - 1) \in Seq(Lerroak) /\ Len(SubSeq(f, 1, n - 1)) = n - 1
        /\ \A i \in 1..n - 1 : SubSeq(f, 1, n - 1)[i] = f[i]
    BY <1>1, <2>1
  <2> QED
    BY <1>1, <1>2, <1>4, <2>1, <2>2
<1> QED
  BY <1>3, <1>4

\* One element of a list replaced.
LEMMA OsagaiaAldatu ==
  ASSUME NEW s \in Seq(LabMota), NEW n \in 1..Len(s), NEW e \in LabMota
  PROVE  /\ [s EXCEPT ![n] = e] \in Seq(LabMota)
         /\ Len([s EXCEPT ![n] = e]) = Len(s)
         /\ \A i \in 1..Len(s) : [s EXCEPT ![n] = e][i] = IF i = n THEN e ELSE s[i]
  OBVIOUS

\* No name and no broker twice: in a list of laboratories, and in one of lines.  Such a
\* list is no longer than there are brokers.
BakarrikL(s) == \A i, j \in 1..Len(s) : s[i].izena = s[j].izena \/ s[i].ip = s[j].ip => i = j
BakarrikF(f) == \A i, j \in 1..Len(f) : f[i][1] = f[j][1] \/ f[i][2] = f[j][2] => i = j
LEMMA LabKopurua ==
  ASSUME NEW s \in Seq(LabMota), BakarrikL(s)
  PROVE  Len(s) <= Cardinality(Ipak) /\ Len(s) \in Nat /\ Cardinality(Ipak) \in Nat
<1>1. Len(s) \in Nat /\ 0 \in Int /\ 1 \in Int
  OBVIOUS
<1>2. Cardinality(1..Len(s)) = Len(s)
  <2>1. Cardinality(1..Len(s)) = IF 1 > Len(s) THEN 0 ELSE Len(s) - 1 + 1
    BY <1>1, FS_Interval
  <2> QED
    BY <1>1, <2>1
<1> DEFINE f == [i \in 1..Len(s) |-> s[i].ip]
<1>3. f \in [1..Len(s) -> Ipak]
  <2>1. \A i \in 1..Len(s) : s[i] \in LabMota
    OBVIOUS
  <2>2. \A i \in 1..Len(s) : s[i].ip \in Ipak
    BY <2>1 DEF LabMota
  <2> QED
    BY <2>2
<1>4. f \in Injection(1..Len(s), Ipak)
  <2>1. \A i, j \in 1..Len(s) : f[i] = f[j] => i = j
    BY DEF BakarrikL
  <2>2. DOMAIN f = 1..Len(s)
    OBVIOUS
  <2> HIDE DEF f
  <2>3. IsInjective(f)
    BY <2>1, <2>2 DEF IsInjective
  <2> QED
    BY <1>3, <2>3 DEF Injection
<1>5. Cardinality(1..Len(s)) <= Cardinality(Ipak)
  BY <1>4, FS_Injection, IpakMugatuak
<1>6. Cardinality(Ipak) \in Nat
  BY FS_CardinalityType, IpakMugatuak
<1> QED
  BY <1>1, <1>2, <1>5, <1>6
-----------------------------------------------------------------------------
(* The invariant. *)

CbMota == [pc : {"lo", "tamaina", "alderatu", "jarri", "bistaratu", "erakutsi"},
           i : 0..Cardinality(Ipak) + 1, zerrenda : Seq(Lerroak)]

\* No name and no broker twice, wherever there is a list.
BakarrikErakusten == BakarrikF(ikusgai) /\ \A ip \in Ipak : BakarrikF(cb[ip].zerrenda)
Bakarrik == /\ BakarrikF(fitxategia) /\ BakarrikF(temp) /\ BakarrikL(laborategiak)
            /\ BakarrikErakusten

\* Where Kendu is, the files are as its steps so far have left them.
Kenduan ==
  /\ edtPc # "lo" => leihoa = "irekita"
  /\ edtPc = "berrizendatu" => ~badago
  /\ edtPc \in {"ezabatu", "hustu", "bete"} => badago
  /\ edtPc = "lo" => kenduTestua = Testurik
  /\ edtPc \in {"ezabatu", "berrizendatu", "hustu"} => kenduTestua \in Testuak
  /\ edtPc \in {"ezabatu", "berrizendatu"} => temp = Aurrekoak(fitxategia, kenduTestua)
  /\ edtPc = "hustu" => \A i \in 1..Len(fitxategia) : ~Dator(kenduTestua, fitxategia[i])

\* The list in memory is a part of the registry; while Kendu reads, what it has read.
Aurrizkia(labs, f) ==
  Len(labs) <= Len(f) /\ \A i \in 1..Len(labs) : Lerroa(labs[i]) = f[i]
Erregistroan == /\ edtPc # "hustu" => Barnean(laborategiak, fitxategia)
                /\ edtPc = "bete" => Aurrizkia(laborategiak, fitxategia)

\* A callback thread works only while the window is open; about to set a mark, it
\* has compared the laboratory at its index, unless that one has no subscriber.
DeiaOndo(ip) ==
  /\ cb[ip].pc # "lo" => cb[ip].i \in 1..Cardinality(Ipak) + 1
  /\ cb[ip].pc \in {"alderatu", "jarri", "bistaratu", "erakutsi"}
       => cb[ip].i \in 1..Cardinality(Ipak)
  /\ cb[ip].pc = "jarri" /\ cb[ip].i <= Len(laborategiak)
       => laborategiak[cb[ip].i].ip = ip \/ ~laborategiak[cb[ip].i].entzulea
Deiak == /\ leihoa # "irekita" => \A ip \in Ipak : cb[ip].pc = "lo"
         /\ \A ip \in Ipak : DeiaOndo(ip)

IInv == TypeOK /\ Bakarrik /\ Kenduan /\ Erregistroan /\ Deiak
-----------------------------------------------------------------------------
(* What the actions make of the list. *)

\* The actions that change one laboratory of the list, and neither name nor broker.
LEMMA ListaZabal ==
  ASSUME laborategiak \in Seq(LabMota), NEW n \in 1..Len(laborategiak), NEW e \in LabMota,
         e.izena = laborategiak[n].izena, e.ip = laborategiak[n].ip,
         laborategiak' = [laborategiak EXCEPT ![n] = e]
  PROVE  /\ laborategiak' \in Seq(LabMota) /\ Len(laborategiak') = Len(laborategiak)
         /\ \A i \in 1..Len(laborategiak) :
              /\ laborategiak'[i].izena = laborategiak[i].izena
              /\ laborategiak'[i].ip = laborategiak[i].ip
              /\ laborategiak'[i].entzulea = IF i = n THEN e.entzulea ELSE laborategiak[i].entzulea
<1>1. /\ laborategiak' \in Seq(LabMota) /\ Len(laborategiak') = Len(laborategiak)
      /\ \A i \in 1..Len(laborategiak) : laborategiak'[i] = IF i = n THEN e ELSE laborategiak[i]
  BY OsagaiaAldatu
<1> QED
  BY <1>1

LEMMA MarkaJarri ==
  ASSUME TypeOK, Deiak, NEW ip \in Ipak, CbJarri(ip)
  PROVE  /\ laborategiak' \in Seq(LabMota) /\ Len(laborategiak') = Len(laborategiak)
         /\ \A i \in 1..Len(laborategiak) :
              /\ laborategiak'[i].izena = laborategiak[i].izena
              /\ laborategiak'[i].ip = laborategiak[i].ip
              /\ laborategiak'[i].entzulea = laborategiak[i].entzulea
<1> DEFINE n == cb[ip].i
<1>1. n \in 1..Len(laborategiak)
  BY DEF CbJarri, Deiak, DeiaOndo, TypeOK
<1>2. PICK m \in BOOLEAN : laborategiak' = [laborategiak EXCEPT ![n].marka = m]
  BY DEF CbJarri
<1> DEFINE e == [laborategiak[n] EXCEPT !.marka = m]
<1>3. laborategiak[n] \in LabMota
  BY <1>1 DEF TypeOK
<1>4. /\ e \in LabMota /\ e.izena = laborategiak[n].izena /\ e.ip = laborategiak[n].ip
      /\ e.entzulea = laborategiak[n].entzulea
  BY <1>3 DEF LabMota
<1>5. laborategiak' = [laborategiak EXCEPT ![n] = e]
  BY <1>2
<1>6. laborategiak \in Seq(LabMota)
  BY DEF TypeOK
<1> HIDE DEF e, n
<1> QED
  BY <1>1, <1>4, <1>5, <1>6, ListaZabal

EntzuleaDu(n) == laborategiak' = [laborategiak EXCEPT ![n].entzulea = TRUE]
LEMMA EntzuleaJarri ==
  ASSUME TypeOK, NEW n, n \in 1..Len(laborategiak), EntzuleaDu(n)
  PROVE  /\ laborategiak' \in Seq(LabMota) /\ Len(laborategiak') = Len(laborategiak)
         /\ \A i \in 1..Len(laborategiak) :
              /\ laborategiak'[i].izena = laborategiak[i].izena
              /\ laborategiak'[i].ip = laborategiak[i].ip
<1> DEFINE e == [laborategiak[n] EXCEPT !.entzulea = TRUE]
<1>1. laborategiak[n] \in LabMota
  BY DEF TypeOK
<1>2. laborategiak \in Seq(LabMota)
  BY DEF TypeOK
<1>3. e \in LabMota /\ e.izena = laborategiak[n].izena /\ e.ip = laborategiak[n].ip
  BY <1>1 DEF LabMota
<1>4. laborategiak' = [laborategiak EXCEPT ![n] = e]
  BY DEF EntzuleaDu
<1> HIDE DEF e
<1> QED
  BY <1>2, <1>3, <1>4, ListaZabal

\* A laboratory made from a line has the line's two parts: its address is complete.
LEMMA LaborategiaMota ==
  ASSUME NEW l \in Lerroak
  PROVE  /\ Laborategia(l) \in LabMota /\ ~Laborategia(l).entzulea
         /\ Laborategia(l).izena = l[1] /\ Laborategia(l).ip = l[2]
         /\ Lerroa(Laborategia(l)) = l
<1>1. l[1] \in Izenak /\ l[2] \in Ipak /\ l = <<l[1], l[2]>>
  BY DEF Lerroak
<1>2. Osatu[l[2]] = l[2]
  BY <1>1, HelbideakOsatu
<1> QED
  BY <1>1, <1>2 DEF Laborategia, LabMota, Lerroa

\* Whatever is typed, Gehitu writes a line with a complete address, and adds the
\* laboratory that would be read from it.
GehituLerroa(l) ==
  /\ leihoa = "irekita" /\ edtPc = "lo" /\ badago /\ ~badagoLaborategia(l)
  /\ fitxategia' = Append(fitxategia, l)
  /\ laborategiak' = Append(laborategiak, Laborategia(l))
  /\ balioak' \in {balioak, balioak \cup {l}}
  /\ edtPc' = "erakutsi"
  /\ UNCHANGED <<badago, temp, leihoa, ikusgai, harpidetuak, kenduTestua, cb>>
LEMMA GehituOsatuta ==
  ASSUME NEW l \in Izenak \X Helbideak, Gehitu(l)
  PROVE  \E e \in Lerroak : GehituLerroa(e)
<1> DEFINE e == <<l[1], Osatu[l[2]]>>
<1>1. e \in Lerroak /\ e[1] = l[1] /\ e[2] = Osatu[l[2]] /\ Osatu[e[2]] = Osatu[l[2]]
  BY HelbideakOsatu DEF Lerroak
<1>2. Lerroa(Laborategia(l)) = e /\ Laborategia(e) = Laborategia(l)
  BY <1>1 DEF Laborategia, Lerroa
<1>3. GehituLerroa(e)
  BY <1>2 DEF Gehitu, GehituLerroa
<1> QED
  BY <1>1, <1>3

LEMMA ListaGehitu ==
  ASSUME laborategiak \in Seq(LabMota), NEW l \in Lerroak,
         laborategiak' = Append(laborategiak, Laborategia(l))
  PROVE  /\ laborategiak' \in Seq(LabMota) /\ Len(laborategiak') = Len(laborategiak) + 1
         /\ \A i \in 1..Len(laborategiak) : laborategiak'[i] = laborategiak[i]
         /\ laborategiak'[Len(laborategiak) + 1] = Laborategia(l)
  BY LaborategiaMota

\* The array that is shown has the lines of the list, each once.
LEMMA Bistaratzekoak ==
  ASSUME laborategiak \in Seq(LabMota), BakarrikL(laborategiak)
  PROVE  sortuBistaratzekoak \in Seq(Lerroak) /\ BakarrikF(sortuBistaratzekoak)
<1> DEFINE f == sortuBistaratzekoak
<1>1. DOMAIN laborategiak = 1..Len(laborategiak) /\ Len(laborategiak) \in Nat
  OBVIOUS
<1>2. f = [i \in 1..Len(laborategiak) |-> Lerroa(laborategiak[i])]
  BY <1>1 DEF sortuBistaratzekoak
<1>3. \A i \in 1..Len(laborategiak) : Lerroa(laborategiak[i]) \in Lerroak
  <2> TAKE i \in 1..Len(laborategiak)
  <2>1. laborategiak[i] \in LabMota
    OBVIOUS
  <2> QED
    BY <2>1 DEF LabMota, Lerroa, Lerroak
<1>4. f \in Seq(Lerroak) /\ Len(f) = Len(laborategiak)
  BY <1>1, <1>2, <1>3
<1>5. \A i \in 1..Len(f) : f[i][1] = laborategiak[i].izena /\ f[i][2] = laborategiak[i].ip
  BY <1>2, <1>4 DEF Lerroa
<1> HIDE DEF f
<1>6. BakarrikF(f)
  BY <1>4, <1>5 DEF BakarrikF, BakarrikL
<1> QED
  BY <1>4, <1>6 DEF f

\* What has been read of a file is a part of it, and has no name and no broker twice.
LEMMA AurrizkiaBarnean ==
  ASSUME NEW f \in Seq(Lerroak), BakarrikF(f), NEW labs \in Seq(LabMota), Aurrizkia(labs, f)
  PROVE  Barnean(labs, f) /\ BakarrikL(labs)
<1>1. /\ DOMAIN f = 1..Len(f) /\ DOMAIN labs = 1..Len(labs)
      /\ Len(f) \in Nat /\ Len(labs) \in Nat /\ Len(labs) <= Len(f)
  BY DEF Aurrizkia
<1>2. \A i \in 1..Len(labs) : /\ i \in 1..Len(f) /\ Lerroa(labs[i]) = f[i]
                              /\ f[i][1] = labs[i].izena /\ f[i][2] = labs[i].ip
  BY <1>1 DEF Aurrizkia, Lerroa
<1>3. \A i, n \in 1..Len(f) : f[i] = f[n] => i = n
  BY DEF BakarrikF
<1>4. Barnean(labs, f)
  BY <1>1, <1>2, <1>3 DEF Barnean
<1>5. BakarrikL(labs)
  BY <1>2 DEF BakarrikF, BakarrikL
<1> QED
  BY <1>4, <1>5

\* A laboratory whose name and broker are new, added to a file and to a part of it.
LEMMA GehituBarnean ==
  ASSUME NEW f \in Seq(Lerroak), NEW labs \in Seq(LabMota), Barnean(labs, f), BakarrikL(labs),
         NEW l \in Lerroak, \A i \in 1..Len(f) : f[i][1] # l[1] /\ f[i][2] # l[2]
  PROVE  /\ Barnean(Append(labs, Laborategia(l)), Append(f, l))
         /\ BakarrikL(Append(labs, Laborategia(l)))
<1> DEFINE g == Append(f, l)
           m == Append(labs, Laborategia(l))
<1>1. /\ Laborategia(l) \in LabMota /\ Lerroa(Laborategia(l)) = l
      /\ Laborategia(l).izena = l[1] /\ Laborategia(l).ip = l[2]
  BY LaborategiaMota
<1>2. /\ DOMAIN f = 1..Len(f) /\ DOMAIN labs = 1..Len(labs) /\ Len(f) \in Nat /\ Len(labs) \in Nat
      /\ DOMAIN g = 1..Len(f) + 1 /\ DOMAIN m = 1..Len(labs) + 1
      /\ Len(m) = Len(labs) + 1
  BY <1>1
<1>3. /\ \A i \in 1..Len(f) : g[i] = f[i]
      /\ g[Len(f) + 1] = l
  OBVIOUS
<1>4. /\ \A i \in 1..Len(labs) : m[i] = labs[i]
      /\ m[Len(labs) + 1] = Laborategia(l)
  BY <1>1
<1>5. \A i \in 1..Len(labs) : \E n \in 1..Len(f) : Lerroa(labs[i]) = f[n]
  BY <1>2 DEF Barnean
<1>6. \A i \in 1..Len(labs) : labs[i].izena # l[1] /\ labs[i].ip # l[2] /\ Lerroa(labs[i]) # l
  <2> SUFFICES ASSUME NEW i \in 1..Len(labs)
               PROVE  labs[i].izena # l[1] /\ labs[i].ip # l[2] /\ Lerroa(labs[i]) # l
    OBVIOUS
  <2>1. PICK n \in 1..Len(f) : Lerroa(labs[i]) = f[n]
    BY <1>5
  <2>2. f[n][1] = labs[i].izena /\ f[n][2] = labs[i].ip
    BY <2>1 DEF Lerroa
  <2> QED
    BY <2>1, <2>2
<1>7. \A n \in 1..Len(f) : f[n] # l
  OBVIOUS
<1> HIDE DEF g, m
<1>8. \A i \in DOMAIN m : \E n \in DOMAIN g : Lerroa(m[i]) = g[n]
  <2> SUFFICES ASSUME NEW i \in 1..Len(labs) + 1 PROVE \E n \in 1..Len(f) + 1 : Lerroa(m[i]) = g[n]
    BY <1>2
  <2>1. CASE i = Len(labs) + 1
    BY <1>1, <1>2, <1>3, <1>4, <2>1
  <2>2. CASE i \in 1..Len(labs)
    <3>1. PICK n \in 1..Len(f) : Lerroa(labs[i]) = f[n]
      BY <1>5, <2>2
    <3> QED
      BY <1>2, <1>3, <1>4, <2>2, <3>1
  <2> QED
    BY <1>2, <2>1, <2>2
<1>9. ASSUME NEW i \in DOMAIN m, NEW j \in DOMAIN m, NEW p \in DOMAIN g, NEW n \in DOMAIN g,
             i < j, Lerroa(m[i]) = g[p], Lerroa(m[j]) = g[n]
      PROVE  p < n
  <2>1. i \in 1..Len(labs) /\ m[i] = labs[i]
    BY <1>2, <1>4, <1>9
  <2>2. p \in 1..Len(f) /\ g[p] = f[p]
    BY <1>2, <1>3, <1>6, <1>9, <2>1
  <2>3. CASE j = Len(labs) + 1
    BY <1>1, <1>2, <1>3, <1>4, <1>7, <1>9, <2>2, <2>3
  <2>4. CASE j \in 1..Len(labs)
    <3>1. n \in 1..Len(f) /\ g[n] = f[n] /\ m[j] = labs[j]
      BY <1>2, <1>3, <1>4, <1>6, <1>9, <2>4
    <3> QED
      BY <1>2, <1>9, <2>1, <2>2, <2>4, <3>1 DEF Barnean
  <2> QED
    BY <1>2, <2>3, <2>4
<1>10. BakarrikL(m)
  <2> SUFFICES ASSUME NEW i \in 1..Len(m), NEW j \in 1..Len(m),
                      m[i].izena = m[j].izena \/ m[i].ip = m[j].ip
               PROVE  i = j
    BY DEF BakarrikL
  <2>1. CASE i = Len(labs) + 1 \/ j = Len(labs) + 1
    BY <1>1, <1>2, <1>4, <1>6, <2>1
  <2>2. CASE i \in 1..Len(labs) /\ j \in 1..Len(labs)
    BY <1>4, <2>2 DEF BakarrikL
  <2> QED
    BY <1>2, <2>1, <2>2
<1> QED
  BY <1>8, <1>9, <1>10 DEF Barnean, g, m
-----------------------------------------------------------------------------
(* The actions: each part of the invariant in turn. *)

CbUrratsa(ip) == \/ MezuaIritsi(ip) \/ CbTamaina(ip) \/ CbAlderatu(ip) \/ CbJarri(ip)
                 \/ CbBistaratu(ip) \/ CbErakutsi(ip)

\* The steps there are.
LEMMA UrratsaZein ==
  ASSUME [Next]_vars
  PROVE  \/ Hasi \/ EntzutenHasi \/ prozesuaAmaitu
         \/ \E l \in Lerroak : GehituLerroa(l)
         \/ \E t \in Testuak : KenduIrakurri(t)
         \/ KenduEzabatu \/ KenduBerrizendatu \/ KenduHustu \/ KenduBete
         \/ EdtErakutsi
         \/ \E ip \in Ipak : CbUrratsa(ip)
         \/ UNCHANGED vars
BY GehituOsatuta DEF Next, Irten, Kendu, Callback, CbKanpoan, CbUrratsa

\* The types.  The index of a callback thread is bounded since brokers are distinct.
LEMMA MotakPausoa == TypeOK /\ Bakarrik /\ Kenduan /\ Deiak /\ [Next]_vars => TypeOK'
<1> SUFFICES ASSUME TypeOK, Bakarrik, Kenduan, Deiak, [Next]_vars PROVE TypeOK'
  OBVIOUS
<1>c. Cardinality(Ipak) \in Nat
  BY FS_CardinalityType, IpakMugatuak
<1>1. CASE Hasi
  <2>1. laborategiak' \in Seq(LabMota)
    <3>1. PICK n \in 0..Len(fitxategia) :
            laborategiak' = [i \in 1..n |-> Laborategia(fitxategia[i])]
      BY <1>1 DEF Hasi
    <3>2. fitxategia \in Seq(Lerroak) /\ n \in Nat
      BY DEF TypeOK
    <3>3. \A i \in 1..n : Laborategia(fitxategia[i]) \in LabMota
      BY <3>2, LaborategiaMota
    <3> QED
      BY <3>1, <3>2, <3>3
  <2>2. /\ leihoa' \in {"entzuten", "irekita"} /\ edtPc' \in {edtPc, "erakutsi"}
        /\ UNCHANGED <<diskoa, ikusgai, harpidetuak, kenduTestua, cb>>
    BY <1>1 DEF Hasi
  <2> QED
    BY <2>1, <2>2 DEF TypeOK, diskoa
<1>2. CASE EntzutenHasi
  <2> DEFINE i == Cardinality(harpidetuak) + 1
  <2>1. i \in 1..Cardinality(Ipak) + 1
    <3>1. Cardinality(harpidetuak) \in Nat /\ Cardinality(harpidetuak) <= Cardinality(Ipak)
      BY FS_Subset, FS_CardinalityType, IpakMugatuak DEF TypeOK
    <3> QED
      BY <1>c, <3>1
  <2> HIDE DEF i
  <2>2. CASE /\ i <= Len(laborategiak)
             /\ harpidetuak' = harpidetuak \cup {laborategiak[i].ip}
             /\ laborategiak' = [laborategiak EXCEPT ![i].entzulea = TRUE]
             /\ UNCHANGED <<leihoa, edtPc>>
    <3>1. i \in 1..Len(laborategiak)
      BY <2>1, <2>2, <1>c DEF TypeOK
    <3>2. laborategiak' \in Seq(LabMota)
      BY <2>2, <3>1, EntzuleaJarri DEF EntzuleaDu
    <3>3. laborategiak[i].ip \in Ipak
      <4>1. laborategiak[i] \in LabMota
        BY <3>1 DEF TypeOK
      <4> QED
        BY <4>1 DEF LabMota
    <3> QED
      BY <1>2, <2>2, <3>2, <3>3 DEF EntzutenHasi, TypeOK, diskoa, edtVars
  <2>3. CASE /\ UNCHANGED <<harpidetuak, laborategiak>> /\ leihoa' \in {"leihorikEz", "irekita"}
             /\ edtPc' \in {edtPc, "erakutsi"}
    BY <1>2, <2>3 DEF EntzutenHasi, TypeOK, diskoa, edtVars
  <2> QED
    BY <1>2, <2>2, <2>3 DEF EntzutenHasi, i
<1>3. CASE prozesuaAmaitu
  <2>1. cb' \in [Ipak -> CbMota]
    BY <1>3, <1>c DEF prozesuaAmaitu, CbLo, CbMota
  <2> QED
    BY <1>3, <2>1 DEF prozesuaAmaitu, TypeOK, CbMota
<1>4. ASSUME NEW l \in Lerroak, GehituLerroa(l) PROVE TypeOK'
  <2>1. laborategiak' \in Seq(LabMota)
    BY <1>4, ListaGehitu DEF GehituLerroa, TypeOK
  <2>2. fitxategia' \in Seq(Lerroak) /\ balioak' \subseteq Lerroak
    BY <1>4 DEF GehituLerroa, TypeOK
  <2> QED
    BY <1>4, <2>1, <2>2 DEF GehituLerroa, TypeOK
<1>5. ASSUME NEW t \in Testuak, KenduIrakurri(t) PROVE TypeOK'
  <2>1. temp' \in Seq(Lerroak)
    BY <1>5, AurrekoakDira DEF KenduIrakurri, TypeOK
  <2> QED
    BY <1>5, <2>1 DEF KenduIrakurri, TypeOK, edtVars
<1>6. CASE KenduEzabatu
  <2>1. temp' \in Seq(Lerroak)
    <3>1. << >> \in Seq(Lerroak) /\ temp \in Seq(Lerroak)
      BY DEF TypeOK
    <3> QED
      BY <1>6, <3>1 DEF KenduEzabatu
  <2> QED
    BY <1>6, <2>1 DEF KenduEzabatu, TypeOK
<1>7. CASE KenduBerrizendatu
  <2>1. temp' = << >> /\ (fitxategia' = temp \/ UNCHANGED fitxategia)
    BY <1>7 DEF KenduBerrizendatu
  <2>2. fitxategia' \in Seq(Lerroak) /\ temp' \in Seq(Lerroak)
    BY <2>1 DEF TypeOK
  <2> QED
    BY <1>7, <2>2 DEF KenduBerrizendatu, TypeOK
<1>8. CASE KenduHustu
  <2>1. balioak' \subseteq Lerroak
    BY <1>8 DEF KenduHustu, TypeOK
  <2> QED
    BY <1>8, <2>1 DEF KenduHustu, TypeOK
<1>9. CASE KenduBete
  <2>1. laborategiak' \in Seq(LabMota)
    <3>1. CASE UNCHANGED laborategiak
      BY <3>1 DEF TypeOK
    <3>2. CASE /\ Len(laborategiak) < Len(fitxategia)
               /\ laborategiak' =
                    Append(laborategiak, Laborategia(fitxategia[Len(laborategiak) + 1]))
      <4>1. fitxategia[Len(laborategiak) + 1] \in Lerroak
        BY <3>2 DEF TypeOK
      <4> QED
        BY <3>2, <4>1, ListaGehitu DEF TypeOK
    <3> QED
      BY <1>9, <3>1, <3>2 DEF KenduBete
  <2> QED
    BY <1>9, <2>1 DEF KenduBete, TypeOK, diskoa, edtVars
<1>10. CASE EdtErakutsi
  <2>1. ikusgai' \in Seq(Lerroak)
    BY <1>10, Bistaratzekoak DEF EdtErakutsi, TypeOK, Bakarrik
  <2> QED
    BY <1>10, <2>1 DEF EdtErakutsi, TypeOK, diskoa
<1>11. ASSUME NEW ip \in Ipak, CbUrratsa(ip) PROVE TypeOK'
  <2>1. cb[ip] \in CbMota /\ cb \in [Ipak -> CbMota] /\ << >> \in Seq(Lerroak)
    BY DEF TypeOK, CbMota
  <2>2. \A i \in 0..Cardinality(Ipak) + 1 : CbHurrengoa(i) \in CbMota
    BY <2>1 DEF CbHurrengoa, CbMota
  <2>3. cb[ip].pc \in {"alderatu", "jarri", "bistaratu", "erakutsi"} =>
          CbHurrengoa(cb[ip].i + 1) \in CbMota
    <3>1. ASSUME cb[ip].i \in 1..Cardinality(Ipak) PROVE cb[ip].i + 1 \in 0..Cardinality(Ipak) + 1
      BY <1>c, <3>1
    <3> QED
      BY <2>2, <3>1 DEF Deiak, DeiaOndo
  <2>4. cb' \in [Ipak -> CbMota]
    <3>1. CASE MezuaIritsi(ip)
      <4>1. 1 \in 0..Cardinality(Ipak) + 1
        BY <1>c
      <4> QED
        BY <2>1, <2>2, <3>1, <4>1 DEF MezuaIritsi
    <3>2. CASE CbTamaina(ip)
      <4>1. [cb[ip] EXCEPT !.pc = "alderatu"] \in CbMota /\ CbLo \in CbMota
        BY <2>1, <1>c DEF CbMota, CbLo
      <4> QED
        BY <2>1, <3>2, <4>1 DEF CbTamaina
    <3>3. CASE CbAlderatu(ip)
      <4>1. [cb[ip] EXCEPT !.pc = "jarri"] \in CbMota
        BY <2>1 DEF CbMota
      <4>2. \/ cb' = [cb EXCEPT ![ip] = [cb[ip] EXCEPT !.pc = "jarri"]]
            \/ cb' = [cb EXCEPT ![ip] = CbHurrengoa(cb[ip].i + 1)]
        BY <3>3 DEF CbAlderatu
      <4>3. cb[ip].pc = "alderatu"
        BY <3>3 DEF CbAlderatu
      <4> QED
        BY <2>1, <2>3, <4>1, <4>2, <4>3
    <3>4. CASE CbJarri(ip)
      <4>1. [cb[ip] EXCEPT !.pc = "bistaratu"] \in CbMota
        BY <2>1 DEF CbMota
      <4>2. cb' = [cb EXCEPT ![ip] = [cb[ip] EXCEPT !.pc = "bistaratu"]]
        BY <3>4 DEF CbJarri
      <4> QED
        BY <2>1, <4>1, <4>2
    <3>5. CASE CbBistaratu(ip)
      <4>1. sortuBistaratzekoak \in Seq(Lerroak)
        BY Bistaratzekoak DEF TypeOK, Bakarrik
      <4>2. [cb[ip] EXCEPT !.pc = "erakutsi", !.zerrenda = sortuBistaratzekoak] \in CbMota
        BY <2>1, <4>1 DEF CbMota
      <4>3. cb' = [cb EXCEPT ![ip] =
                     [cb[ip] EXCEPT !.pc = "erakutsi", !.zerrenda = sortuBistaratzekoak]]
        BY <2>1, <3>5 DEF CbBistaratu
      <4> QED
        BY <2>1, <4>2, <4>3
    <3>6. CASE CbErakutsi(ip)
      BY <2>1, <2>3, <3>6 DEF CbErakutsi
    <3> QED
      BY <1>11, <3>1, <3>2, <3>3, <3>4, <3>5, <3>6 DEF CbUrratsa
  <2>5. laborategiak' \in Seq(LabMota)
    <3>1. CASE CbJarri(ip)
      BY <3>1, MarkaJarri
    <3>2. CASE UNCHANGED laborategiak
      BY <3>2 DEF TypeOK
    <3> QED
      BY <1>11, <3>1, <3>2
         DEF CbUrratsa, MezuaIritsi, CbTamaina, CbAlderatu, CbBistaratu, CbErakutsi
  <2>6. ikusgai' \in Seq(Lerroak)
    <3>1. CASE CbErakutsi(ip)
      BY <2>1, <3>1 DEF CbErakutsi, CbMota
    <3>2. CASE UNCHANGED ikusgai
      BY <3>2 DEF TypeOK
    <3> QED
      BY <1>11, <3>1, <3>2 DEF CbUrratsa, MezuaIritsi, CbTamaina, CbAlderatu, CbJarri, CbBistaratu
  <2>7. UNCHANGED listaVars
    BY <1>11
       DEF CbUrratsa, MezuaIritsi, CbTamaina, CbAlderatu, CbJarri, CbBistaratu, CbErakutsi
  <2> QED
    BY <2>4, <2>5, <2>6, <2>7 DEF TypeOK, listaVars, diskoa, edtVars, CbMota
<1>12. CASE UNCHANGED vars
  BY <1>12 DEF vars, diskoa, edtVars, TypeOK
<1> QED
  BY <1>1, <1>2, <1>3, <1>4, <1>5, <1>6, <1>7, <1>8, <1>9, <1>10, <1>11, <1>12, UrratsaZein

\* The steps that leave the names and brokers of the list as they are.
ListaBera ==
  /\ Len(laborategiak') = Len(laborategiak)
  /\ \A i \in 1..Len(laborategiak) : /\ laborategiak'[i].izena = laborategiak[i].izena
                                     /\ laborategiak'[i].ip = laborategiak[i].ip

LEMMA EntzutenBerean ==
  ASSUME TypeOK, EntzutenHasi
  PROVE  /\ ListaBera /\ leihoa = "entzuten"
         /\ UNCHANGED <<diskoa, ikusgai, kenduTestua, cb>>
         /\ \/ leihoa' \in {"entzuten", "leihorikEz"} /\ edtPc' = edtPc
            \/ leihoa' = "irekita" /\ edtPc' = "erakutsi"
<1> DEFINE i == Cardinality(harpidetuak) + 1
<1>1. ListaBera
  <2>1. CASE UNCHANGED laborategiak
    BY <2>1 DEF ListaBera
  <2>2. CASE /\ i <= Len(laborategiak)
             /\ laborategiak' = [laborategiak EXCEPT ![i].entzulea = TRUE]
    <3>1. Cardinality(harpidetuak) \in Nat
      BY FS_Subset, FS_CardinalityType, IpakMugatuak DEF TypeOK
    <3>2. i \in 1..Len(laborategiak)
      BY <2>2, <3>1 DEF TypeOK
    <3> HIDE DEF i
    <3> QED
      BY <2>2, <3>2, EntzuleaJarri DEF ListaBera, EntzuleaDu
  <2> QED
    BY <2>1, <2>2 DEF EntzutenHasi
<1> QED
  BY <1>1 DEF EntzutenHasi

LEMMA CallbackBerean ==
  ASSUME TypeOK, Deiak, NEW ip \in Ipak, CbUrratsa(ip)
  PROVE  ListaBera /\ UNCHANGED <<diskoa, leihoa, harpidetuak, edtVars>>
<1>1. CASE CbJarri(ip)
  BY <1>1, MarkaJarri DEF CbJarri, ListaBera, listaVars
<1>2. CASE \/ MezuaIritsi(ip) \/ CbTamaina(ip) \/ CbAlderatu(ip)
           \/ CbBistaratu(ip) \/ CbErakutsi(ip)
  BY <1>2 DEF MezuaIritsi, CbTamaina, CbAlderatu, CbBistaratu, CbErakutsi, ListaBera, listaVars
<1> QED
  BY <1>1, <1>2 DEF CbUrratsa

\* The order of Kendu's file operations.
LEMMA KenduanPausoa == TypeOK /\ Kenduan /\ Deiak /\ [Next]_vars => Kenduan'
<1> SUFFICES ASSUME TypeOK, Kenduan, Deiak, [Next]_vars PROVE Kenduan'
  OBVIOUS
<1>1. CASE Hasi
  BY <1>1 DEF Hasi, Kenduan, diskoa
<1>2. CASE EntzutenHasi
  BY <1>2, EntzutenBerean DEF Kenduan, diskoa
<1>3. CASE prozesuaAmaitu
  BY <1>3 DEF prozesuaAmaitu, Kenduan
<1>4. ASSUME NEW l \in Lerroak, GehituLerroa(l) PROVE Kenduan'
  BY <1>4 DEF GehituLerroa, Kenduan
<1>5. ASSUME NEW t \in Testuak, KenduIrakurri(t) PROVE Kenduan'
  BY <1>5 DEF KenduIrakurri, Kenduan
<1>6. CASE KenduEzabatu
  BY <1>6 DEF KenduEzabatu, Kenduan
<1>7. CASE KenduBerrizendatu
  <2>1. \A i \in 1..Len(temp) : ~Dator(kenduTestua, temp[i])
    <3>1. fitxategia \in Seq(Lerroak) /\ temp = Aurrekoak(fitxategia, kenduTestua)
      BY <1>7 DEF KenduBerrizendatu, Kenduan, TypeOK
    <3> QED
      BY <3>1, AurrekoakDira
  <2> QED
    BY <1>7, <2>1 DEF KenduBerrizendatu, Kenduan, Dator
<1>8. CASE KenduHustu
  BY <1>8 DEF KenduHustu, Kenduan
<1>9. CASE KenduBete
  BY <1>9 DEF KenduBete, Kenduan, diskoa, edtVars
<1>10. CASE EdtErakutsi
  BY <1>10 DEF EdtErakutsi, Kenduan, diskoa
<1>11. ASSUME NEW ip \in Ipak, CbUrratsa(ip) PROVE Kenduan'
  BY <1>11, CallbackBerean DEF Kenduan, diskoa, edtVars
<1>12. CASE UNCHANGED vars
  BY <1>12 DEF vars, diskoa, edtVars, Kenduan
<1> QED
  BY <1>1, <1>2, <1>3, <1>4, <1>5, <1>6, <1>7, <1>8, <1>9, <1>10, <1>11, <1>12, UrratsaZein

\* The list keeps its names and brokers: so it stays the part of the file that it is.
LEMMA BereanErregistroan ==
  ASSUME TypeOK, TypeOK', Erregistroan, Bakarrik, ListaBera, fitxategia' = fitxategia,
         edtPc' # "hustu" => edtPc # "hustu", edtPc' = "bete" => edtPc = "bete"
  PROVE  Erregistroan' /\ BakarrikL(laborategiak)'
<1>1. /\ DOMAIN laborategiak = 1..Len(laborategiak)
      /\ DOMAIN laborategiak' = 1..Len(laborategiak)
  BY DEF TypeOK, ListaBera
<1>2. \A i \in 1..Len(laborategiak) : Lerroa(laborategiak'[i]) = Lerroa(laborategiak[i])
  BY DEF ListaBera, Lerroa
<1>3. BakarrikL(laborategiak)'
  BY DEF Bakarrik, BakarrikL, ListaBera
<1>4. Barnean(laborategiak, fitxategia) => Barnean(laborategiak, fitxategia)'
  BY <1>1, <1>2 DEF Barnean
<1>5. Aurrizkia(laborategiak, fitxategia) => Aurrizkia(laborategiak, fitxategia)'
  BY <1>2 DEF Aurrizkia, ListaBera
<1> QED
  BY <1>3, <1>4, <1>5 DEF Erregistroan

\* The list in memory and the registry; and that the list has no name or broker twice.
LEMMA ErregistroanPausoa ==
  TypeOK /\ TypeOK' /\ Bakarrik /\ Kenduan /\ Erregistroan /\ Deiak /\ [Next]_vars
    => Erregistroan' /\ BakarrikL(laborategiak)'
<1> DEFINE Ondo == Erregistroan' /\ BakarrikL(laborategiak)'
<1> SUFFICES ASSUME TypeOK, TypeOK', Bakarrik, Kenduan, Erregistroan, Deiak, [Next]_vars
             PROVE  Ondo
  OBVIOUS
<1>0. /\ fitxategia \in Seq(Lerroak) /\ laborategiak \in Seq(LabMota)
      /\ laborategiak' \in Seq(LabMota) /\ BakarrikF(fitxategia) /\ BakarrikL(laborategiak)
  BY DEF TypeOK, Bakarrik
<1>h. ASSUME laborategiak' = << >>, edtPc' # "bete" \/ fitxategia \in Seq(Lerroak) PROVE Ondo
  <2>1. Len(<< >>) = 0 /\ DOMAIN laborategiak' = {} /\ fitxategia' \in Seq(Lerroak)
    BY <1>h DEF TypeOK
  <2>2. Len(fitxategia') \in Nat
    BY <2>1
  <2> QED
    BY <1>h, <2>1, <2>2 DEF Erregistroan, Barnean, Aurrizkia, BakarrikL
<1>1. CASE Hasi
  <2>1. PICK n \in 0..Len(fitxategia) :
          laborategiak' = [i \in 1..n |-> Laborategia(fitxategia[i])]
    BY <1>1 DEF Hasi
  <2>2. n \in Nat /\ Len(laborategiak') = n /\ n <= Len(fitxategia) /\ Len(fitxategia) \in Nat
    BY <1>0, <2>1
  <2>3. \A i \in 1..n : Lerroa(laborategiak'[i]) = fitxategia[i]
    <3>1. \A i \in 1..n : fitxategia[i] \in Lerroak /\ laborategiak'[i] = Laborategia(fitxategia[i])
      BY <1>0, <2>1, <2>2
    <3> QED
      BY <3>1, LaborategiaMota
  <2>4. Aurrizkia(laborategiak', fitxategia)
    BY <2>2, <2>3 DEF Aurrizkia
  <2>5. Barnean(laborategiak', fitxategia) /\ BakarrikL(laborategiak')
    BY <1>0, <2>4, AurrizkiaBarnean
  <2>6. fitxategia' = fitxategia /\ edtPc' # "bete"
    BY <1>1 DEF Hasi, diskoa, Kenduan
  <2> QED
    BY <2>5, <2>6 DEF Erregistroan, Barnean, BakarrikL
<1>2. CASE EntzutenHasi
  BY <1>2, EntzutenBerean, BereanErregistroan DEF diskoa, Kenduan
<1>3. CASE prozesuaAmaitu
  BY <1>0, <1>3, <1>h DEF prozesuaAmaitu
<1>4. ASSUME NEW l \in Lerroak, GehituLerroa(l) PROVE Ondo
  <2>1. /\ laborategiak' = Append(laborategiak, Laborategia(l)) /\ fitxategia' = Append(fitxategia, l)
        /\ edtPc' = "erakutsi" /\ Barnean(laborategiak, fitxategia)
    BY <1>4 DEF GehituLerroa, Erregistroan
  <2>2. \A i \in 1..Len(fitxategia) : fitxategia[i][1] # l[1] /\ fitxategia[i][2] # l[2]
    BY <1>0, <1>4 DEF GehituLerroa, badagoLaborategia
  <2>3. Barnean(laborategiak', fitxategia') /\ BakarrikL(laborategiak')
    BY <1>0, <2>1, <2>2, GehituBarnean
  <2> QED
    BY <2>1, <2>3 DEF Erregistroan, Barnean, BakarrikL
<1>5. ASSUME NEW t \in Testuak, KenduIrakurri(t) PROVE Ondo
  BY <1>5, BereanErregistroan DEF KenduIrakurri, ListaBera
<1>6. CASE KenduEzabatu
  BY <1>6, BereanErregistroan DEF KenduEzabatu, ListaBera
<1>7. CASE KenduBerrizendatu
  <2>1. CASE edtPc' = "hustu"
    BY <1>7, <2>1 DEF KenduBerrizendatu, Erregistroan, Bakarrik, BakarrikL
  <2>2. CASE UNCHANGED fitxategia /\ edtPc' = "lo"
    BY <1>7, <2>2, BereanErregistroan DEF KenduBerrizendatu, ListaBera
  <2> QED
    BY <1>7, <2>1, <2>2 DEF KenduBerrizendatu
<1>8. CASE KenduHustu
  BY <1>0, <1>8, <1>h DEF KenduHustu
<1>9. CASE KenduBete
  <2>1. CASE /\ Len(laborategiak) < Len(fitxategia) /\ UNCHANGED edtVars
             /\ laborategiak' = Append(laborategiak, Laborategia(fitxategia[Len(laborategiak) + 1]))
    <3> DEFINE n == Len(laborategiak)
    <3>1. n \in Nat /\ Len(fitxategia) \in Nat /\ n + 1 \in 1..Len(fitxategia)
      BY <1>0, <2>1
    <3>2. fitxategia[n + 1] \in Lerroak
      BY <1>0, <3>1
    <3>3. /\ Len(laborategiak') = n + 1
          /\ \A i \in 1..n : laborategiak'[i] = laborategiak[i]
          /\ laborategiak'[n + 1] = Laborategia(fitxategia[n + 1])
      BY <1>0, <2>1, <3>2, ListaGehitu
    <3>4. edtPc' = "bete" /\ fitxategia' = fitxategia /\ Aurrizkia(laborategiak, fitxategia)
      BY <1>9, <2>1 DEF KenduBete, diskoa, edtVars, Erregistroan
    <3>5. Lerroa(laborategiak'[n + 1]) = fitxategia[n + 1]
      BY <3>2, <3>3, LaborategiaMota
    <3>6. \A i \in 1..n : Lerroa(laborategiak'[i]) = fitxategia[i]
      BY <3>3, <3>4 DEF Aurrizkia
    <3> HIDE DEF n
    <3>7. Aurrizkia(laborategiak', fitxategia)
      BY <3>1, <3>3, <3>5, <3>6 DEF Aurrizkia
    <3>8. Barnean(laborategiak', fitxategia) /\ BakarrikL(laborategiak')
      BY <1>0, <3>7, AurrizkiaBarnean
    <3> QED
      BY <3>4, <3>7, <3>8 DEF Erregistroan, Barnean, Aurrizkia, BakarrikL
  <2>2. CASE UNCHANGED laborategiak /\ edtPc' \in {"lo", "erakutsi"}
    BY <1>9, <2>2, BereanErregistroan DEF KenduBete, diskoa, ListaBera
  <2> QED
    BY <1>9, <2>1, <2>2 DEF KenduBete
<1>10. CASE EdtErakutsi
  BY <1>10, BereanErregistroan DEF EdtErakutsi, diskoa, ListaBera
<1>11. ASSUME NEW ip \in Ipak, CbUrratsa(ip) PROVE Ondo
  BY <1>11, CallbackBerean, BereanErregistroan DEF diskoa, edtVars
<1>12. CASE UNCHANGED vars
  BY <1>12, BereanErregistroan DEF vars, diskoa, edtVars, ListaBera
<1> QED
  BY <1>1, <1>2, <1>3, <1>4, <1>5, <1>6, <1>7, <1>8, <1>9, <1>10, <1>11, <1>12, UrratsaZein

\* No name and no broker twice in the files.
LEMMA BakarrikPausoa ==
  TypeOK /\ Bakarrik /\ Deiak /\ [Next]_vars
    => BakarrikF(fitxategia)' /\ BakarrikF(temp)'
<1> DEFINE Ondo == BakarrikF(fitxategia)' /\ BakarrikF(temp)'
<1> SUFFICES ASSUME TypeOK, Bakarrik, Deiak, [Next]_vars PROVE Ondo
  OBVIOUS
<1>0. fitxategia \in Seq(Lerroak) /\ BakarrikF(fitxategia) /\ BakarrikF(temp) /\ Len(<< >>) = 0
  BY DEF TypeOK, Bakarrik
<1>b. ASSUME UNCHANGED fitxategia, temp' = temp \/ temp' = << >> PROVE Ondo
  BY <1>0, <1>b DEF BakarrikF
<1>1. ASSUME NEW l \in Lerroak, GehituLerroa(l) PROVE Ondo
  <2>1. /\ Len(fitxategia') = Len(fitxategia) + 1 /\ Len(fitxategia) \in Nat
        /\ \A i \in 1..Len(fitxategia) : fitxategia'[i] = fitxategia[i]
        /\ fitxategia'[Len(fitxategia) + 1] = l
    BY <1>0, <1>1 DEF GehituLerroa
  <2>2. \A i \in 1..Len(fitxategia) : fitxategia[i][1] # l[1] /\ fitxategia[i][2] # l[2]
    BY <1>0, <1>1 DEF GehituLerroa, badagoLaborategia
  <2>3. BakarrikF(fitxategia')
    <3> SUFFICES ASSUME NEW i \in 1..Len(fitxategia'), NEW j \in 1..Len(fitxategia'),
                        \/ fitxategia'[i][1] = fitxategia'[j][1]
                        \/ fitxategia'[i][2] = fitxategia'[j][2]
                 PROVE  i = j
      BY DEF BakarrikF
    <3>1. CASE i = Len(fitxategia) + 1 \/ j = Len(fitxategia) + 1
      BY <2>1, <2>2, <3>1
    <3>2. CASE i \in 1..Len(fitxategia) /\ j \in 1..Len(fitxategia)
      BY <1>0, <2>1, <3>2 DEF BakarrikF
    <3> QED
      BY <2>1, <3>1, <3>2
  <2> QED
    BY <1>0, <1>1, <2>3 DEF GehituLerroa, BakarrikF
<1>2. ASSUME NEW t \in Testuak, KenduIrakurri(t) PROVE Ondo
  <2> DEFINE a == Aurrekoak(fitxategia, t)
  <2>1. /\ a \in Seq(Lerroak) /\ Len(a) <= Len(fitxategia)
        /\ \A i \in 1..Len(a) : a[i] = fitxategia[i]
    BY <1>0, AurrekoakDira
  <2> HIDE DEF a
  <2>2. BakarrikF(a)
    BY <1>0, <2>1 DEF BakarrikF
  <2> QED
    BY <1>0, <1>2, <2>2 DEF KenduIrakurri, BakarrikF, a
<1>3. CASE KenduBerrizendatu
  BY <1>0, <1>3 DEF KenduBerrizendatu, BakarrikF
<1>4. CASE KenduEzabatu \/ KenduHustu \/ KenduBete \/ EdtErakutsi
  BY <1>b, <1>4 DEF KenduEzabatu, KenduHustu, KenduBete, EdtErakutsi, diskoa
<1>5. CASE Hasi \/ EntzutenHasi \/ prozesuaAmaitu
  BY <1>b, <1>5 DEF Hasi, EntzutenHasi, prozesuaAmaitu, diskoa
<1>6. ASSUME NEW ip \in Ipak, CbUrratsa(ip) PROVE Ondo
  BY <1>b, <1>6, CallbackBerean DEF diskoa
<1>7. CASE UNCHANGED vars
  BY <1>b, <1>7 DEF vars, diskoa
<1> QED
  BY <1>1, <1>2, <1>3, <1>4, <1>5, <1>6, <1>7, UrratsaZein

\* Nor in what is shown or about to be, which is an array of the list as it was.
LEMMA ErakustenPausoa == TypeOK /\ Bakarrik /\ [Next]_vars => BakarrikErakusten'
<1> SUFFICES ASSUME TypeOK, Bakarrik, [Next]_vars PROVE BakarrikErakusten'
  OBVIOUS
<1>0. /\ cb \in [Ipak -> CbMota] /\ BakarrikErakusten /\ BakarrikF(<< >>)
      /\ BakarrikF(sortuBistaratzekoak)
  BY Bistaratzekoak DEF TypeOK, CbMota, Bakarrik, BakarrikF
<1>b. ASSUME UNCHANGED <<ikusgai, cb>> PROVE BakarrikErakusten'
  BY <1>0, <1>b DEF BakarrikErakusten, BakarrikF
<1>1. CASE EdtErakutsi
  BY <1>0, <1>1 DEF EdtErakutsi, BakarrikErakusten, BakarrikF
<1>2. CASE prozesuaAmaitu
  BY <1>0, <1>2 DEF prozesuaAmaitu, CbLo, BakarrikErakusten, BakarrikF
<1>3. ASSUME NEW ip \in Ipak, CbUrratsa(ip) PROVE BakarrikErakusten'
  <2>1. /\ \A q \in Ipak \ {ip} : cb'[q] = cb[q]
        /\ cb'[ip].zerrenda \in {cb[ip].zerrenda, << >>, sortuBistaratzekoak}
    <3>1. CASE MezuaIritsi(ip) \/ CbTamaina(ip) \/ CbAlderatu(ip)
      BY <1>0, <3>1 DEF MezuaIritsi, CbTamaina, CbAlderatu, CbLo, CbHurrengoa, CbMota
    <3>2. CASE CbJarri(ip)
      BY <1>0, <3>2 DEF CbJarri, CbMota
    <3>3. CASE CbBistaratu(ip)
      BY <1>0, <3>3 DEF CbBistaratu, CbMota
    <3>4. CASE CbErakutsi(ip)
      BY <1>0, <3>4 DEF CbErakutsi, CbHurrengoa, CbMota
    <3> QED
      BY <1>3, <3>1, <3>2, <3>3, <3>4 DEF CbUrratsa
  <2>2. ikusgai' \in {ikusgai, cb[ip].zerrenda}
    BY <1>3 DEF CbUrratsa, MezuaIritsi, CbTamaina, CbAlderatu, CbJarri, CbBistaratu, CbErakutsi
  <2>3. \A q \in Ipak : BakarrikF(cb'[q].zerrenda)
    BY <1>0, <2>1 DEF BakarrikErakusten
  <2>4. BakarrikF(ikusgai')
    BY <1>0, <2>2 DEF BakarrikErakusten
  <2> QED
    BY <2>3, <2>4 DEF BakarrikErakusten, BakarrikF
<1>4. CASE \/ Hasi \/ EntzutenHasi \/ KenduEzabatu \/ KenduBerrizendatu
           \/ KenduHustu \/ KenduBete
           \/ \E l \in Lerroak : GehituLerroa(l)
           \/ \E t \in Testuak : KenduIrakurri(t)
           \/ UNCHANGED vars
  BY <1>b, <1>4 DEF Hasi, EntzutenHasi, KenduEzabatu, KenduBerrizendatu, KenduHustu, KenduBete,
     GehituLerroa, KenduIrakurri, vars
<1> QED
  BY <1>1, <1>2, <1>3, <1>4, UrratsaZein

\* What a thread about to set a mark has found out stays true of the list.
LEMMA DeiBerean ==
  ASSUME TypeOK, Deiak, leihoa = "irekita", leihoa' = "irekita", cb' = cb,
         Len(laborategiak') \in Nat,
         \A i \in 1..Len(laborategiak') :
           \/ ~laborategiak'[i].entzulea
           \/ i \in 1..Len(laborategiak) /\ laborategiak'[i] = laborategiak[i]
  PROVE  Deiak'
<1>1. Cardinality(Ipak) \in Nat
  BY FS_CardinalityType, IpakMugatuak
<1>2. ASSUME NEW ip \in Ipak PROVE DeiaOndo(ip)'
  <2>1. DeiaOndo(ip) /\ cb'[ip] = cb[ip]
    BY DEF Deiak
  <2> QED
    BY <1>1, <2>1 DEF DeiaOndo
<1> QED
  BY <1>2 DEF Deiak

\* The callback threads.
LEMMA DeiakPausoa == TypeOK /\ Bakarrik /\ Kenduan /\ Deiak /\ [Next]_vars => Deiak'
<1> SUFFICES ASSUME TypeOK, Bakarrik, Kenduan, Deiak, [Next]_vars PROVE Deiak'
  OBVIOUS
<1>0. /\ fitxategia \in Seq(Lerroak) /\ laborategiak \in Seq(LabMota) /\ Len(laborategiak) \in Nat
      /\ Len(<< >>) = 0 /\ cb \in [Ipak -> CbMota]
  BY DEF TypeOK, CbMota
<1>c. Len(laborategiak) <= Cardinality(Ipak) /\ Cardinality(Ipak) \in Nat
  BY <1>0, LabKopurua DEF Bakarrik
<1>e. ASSUME cb' = cb, leihoa # "irekita" PROVE Deiak'
  BY <1>e DEF Deiak, DeiaOndo
<1>1. CASE Hasi
  BY <1>1, <1>e DEF Hasi
<1>2. CASE EntzutenHasi
  BY <1>2, <1>e, EntzutenBerean
<1>3. CASE prozesuaAmaitu
  BY <1>3 DEF prozesuaAmaitu, Deiak, DeiaOndo, CbLo
<1>4. ASSUME NEW l \in Lerroak, GehituLerroa(l) PROVE Deiak'
  <2>1. /\ Len(laborategiak') = Len(laborategiak) + 1
        /\ \A i \in 1..Len(laborategiak) : laborategiak'[i] = laborategiak[i]
        /\ laborategiak'[Len(laborategiak) + 1] = Laborategia(l)
    BY <1>0, <1>4, ListaGehitu DEF GehituLerroa
  <2>2. ~Laborategia(l).entzulea
    BY LaborategiaMota
  <2>3. \A i \in 1..Len(laborategiak') :
         \/ ~laborategiak'[i].entzulea
         \/ i \in 1..Len(laborategiak) /\ laborategiak'[i] = laborategiak[i]
    BY <1>0, <2>1, <2>2
  <2>4. leihoa = "irekita" /\ leihoa' = "irekita" /\ cb' = cb /\ Len(laborategiak') \in Nat
    BY <1>0, <1>4, <2>1 DEF GehituLerroa
  <2> QED
    BY <2>3, <2>4, DeiBerean
<1>5. CASE \/ \E t \in Testuak : KenduIrakurri(t)
           \/ KenduEzabatu \/ KenduBerrizendatu \/ EdtErakutsi
  <2>1. leihoa = "irekita" /\ leihoa' = "irekita" /\ cb' = cb /\ laborategiak' = laborategiak
    BY <1>5 DEF KenduIrakurri, KenduEzabatu, KenduBerrizendatu, EdtErakutsi, Kenduan
  <2> QED
    BY <1>0, <2>1, DeiBerean
<1>6. CASE KenduHustu
  <2>1. leihoa = "irekita" /\ leihoa' = "irekita" /\ cb' = cb /\ laborategiak' = << >>
    BY <1>6 DEF KenduHustu, Kenduan
  <2> QED
    BY <1>0, <2>1, DeiBerean
<1>7. CASE KenduBete
  <2>1. leihoa = "irekita" /\ leihoa' = "irekita" /\ cb' = cb
    BY <1>7 DEF KenduBete, Kenduan
  <2>2. CASE laborategiak' = laborategiak
    BY <1>0, <2>1, <2>2, DeiBerean
  <2>3. CASE /\ Len(laborategiak) < Len(fitxategia)
             /\ laborategiak' = Append(laborategiak, Laborategia(fitxategia[Len(laborategiak) + 1]))
    <3> DEFINE l == fitxategia[Len(laborategiak) + 1]
    <3>1. l \in Lerroak
      BY <1>0, <2>3
    <3>2. laborategiak' = Append(laborategiak, Laborategia(l))
      BY <2>3
    <3> HIDE DEF l
    <3>3. /\ Len(laborategiak') = Len(laborategiak) + 1
          /\ \A i \in 1..Len(laborategiak) : laborategiak'[i] = laborategiak[i]
          /\ laborategiak'[Len(laborategiak) + 1] = Laborategia(l)
      BY <1>0, <3>1, <3>2, ListaGehitu
    <3>4. ~Laborategia(l).entzulea
      BY <3>1, LaborategiaMota
    <3>5. \A i \in 1..Len(laborategiak') :
           \/ ~laborategiak'[i].entzulea
           \/ i \in 1..Len(laborategiak) /\ laborategiak'[i] = laborategiak[i]
      BY <1>0, <3>3, <3>4
    <3> QED
      BY <1>0, <2>1, <3>3, <3>5, DeiBerean
  <2> QED
    BY <1>7, <2>2, <2>3 DEF KenduBete
<1>8. ASSUME NEW ip \in Ipak, CbUrratsa(ip) PROVE Deiak'
  <2>1. leihoa' = leihoa /\ leihoa = "irekita"
    BY <1>8, CallbackBerean DEF CbUrratsa, MezuaIritsi, CbTamaina, CbAlderatu, CbJarri,
       CbBistaratu, CbErakutsi, Deiak
  <2>2. /\ Len(laborategiak') = Len(laborategiak)
        /\ \A i \in 1..Len(laborategiak) : /\ laborategiak'[i].ip = laborategiak[i].ip
                                           /\ laborategiak'[i].entzulea = laborategiak[i].entzulea
    <3>1. CASE CbJarri(ip)
      BY <3>1, MarkaJarri
    <3>2. CASE UNCHANGED laborategiak
      BY <3>2
    <3> QED
      BY <1>8, <3>1, <3>2
         DEF CbUrratsa, MezuaIritsi, CbTamaina, CbAlderatu, CbBistaratu, CbErakutsi
  <2>3. DeiaOndo(ip) /\ cb[ip] \in CbMota
    BY <1>0 DEF Deiak
  <2> DEFINE Ona(r) == /\ r.pc # "lo" => r.i \in 1..Cardinality(Ipak) + 1
                       /\ r.pc \in {"alderatu", "jarri", "bistaratu", "erakutsi"}
                            => r.i \in 1..Cardinality(Ipak)
                       /\ r.pc = "jarri" /\ r.i <= Len(laborategiak)
                            => laborategiak[r.i].ip = ip \/ ~laborategiak[r.i].entzulea
  <2>4. (\A q \in Ipak \ {ip} : cb'[q] = cb[q]) /\ Ona(cb'[ip])
    <3>1. CASE MezuaIritsi(ip)
      BY <1>0, <1>c, <3>1 DEF MezuaIritsi, CbHurrengoa
    <3>2. CASE CbTamaina(ip)
      <4>1. CASE cb[ip].i <= Len(laborategiak)
        <5>1. cb[ip].i \in 1..Cardinality(Ipak)
          BY <1>c, <2>3, <3>2, <4>1 DEF CbTamaina, DeiaOndo, CbMota
        <5>2. cb' = [cb EXCEPT ![ip] = [cb[ip] EXCEPT !.pc = "alderatu"]]
          BY <3>2, <4>1 DEF CbTamaina
        <5> QED
          BY <1>0, <1>c, <2>3, <5>1, <5>2 DEF CbMota
      <4>2. CASE ~(cb[ip].i <= Len(laborategiak))
        BY <1>0, <3>2, <4>2 DEF CbTamaina, CbLo
      <4> QED
        BY <4>1, <4>2
    <3>3. CASE CbAlderatu(ip)
      <4>1. cb[ip].i \in 1..Cardinality(Ipak)
        BY <2>3, <3>3 DEF CbAlderatu, DeiaOndo
      <4>2. CASE laborategiak[cb[ip].i].ip = ip /\ laborategiak[cb[ip].i].entzulea
        <5>1. cb' = [cb EXCEPT ![ip] = [cb[ip] EXCEPT !.pc = "jarri"]]
          BY <3>3, <4>2 DEF CbAlderatu
        <5> QED
          BY <1>0, <1>c, <2>3, <4>1, <4>2, <5>1 DEF CbMota
      <4>3. CASE ~(laborategiak[cb[ip].i].ip = ip /\ laborategiak[cb[ip].i].entzulea)
        <5>1. cb' = [cb EXCEPT ![ip] = CbHurrengoa(cb[ip].i + 1)]
          BY <3>3, <4>3 DEF CbAlderatu
        <5> QED
          BY <1>0, <1>c, <4>1, <5>1 DEF CbHurrengoa
      <4> QED
        BY <4>2, <4>3
    <3>4. CASE CbJarri(ip) \/ CbBistaratu(ip)
      <4>1. cb[ip].i \in 1..Cardinality(Ipak)
        BY <2>3, <3>4 DEF CbJarri, CbBistaratu, DeiaOndo
      <4>2. /\ \A q \in Ipak \ {ip} : cb'[q] = cb[q]
            /\ cb'[ip].i = cb[ip].i /\ cb'[ip].pc \in {"bistaratu", "erakutsi"}
        BY <1>0, <2>3, <3>4 DEF CbJarri, CbBistaratu, CbMota
      <4> QED
        BY <1>c, <4>1, <4>2
    <3>5. CASE CbErakutsi(ip)
      <4>1. cb[ip].i \in 1..Cardinality(Ipak)
        BY <2>3, <3>5 DEF CbErakutsi, DeiaOndo
      <4>2. cb' = [cb EXCEPT ![ip] = CbHurrengoa(cb[ip].i + 1)]
        BY <3>5 DEF CbErakutsi
      <4> QED
        BY <1>0, <1>c, <4>1, <4>2 DEF CbHurrengoa
    <3> QED
      BY <1>8, <3>1, <3>2, <3>3, <3>4, <3>5 DEF CbUrratsa
  <2>5. ASSUME NEW q \in Ipak PROVE DeiaOndo(q)'
    <3>1. CASE q = ip
      BY <1>c, <1>0, <2>2, <2>4, <3>1 DEF DeiaOndo
    <3>2. CASE q # ip
      <4>1. cb'[q] = cb[q] /\ DeiaOndo(q)
        BY <2>4, <3>2 DEF Deiak
      <4> QED
        BY <1>c, <1>0, <2>2, <4>1 DEF DeiaOndo
    <3> QED
      BY <3>1, <3>2
  <2> QED
    BY <2>1, <2>5 DEF Deiak
<1>9. CASE UNCHANGED vars
  BY <1>9 DEF vars, Deiak, DeiaOndo
<1> QED
  BY <1>1, <1>2, <1>3, <1>4, <1>5, <1>6, <1>7, <1>8, <1>9, UrratsaZein
-----------------------------------------------------------------------------
(* The theorems. *)

LEMMA Hasiera == Init => IInv
<1> SUFFICES ASSUME Init PROVE IInv
  OBVIOUS
<1>1. << >> \in Seq(Lerroak) /\ << >> \in Seq(LabMota) /\ Len(<< >>) = 0
  OBVIOUS
<1>2. fitxategia \in Seq(Lerroak) /\ DOMAIN fitxategia = 1..Len(fitxategia)
  BY HasieraOna DEF Init
<1>3. TypeOK
  <2>1. Cardinality(Ipak) \in Nat
    BY FS_CardinalityType, IpakMugatuak
  <2>2. cb \in [Ipak -> CbMota]
    BY <1>1, <2>1 DEF Init, CbLo, CbMota
  <2>3. balioak \subseteq Lerroak
    BY HasieraOna DEF Init
  <2> QED
    BY <1>1, <1>2, <2>2, <2>3 DEF Init, TypeOK, CbMota
<1>4. Bakarrik
  <2>1. BakarrikF(fitxategia)
    BY <1>2, HasieraOna DEF Init, BakarrikF
  <2> QED
    BY <1>1, <2>1 DEF Init, Bakarrik, BakarrikErakusten, BakarrikF, BakarrikL, CbLo
<1>5. Kenduan /\ Erregistroan
  BY DEF Init, Kenduan, Erregistroan, Barnean
<1>6. Deiak
  BY DEF Init, Deiak, DeiaOndo, CbLo
<1> QED
  BY <1>3, <1>4, <1>5, <1>6 DEF IInv

LEMMA Pausoa == IInv /\ [Next]_vars => IInv'
<1> SUFFICES ASSUME IInv, [Next]_vars PROVE IInv'
  OBVIOUS
<1>1. TypeOK /\ Bakarrik /\ Kenduan /\ Erregistroan /\ Deiak
  BY DEF IInv
<1>2. TypeOK' /\ Kenduan' /\ Deiak'
  BY <1>1, MotakPausoa, KenduanPausoa, DeiakPausoa
<1>3. Erregistroan' /\ Bakarrik'
  BY <1>1, <1>2, BakarrikPausoa, ErregistroanPausoa, ErakustenPausoa DEF Bakarrik
<1> QED
  BY <1>2, <1>3 DEF IInv

LEMMA BakarrikBakarrak == ASSUME NEW f \in Seq(Lerroak), BakarrikF(f) PROVE Bakarrak(f)
BY DEF BakarrikF, Bakarrak

LEMMA InbarianteaBeti == Spec => []IInv
  BY Hasiera, Pausoa, PTL DEF Spec

\* Every variable keeps its type; the index of a callback thread, in particular, never
\* passes the end of the longest list there can be by more than one.
THEOREM MotakBeti == Spec => []TypeOK
<1>1. IInv => TypeOK
  BY DEF IInv
<1> QED
  BY <1>1, InbarianteaBeti, PTL

\* No two registered laboratories share a name or a broker, so no two subscribers of
\* the one client id meet on a broker.
THEOREM LerroBakarrakBeti == Spec => []LerroBakarrak
<1>1. IInv => LerroBakarrak
  <2> SUFFICES ASSUME IInv PROVE LerroBakarrak
    OBVIOUS
  <2>1. fitxategia \in Seq(Lerroak) /\ BakarrikF(fitxategia)
    BY DEF IInv, TypeOK, Bakarrik
  <2> QED
    BY <2>1, BakarrikBakarrak DEF LerroBakarrak
<1> QED
  BY <1>1, InbarianteaBeti, PTL

\* Every laboratory in memory is a line of the registry, or of the one that was lost, in
\* the same order, but between Kendu's rename and its new list; and the window never
\* shows a name or an address twice, however late a callback thread shows its array.
THEOREM ZerrendaErregistroanBeti == Spec => []ZerrendaErregistroan
<1>1. IInv => ZerrendaErregistroan
  <2> SUFFICES ASSUME IInv PROVE ZerrendaErregistroan
    OBVIOUS
  <2>1. ikusgai \in Seq(Lerroak) /\ BakarrikF(ikusgai)
    BY DEF IInv, TypeOK, Bakarrik, BakarrikErakusten
  <2>2. Bakarrak(ikusgai)
    BY <2>1, BakarrikBakarrak
  <2> QED
    BY <2>2 DEF ZerrendaErregistroan, IInv, Erregistroan
<1> QED
  BY <1>1, InbarianteaBeti, PTL

\* A laboratory with a subscriber of its own is marked only by that subscriber's messages.
\* Only one without a subscriber, read again by Kendu or added by Gehitu since the start,
\* can be marked by the messages of another broker.
THEOREM MarkaBereaBeti == Spec => MarkaBerea
<1> DEFINE Bereari(ip) == cb[ip].pc = "jarri" /\ cb'[ip].pc = "bistaratu"
                            => laborategiak[cb[ip].i].ip = ip \/ ~laborategiak[cb[ip].i].entzulea
<1>1. IInv /\ [Next]_vars => [\A ip \in Ipak : Bereari(ip)]_vars
  <2> SUFFICES ASSUME IInv, [Next]_vars, NEW ip \in Ipak,
                      cb[ip].pc = "jarri", cb'[ip].pc = "bistaratu"
               PROVE  laborategiak[cb[ip].i].ip = ip \/ ~laborategiak[cb[ip].i].entzulea
    OBVIOUS
  <2>0. TypeOK /\ Deiak /\ DeiaOndo(ip) /\ cb \in [Ipak -> CbMota]
    BY DEF IInv, Deiak, TypeOK, CbMota
  <2>1. cb' # cb /\ ~prozesuaAmaitu
    BY DEF CbLo, prozesuaAmaitu
  <2>2. PICK q \in Ipak : CbUrratsa(q)
    BY <2>1, UrratsaZein DEF Hasi, EntzutenHasi, GehituLerroa, KenduIrakurri, KenduEzabatu,
         KenduBerrizendatu, KenduHustu, KenduBete, EdtErakutsi, vars
  <2>3. q = ip
    BY <2>0, <2>2 DEF CbUrratsa, MezuaIritsi, CbTamaina, CbAlderatu, CbJarri, CbBistaratu, CbErakutsi
  <2>4. CbJarri(ip)
    BY <2>0, <2>2, <2>3 DEF CbUrratsa, MezuaIritsi, CbTamaina, CbAlderatu, CbBistaratu, CbErakutsi
  <2> QED
    BY <2>0, <2>4 DEF CbJarri, DeiaOndo
<1> QED
  BY <1>1, InbarianteaBeti, PTL DEF Spec, MarkaBerea

\* The value file Kendu deletes is that of a laboratory whose name or broker is the text.
LEMMA EzabatutakoaZehatza ==
  ASSUME TypeOK, KenduHustu, NEW l \in balioak \ balioak'
  PROVE  Zehatza(kenduTestua, l)
<1> DEFINE I == {i \in 1..Len(laborategiak) : Zehatza(kenduTestua, Lerroa(laborategiak[i]))}
           n == SelectInSeq(laborategiak, LAMBDA lab : Zehatza(kenduTestua, Lerroa(lab)))
<1>1. n = IF I # {} THEN Min(I) ELSE 0
  BY DEF SelectInSeq
<1>2. I # {} => Min(I) \in I
  <2>1. I \in SUBSET Nat
    OBVIOUS
  <2> HIDE DEF I
  <2> QED
    BY <2>1, MinTxikiena
<1>3. balioak' \in {balioak} \cup (IF n = 0 THEN {} ELSE {balioak \ {Lerroa(laborategiak[n])}})
  BY DEF KenduHustu
<1> HIDE DEF n
<1>4. n # 0 /\ l = Lerroa(laborategiak[n])
  BY <1>3
<1>5. n \in I
  <2> HIDE DEF I
  <2> QED
    BY <1>1, <1>2, <1>4
<1> QED
  BY <1>4, <1>5

\* Recorded values are deleted only of a laboratory that is no longer registered: what
\* equals the text contains it, and nothing Kendu has kept does.
THEOREM IrakurketakGordeBeti == Spec => IrakurketakGorde
<1> DEFINE Gordeta == \A l \in balioak \ balioak' : \A i \in DOMAIN fitxategia' : fitxategia'[i] # l
<1>1. IInv /\ [Next]_vars => [Gordeta]_vars
  <2> SUFFICES ASSUME IInv, [Next]_vars, NEW l \in balioak \ balioak',
                      NEW i \in DOMAIN fitxategia', fitxategia'[i] = l
               PROVE  FALSE
    OBVIOUS
  <2>1. KenduHustu
    <3>1. ~(balioak \subseteq balioak')
      OBVIOUS
    <3>2. ~(\E ip \in Ipak : CbUrratsa(ip))
      BY <3>1 DEF CbUrratsa, MezuaIritsi, CbTamaina, CbAlderatu, CbJarri, CbBistaratu, CbErakutsi,
                  listaVars, diskoa
    <3> QED
      BY <3>1, <3>2, UrratsaZein DEF Hasi, EntzutenHasi, GehituLerroa, KenduIrakurri,
           KenduEzabatu, KenduBerrizendatu, KenduBete, EdtErakutsi, prozesuaAmaitu, diskoa, vars
  <2>2. /\ TypeOK /\ kenduTestua \in Testuak /\ fitxategia' = fitxategia
        /\ \A j \in 1..Len(fitxategia) : ~Dator(kenduTestua, fitxategia[j])
    BY <2>1 DEF IInv, Kenduan, KenduHustu
  <2>3. l \in Lerroak /\ ~Dator(kenduTestua, l)
    BY <2>2 DEF TypeOK
  <2>4. kenduTestua = l[1] \/ kenduTestua = l[2]
    BY <2>1, <2>2, EzabatutakoaZehatza DEF Zehatza
  <2>5. l[1] \in Izenak /\ l[2] \in Ipak
    BY <2>3 DEF Lerroak
  <2>6. <<kenduTestua, kenduTestua>> \in Barruan
    BY <2>2, <2>4, <2>5, TestuenZentzua
  <2> QED
    BY <2>3, <2>4, <2>6 DEF Dator
<1> QED
  BY <1>1, InbarianteaBeti, PTL DEF Spec, IrakurketakGorde
-----------------------------------------------------------------------------
(* Printzipala implements Erregistroa. *)

LEMMA DatorBera == \A t, l : E!Badator(t, l) <=> Dator(t, l)
<1>1. \A k : k \in {1, 2} <=> k = 1 \/ k = 2
  OBVIOUS
<1> QED
  BY <1>1 DEF E!Badator, Dator

\* The rename of Kendu is the step at which the removal takes place; if it cannot be
\* done, the registry is lost.
LEMMA BerrizendatuMoztu == TypeOK /\ Kenduan /\ KenduBerrizendatu => [E!Next]_(E!vars)
<1> SUFFICES ASSUME TypeOK, Kenduan, KenduBerrizendatu PROVE [E!Next]_(E!vars)
  OBVIOUS
<1>1. /\ Erregistratuak = fitxategia /\ Galduta = FALSE /\ UNCHANGED balioak
      /\ fitxategia \in Seq(Lerroak) /\ temp = Aurrekoak(fitxategia, kenduTestua) /\ ~badago
      /\ kenduTestua \in Testuak
  BY DEF KenduBerrizendatu, Kenduan, Erregistratuak, Galduta, KenduErdian, TypeOK
<1>2. CASE fitxategia' = temp /\ badago' = TRUE /\ UNCHANGED kenduTestua
  <2> DEFINE n == LehenDatorrena(fitxategia, kenduTestua)
  <2>1. Erregistratuak' = Aurrekoak(fitxategia, kenduTestua) /\ Galduta' = FALSE
    BY <1>1, <1>2 DEF Erregistratuak, Galduta
  <2>2. /\ n \in 0..Len(fitxategia) /\ Len(fitxategia) \in Nat
        /\ n # 0 => Dator(kenduTestua, fitxategia[n])
        /\ \A i \in 1..Len(fitxategia) : Dator(kenduTestua, fitxategia[i]) => n # 0 /\ n <= i
    BY <1>1, Lehena
  <2>3. Aurrekoak(fitxategia, kenduTestua) = IF n = 0 THEN fitxategia
                                                      ELSE SubSeq(fitxategia, 1, n - 1)
    BY DEF Aurrekoak
  <2>4. DOMAIN fitxategia = 1..Len(fitxategia)
    BY <1>1
  <2> HIDE DEF n
  <2>5. CASE n = 0
    BY <1>1, <1>2, <2>1, <2>3, <2>5 DEF E!vars
  <2>6. CASE n # 0
    <3>1. n \in DOMAIN Erregistratuak /\ E!Badator(kenduTestua, Erregistratuak[n])
      BY <1>1, <2>2, <2>4, <2>6, DatorBera
    <3>2. \A i \in 1..(n - 1) : ~E!Badator(kenduTestua, Erregistratuak[i])
      BY <1>1, <2>2, <2>6, DatorBera
    <3>3. Erregistratuak' = SubSeq(Erregistratuak, 1, n - 1)
      BY <1>1, <2>1, <2>3, <2>6
    <3>4. E!Moztu
      BY <1>1, <1>2, <2>1, <3>1, <3>2, <3>3 DEF E!Moztu
    <3> QED
      BY <3>4 DEF E!Next
  <2> QED
    BY <2>5, <2>6
<1>3. CASE edtPc' = "lo" /\ kenduTestua' = Testurik /\ UNCHANGED badago
  <2>1. Erregistratuak' = << >> /\ Galduta' = TRUE
    BY <1>1, <1>3 DEF Erregistratuak, Galduta, KenduErdian
  <2>2. E!Galdu
    BY <1>1, <1>3, <2>1, TestuenZentzua DEF E!Galdu
  <2> QED
    BY <2>2 DEF E!Next
<1> QED
  BY <1>2, <1>3 DEF KenduBerrizendatu

\* A process that ends while there is no registry has lost it; at any other moment it
\* only leaves a removal unfinished.
LEMMA AmaituGaldu == TypeOK /\ Kenduan /\ prozesuaAmaitu => [E!Next]_(E!vars)
<1> SUFFICES ASSUME TypeOK, Kenduan, prozesuaAmaitu PROVE [E!Next]_(E!vars)
  OBVIOUS
<1>1. UNCHANGED <<fitxategia, badago, balioak>> /\ edtPc' = "lo" /\ kenduTestua' = Testurik
  BY DEF prozesuaAmaitu
<1>2. CASE KenduErdian
  <2>1. /\ Erregistratuak' = << >> /\ Galduta' = TRUE /\ kenduTestua \in Testuak
    BY <1>1, <1>2 DEF Erregistratuak, Galduta, KenduErdian, Kenduan
  <2>2. E!Galdu
    BY <1>1, <2>1, TestuenZentzua DEF E!Galdu
  <2> QED
    BY <2>2 DEF E!Next
<1>3. CASE ~KenduErdian
  <2>1. UNCHANGED <<Erregistratuak, Galduta, balioak>>
    BY <1>1, <1>3 DEF Erregistratuak, Galduta, KenduErdian
  <2>2. E!Utzi
    BY <1>1, <2>1 DEF E!Utzi
  <2> QED
    BY <2>2 DEF E!Next
<1> QED
  BY <1>2, <1>3

\* What the deletion of a value file has found out of the list is not registered.
LEMMA HustuEzabatu == TypeOK /\ Kenduan /\ KenduHustu => [E!Next]_(E!vars)
<1> SUFFICES ASSUME TypeOK, Kenduan, KenduHustu PROVE [E!Next]_(E!vars)
  OBVIOUS
<1>1. /\ badago /\ Erregistratuak = fitxategia /\ UNCHANGED <<Erregistratuak, Galduta, kenduTestua>>
      /\ fitxategia \in Seq(Lerroak) /\ kenduTestua \in Testuak
      /\ \A j \in 1..Len(fitxategia) : ~Dator(kenduTestua, fitxategia[j])
  BY DEF KenduHustu, Kenduan, Erregistratuak, Galduta, KenduErdian, TypeOK
<1>2. CASE UNCHANGED balioak
  BY <1>1, <1>2 DEF E!vars
<1>3. CASE balioak' # balioak
  <2>1. PICK x : balioak' = balioak \ {x}
    BY <1>3 DEF KenduHustu
  <2>2. x \in balioak \ balioak'
    BY <1>3, <2>1
  <2>3. x \in Lerroak /\ (kenduTestua = x[1] \/ kenduTestua = x[2])
    BY <2>2, EzabatutakoaZehatza DEF TypeOK, Zehatza
  <2>4. x[1] \in Izenak /\ x[2] \in Ipak
    BY <2>3 DEF Lerroak
  <2>5. <<kenduTestua, kenduTestua>> \in Barruan
    BY <1>1, <2>3, <2>4, TestuenZentzua
  <2>6. Dator(kenduTestua, x)
    BY <2>3, <2>5 DEF Dator
  <2>7. \A i \in DOMAIN Erregistratuak : Erregistratuak[i] # x
    BY <1>1, <2>6
  <2>8. E!BalioakEzabatu(x)
    BY <1>1, <2>1, <2>3, <2>7 DEF E!BalioakEzabatu
  <2> QED
    BY <2>3, <2>8 DEF E!Next, Lerroak
<1> QED
  BY <1>2, <1>3

LEMMA GehituGehitu == ASSUME TypeOK, Kenduan, NEW l \in Lerroak, GehituLerroa(l)
                      PROVE  E!Next
<1>1. /\ Erregistratuak = fitxategia /\ Erregistratuak' = Append(fitxategia, l)
      /\ kenduTestua = Testurik /\ UNCHANGED kenduTestua /\ Galduta = FALSE /\ Galduta' = FALSE
  BY DEF GehituLerroa, Kenduan, Erregistratuak, Galduta
<1>2. \A i \in DOMAIN fitxategia : fitxategia[i][1] # l[1] /\ fitxategia[i][2] # l[2]
  BY DEF GehituLerroa, badagoLaborategia
<1>3. balioak' = balioak \/ balioak' = balioak \cup {l}
  BY DEF GehituLerroa
<1>4. E!Gehitu(l)
  BY <1>1, <1>2, <1>3 DEF E!Gehitu
<1> QED
  BY <1>4 DEF E!Next, Lerroak

LEMMA PausoErregistroa == IInv /\ [Next]_vars => [E!Next]_(E!vars)
<1> SUFFICES ASSUME TypeOK, Kenduan, Deiak, [Next]_vars PROVE [E!Next]_(E!vars)
  BY DEF IInv
<1>a. ASSUME UNCHANGED <<fitxategia, badago, balioak>>, KenduErdian <=> KenduErdian'
      PROVE  UNCHANGED <<Erregistratuak, Galduta, balioak>>
  BY <1>a DEF Erregistratuak, Galduta
<1>b. ASSUME UNCHANGED <<Erregistratuak, Galduta, balioak>>, kenduTestua' \in {kenduTestua, Testurik}
      PROVE  [E!Next]_(E!vars)
  BY <1>b DEF E!vars, E!Next, E!Utzi
<1>1. CASE Hasi
  BY <1>a, <1>b, <1>1 DEF Hasi, Kenduan, diskoa, KenduErdian
<1>2. CASE EntzutenHasi
  BY <1>a, <1>b, <1>2, EntzutenBerean DEF Kenduan, diskoa, KenduErdian
<1>3. CASE prozesuaAmaitu
  BY <1>3, AmaituGaldu
<1>4. ASSUME NEW l \in Lerroak, GehituLerroa(l) PROVE [E!Next]_(E!vars)
  BY <1>4, GehituGehitu
<1>5. ASSUME NEW t \in Testuak, KenduIrakurri(t) PROVE [E!Next]_(E!vars)
  <2>1. /\ kenduTestua = Testurik /\ kenduTestua' = t /\ Galduta = FALSE
        /\ UNCHANGED <<Erregistratuak, Galduta, balioak>>
    BY <1>5 DEF KenduIrakurri, Kenduan, Erregistratuak, Galduta
  <2>2. E!Eskatu(t)
    BY <2>1 DEF E!Eskatu
  <2> QED
    BY <2>2 DEF E!Next
<1>6. CASE KenduEzabatu
  <2>1. UNCHANGED <<Erregistratuak, Galduta, balioak>>
    BY <1>6 DEF KenduEzabatu, Kenduan, Erregistratuak, Galduta, KenduErdian
  <2> QED
    BY <1>b, <1>6, <2>1 DEF KenduEzabatu
<1>7. CASE KenduBerrizendatu \/ KenduHustu
  BY <1>7, BerrizendatuMoztu, HustuEzabatu
<1>8. CASE KenduBete
  BY <1>a, <1>b, <1>8 DEF KenduBete, diskoa, edtVars, KenduErdian
<1>9. CASE EdtErakutsi
  BY <1>a, <1>b, <1>9 DEF EdtErakutsi, diskoa, KenduErdian
<1>10. ASSUME NEW ip \in Ipak, CbUrratsa(ip) PROVE [E!Next]_(E!vars)
  BY <1>a, <1>b, <1>10, CallbackBerean DEF diskoa, edtVars, KenduErdian
<1>11. CASE UNCHANGED vars
  BY <1>a, <1>b, <1>11 DEF vars, diskoa, edtVars, KenduErdian
<1> QED
  BY <1>1, <1>2, <1>3, <1>4, <1>5, <1>6, <1>7, <1>8, <1>9, <1>10, <1>11, UrratsaZein

\* Printzipala implements Erregistroa: whatever file operation fails, and whenever the
\* process ends, the registry that a start would read changes by whole additions and
\* whole removals only, until one removal loses it for good; and the values of a
\* laboratory are deleted only after it.
THEOREM ErregistroaBetetzen == Spec => Erregistroarena
<1>1. Init => E!Init
  BY DEF Init, E!Init, Erregistratuak, Galduta
<1>2. IInv /\ [Next]_vars => [E!Next]_(E!vars)
  BY PausoErregistroa
<1> QED
  BY <1>1, <1>2, InbarianteaBeti, PTL DEF Spec, Erregistroarena, E!Spec
=============================================================================
