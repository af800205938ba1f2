----------------------------- MODULE Printzipala -----------------------------
(***************************************************************************)
(* The dashboard's main window for one account: the registry of            *)
(* laboratories, a text file of lines "izena, ip", its copy in memory, the  *)
(* list the window shows, and the MQTT subscribers that light a            *)
(* laboratory's gas and people marks.  The file, the temporary file of     *)
(* Kendu and the value files outlive the process, which may end at any     *)
(* moment and be started again.                                            *)
(*                                                                         *)
(* The operator's actions run on the Swing event thread, the messages of   *)
(* each broker on a callback thread of its own; both use the list and the  *)
(* JList without synchronisation, one access to them a step.  The field    *)
(* through which an array goes from the one to the other is left out: what *)
(* another thread may have put there is an array that it is itself about   *)
(* to show, or shows.  A laboratory in memory                              *)
(* carries entzulea: whether its ip_helbidea is the very String object its *)
(* subscriber was made with, which is what propertyChange compares.        *)
(***************************************************************************)
EXTENDS Naturals, Sequences, FiniteSets, SequencesExt

CONSTANTS Izenak,         \* names of laboratories
          Helbideak, Ipak, \* addresses as typed; those with "tcp://" in them
          Osatu,          \* how the constructor of Laborategia completes one
          Testuak,        \* what may be typed into the dialog of Kendu
          Testurik,       \* Kendu has no text: a model value
          Barruan,        \* <<t, s>>: the text t is a substring of s
          HasierakoFitxategia,
          MaxDeiak        \* bound: callbacks at work at once

Lerroak == Izenak \X Ipak

ASSUME HelbideakOsatu ==
  /\ Ipak \subseteq Helbideak /\ Osatu \in [Helbideak -> Ipak]
  /\ \A ip \in Ipak : Osatu[ip] = ip
ASSUME TestuenZentzua ==
  /\ Testurik \notin Testuak
  /\ Barruan \subseteq Testuak \X (Izenak \cup Ipak)
  /\ \A t \in Testuak \cap (Izenak \cup Ipak) : <<t, t>> \in Barruan
ASSUME IpakMugatuak == IsFiniteSet(Ipak)
ASSUME HasieraOna ==
  /\ HasierakoFitxategia \in Seq(Lerroak)
  /\ \A i, j \in DOMAIN HasierakoFitxategia, k \in {1, 2} :
       HasierakoFitxategia[i][k] = HasierakoFitxategia[j][k] => i = j

VARIABLES
  fitxategia, badago,      \* the registry: its lines, and whether it exists
  temp,                    \* temp.txt, until Kendu has renamed it or given up
  balioak,                 \* the value files that exist
  leihoa,                  \* the process and its window
  laborategiak,            \* the list in memory
  ikusgai,                 \* the lines the JList shows
  harpidetuak,             \* brokers a subscriber is connected to
  edtPc, kenduTestua,      \* the event thread's next step; what Kendu looks for
  cb                       \* the callback threads

diskoa == <<fitxategia, badago, temp, balioak>>
edtVars == <<edtPc, kenduTestua>>
vars == <<diskoa, leihoa, laborategiak, ikusgai, harpidetuak, edtVars, cb>>

CbLo == [pc |-> "lo", i |-> 0, zerrenda |-> << >>]
CbHurrengoa(i) == [pc |-> "tamaina", i |-> i, zerrenda |-> << >>]

\* new Laborategia, from a line or from the dialog: a String of its own.
MutLaborategiaTrukatua(l) ==
  [izena |-> Osatu[l[2]], ip |-> l[1], marka |-> FALSE, entzulea |-> FALSE]
Laborategia(l) == [izena |-> l[1], ip |-> Osatu[l[2]], marka |-> FALSE, entzulea |-> FALSE]
Lerroa(lab) == <<lab.izena, lab.ip>>

\* sortuBistaratzekoak: an array of the laboratories the list has now.
sortuBistaratzekoak == [i \in DOMAIN laborategiak |-> Lerroa(laborategiak[i])]

\* contains, on the whole line; and equals, on its two parts.
Dator(t, l) == \E k \in {1, 2} : <<t, l[k]>> \in Barruan
Zehatza(t, l) == t = l[1] \/ t = l[2]

\* The loop of Kendu stops at the first line that contains the text and copies
\* what is before it.
LehenDatorrena(f, t) == SelectInSeq(f, LAMBDA l : Dator(t, l))
MutLehenaKenduta(f, t) == IF LehenDatorrena(f, t) = 0 THEN f
                         ELSE SubSeq(f, 1, LehenDatorrena(f, t) - 1)
                                \o SubSeq(f, LehenDatorrena(f, t) + 1, Len(f))
Aurrekoak(f, t) == IF LehenDatorrena(f, t) = 0 THEN f
                   ELSE SubSeq(f, 1, LehenDatorrena(f, t) - 1)

Init == /\ fitxategia = HasierakoFitxategia /\ badago = TRUE
        /\ temp = << >> /\ balioak = {HasierakoFitxategia[i] : i \in DOMAIN HasierakoFitxategia}
        /\ leihoa = "itxita" /\ laborategiak = << >> /\ harpidetuak = {}
        /\ ikusgai = << >> /\ edtPc = "lo" /\ kenduTestua = Testurik
        /\ cb = [ip \in Ipak |-> CbLo]
-----------------------------------------------------------------------------
(* Starting and ending. *)

\* The constructor: laborategiakIrakurri.  An exception, at once without a file and
\* after any number of lines with one, is caught, and entzutenHasi is skipped.
Hasi ==
  /\ leihoa = "itxita"
  /\ \E n \in 0..Len(fitxategia) :
       /\ badago \/ n = 0
       /\ laborategiak' = [i \in 1..n |-> Laborategia(fitxategia[i])]
       /\ \/ badago /\ n = Len(fitxategia) /\ leihoa' = "entzuten" /\ UNCHANGED edtPc
          \/ leihoa' = "irekita" /\ edtPc' = "erakutsi"
  /\ UNCHANGED <<diskoa, ikusgai, harpidetuak, kenduTestua, cb>>

\* entzutenHasi: one broker after the other.  One that cannot be reached ends the
\* constructor; LoginPanela catches the exception, and no window is left.  After
\* the last the window is built, from the JList on.
EntzutenHasi ==
  /\ leihoa = "entzuten"
  /\ LET i == Cardinality(harpidetuak) + 1 IN
       \/ /\ i <= Len(laborategiak)
          /\ harpidetuak' = harpidetuak \cup {laborategiak[i].ip}
          /\ laborategiak' = [laborategiak EXCEPT ![i].entzulea = TRUE]
          /\ UNCHANGED <<leihoa, edtPc>>
       \/ /\ i <= Len(laborategiak)
          /\ leihoa' = "leihorikEz"
          /\ UNCHANGED <<harpidetuak, laborategiak, edtPc>>
       \/ /\ i > Len(laborategiak)
          /\ leihoa' = "irekita" /\ edtPc' = "erakutsi"
          /\ UNCHANGED <<harpidetuak, laborategiak>>
  /\ UNCHANGED <<diskoa, ikusgai, kenduTestua, cb>>

\* Irten; connectionLost of any broker; an exception that leaves messageArrived,
\* as when a message comes before the window is built.
prozesuaAmaitu ==
  /\ leihoa' = "itxita" /\ laborategiak' = << >> /\ harpidetuak' = {}
  /\ ikusgai' = << >>
  /\ edtPc' = "lo" /\ kenduTestua' = Testurik
  /\ cb' = [ip \in Ipak |-> CbLo]
  /\ temp' = << >>
  /\ UNCHANGED <<fitxategia, badago, balioak>>

Irten == leihoa # "itxita" /\ prozesuaAmaitu
-----------------------------------------------------------------------------
(* The event thread: Gehitu, Kendu, and the showing that ends both of them  *)
(* and the constructor.                                                     *)

\* badagoLaborategia, on the file.
MutBadagoIzenaBakarrik(l) == \E i \in DOMAIN fitxategia : fitxategia[i][1] = l[1]
badagoLaborategia(l) ==
  \E i \in DOMAIN fitxategia : fitxategia[i][1] = l[1] \/ fitxategia[i][2] = l[2]

\* Without a file badagoLaborategia throws and nothing is added.  createNewFile
\* of the value file may fail.
MutGehituFitxategirikGabe(l) ==
  LET lerroa == Lerroa(Laborategia(l)) IN
  /\ leihoa = "irekita" /\ edtPc = "lo"
  /\ ~(badago /\ badagoLaborategia(lerroa))
  /\ fitxategia' = IF badago THEN Append(fitxategia, lerroa) ELSE << lerroa >>
  /\ badago' = TRUE
  /\ laborategiak' = Append(laborategiak, Laborategia(l))
  /\ balioak' \in {balioak, balioak \cup {lerroa}}
  /\ edtPc' = "erakutsi"
  /\ UNCHANGED <<temp, leihoa, ikusgai, harpidetuak, kenduTestua, cb>>
Gehitu(l) ==
  LET lerroa == Lerroa(Laborategia(l)) IN
  /\ leihoa = "irekita" /\ edtPc = "lo"
  /\ badago /\ ~badagoLaborategia(lerroa)
  /\ fitxategia' = Append(fitxategia, lerroa)
  /\ laborategiak' = Append(laborategiak, Laborategia(l))
  /\ balioak' \in {balioak, balioak \cup {lerroa}}
  /\ edtPc' = "erakutsi"
  /\ UNCHANGED <<badago, temp, leihoa, ikusgai, harpidetuak, kenduTestua, cb>>

\* Kendu.  Without a match, or with an exception, it returns: what it has written to
\* temp.txt is overwritten before anything reads it, and is not kept here.
KenduIrakurri(t) ==
  /\ leihoa = "irekita" /\ edtPc = "lo"
  /\ badago
  /\ LehenDatorrena(fitxategia, t) # 0
  /\ temp' = Aurrekoak(fitxategia, t)
  /\ edtPc' = "ezabatu" /\ kenduTestua' = t
  /\ UNCHANGED <<fitxategia, badago, balioak, leihoa, laborategiak, ikusgai, harpidetuak, cb>>

\* fitxategia keeps the lines of the deleted registry, as history.
KenduEzabatu ==
  /\ edtPc = "ezabatu"
  /\ \/ /\ badago' = FALSE /\ edtPc' = "berrizendatu"
        /\ UNCHANGED <<temp, kenduTestua>>
     \/ /\ edtPc' = "lo" /\ temp' = << >> /\ kenduTestua' = Testurik
        /\ UNCHANGED badago
  /\ UNCHANGED <<fitxategia, balioak, leihoa, laborategiak, ikusgai, harpidetuak, cb>>

KenduBerrizendatu ==
  /\ edtPc = "berrizendatu"
  /\ temp' = << >>
  /\ \/ /\ fitxategia' = temp /\ badago' = TRUE
        /\ edtPc' = "hustu" /\ UNCHANGED kenduTestua
     \/ /\ edtPc' = "lo" /\ kenduTestua' = Testurik
        /\ UNCHANGED <<fitxategia, badago>>
  /\ UNCHANGED <<balioak, leihoa, laborategiak, ikusgai, harpidetuak, cb>>

\* laborategiaJaso and fitxategiaEzabatu, whose delete may fail; a new list.
MutKenduHustuGabe ==
  /\ edtPc = "hustu"
  /\ edtPc' = "bete"
  /\ UNCHANGED <<diskoa, leihoa, laborategiak, ikusgai, harpidetuak, kenduTestua, cb>>
KenduHustu ==
  /\ edtPc = "hustu"
  /\ LET i == SelectInSeq(laborategiak, LAMBDA lab : Zehatza(kenduTestua, Lerroa(lab)))
     IN  balioak' \in {balioak} \cup
           (IF i = 0 THEN {} ELSE {balioak \ {Lerroa(laborategiak[i])}})
  /\ laborategiak' = << >>
  /\ edtPc' = "bete"
  /\ UNCHANGED <<fitxategia, badago, temp, leihoa, ikusgai, harpidetuak, kenduTestua, cb>>

\* laborategiakIrakurri, line by line; an exception ends Kendu with what has been
\* read, which is not shown.
KenduBete ==
  /\ edtPc = "bete"
  /\ \/ /\ Len(laborategiak) < Len(fitxategia)
        /\ laborategiak' = Append(laborategiak, Laborategia(fitxategia[Len(laborategiak) + 1]))
        /\ UNCHANGED edtVars
     \/ /\ Len(laborategiak) = Len(fitxategia)
        /\ edtPc' = "erakutsi"
        /\ UNCHANGED <<laborategiak, kenduTestua>>
     \/ /\ edtPc' = "lo" /\ kenduTestua' = Testurik
        /\ UNCHANGED laborategiak
  /\ UNCHANGED <<diskoa, leihoa, ikusgai, harpidetuak, cb>>

\* An array of the list, and setListData.  Only this thread changes which laboratories
\* the list has, so nothing comes between the two.
EdtErakutsi ==
  /\ edtPc = "erakutsi"
  /\ ikusgai' = sortuBistaratzekoak
  /\ edtPc' = "lo" /\ kenduTestua' = Testurik
  /\ UNCHANGED <<diskoa, leihoa, laborategiak, harpidetuak, cb>>

Kendu == \/ \E t \in Testuak : KenduIrakurri(t)
         \/ KenduEzabatu \/ KenduBerrizendatu \/ KenduHustu \/ KenduBete
-----------------------------------------------------------------------------
(* The callback threads: propertyChange, with the same loop for gas, whose  *)
(* value is "at least 1000", and for people, "is 1".  A broker's messages   *)
(* of the two kinds come one after the other, and one mark stands for both; *)
(* its value is chosen where it is first used, in CbJarri.                  *)

listaVars == <<diskoa, leihoa, harpidetuak, edtVars>>

MezuaIritsi(ip) ==
  /\ leihoa = "irekita" /\ ip \in harpidetuak /\ cb[ip].pc = "lo"
  /\ Cardinality({q \in Ipak : cb[q].pc # "lo"}) < MaxDeiak
  /\ cb' = [cb EXCEPT ![ip] = CbHurrengoa(1)]
  /\ UNCHANGED <<listaVars, laborategiak, ikusgai>>

CbTamaina(ip) ==
  /\ cb[ip].pc = "tamaina"
  /\ cb' = [cb EXCEPT ![ip] = IF @.i <= Len(laborategiak) THEN [@ EXCEPT !.pc = "alderatu"]
                                                          ELSE CbLo]
  /\ UNCHANGED <<listaVars, laborategiak, ikusgai>>

\* The ip addresses are compared with ==: the same String object.
MutCbAlderatuBeti(ip) ==
  /\ cb[ip].pc = "alderatu" /\ cb[ip].i <= Len(laborategiak)
  /\ cb' = [cb EXCEPT ![ip].pc = "jarri"]
  /\ UNCHANGED <<listaVars, laborategiak, ikusgai>>
CbAlderatu(ip) ==
  /\ cb[ip].pc = "alderatu" /\ cb[ip].i <= Len(laborategiak)
  /\ LET lab == laborategiak[cb[ip].i] IN
       cb' = [cb EXCEPT ![ip] = IF lab.ip = ip /\ lab.entzulea
                                THEN [@ EXCEPT !.pc = "jarri"] ELSE CbHurrengoa(@.i + 1)]
  /\ UNCHANGED <<listaVars, laborategiak, ikusgai>>

\* The list is read again, and may be another one by now.
CbJarri(ip) ==
  /\ cb[ip].pc = "jarri" /\ cb[ip].i <= Len(laborategiak)
  /\ \E balioa \in BOOLEAN : laborategiak' = [laborategiak EXCEPT ![cb[ip].i].marka = balioa]
  /\ cb' = [cb EXCEPT ![ip].pc = "bistaratu"]
  /\ UNCHANGED <<listaVars, ikusgai>>

\* The array is made, and shown: a thread held up between the two shows the
\* laboratories of some time ago.
CbBistaratu(ip) ==
  /\ cb[ip].pc = "bistaratu"
  /\ cb' = [cb EXCEPT ![ip].pc = "erakutsi", ![ip].zerrenda = sortuBistaratzekoak]
  /\ UNCHANGED <<listaVars, laborategiak, ikusgai>>

CbErakutsi(ip) ==
  /\ cb[ip].pc = "erakutsi"
  /\ ikusgai' = cb[ip].zerrenda
  /\ cb' = [cb EXCEPT ![ip] = CbHurrengoa(@.i + 1)]
  /\ UNCHANGED <<listaVars, laborategiak>>

\* get of an index the list no longer has: IndexOutOfBoundsException.
CbKanpoan(ip) ==
  /\ cb[ip].pc \in {"alderatu", "jarri"} /\ cb[ip].i > Len(laborategiak)
  /\ prozesuaAmaitu

Callback(ip) == \/ MezuaIritsi(ip)
                \/ CbTamaina(ip) \/ CbAlderatu(ip) \/ CbJarri(ip)
                \/ CbBistaratu(ip) \/ CbErakutsi(ip)
                \/ CbKanpoan(ip)

Next == \/ Hasi \/ EntzutenHasi \/ Irten
        \/ \E l \in Izenak \X Helbideak : Gehitu(l)
        \/ Kendu \/ EdtErakutsi
        \/ \E ip \in Ipak : Callback(ip)

Spec == Init /\ [][Next]_vars
-----------------------------------------------------------------------------
LabMota == [izena : Izenak, ip : Ipak, marka : BOOLEAN, entzulea : BOOLEAN]

TypeOK == /\ fitxategia \in Seq(Lerroak) /\ temp \in Seq(Lerroak)
          /\ badago \in BOOLEAN
          /\ balioak \subseteq Lerroak
          /\ leihoa \in {"itxita", "entzuten", "leihorikEz", "irekita"}
          /\ laborategiak \in Seq(LabMota)
          /\ harpidetuak \subseteq Ipak
          /\ ikusgai \in Seq(Lerroak)
          /\ edtPc \in {"lo", "ezabatu", "berrizendatu", "hustu", "bete", "erakutsi"}
          /\ kenduTestua \in Testuak \cup {Testurik}
          /\ cb \in [Ipak -> [pc : {"lo", "tamaina", "alderatu", "jarri",
                                    "bistaratu", "erakutsi"},
                              i : 0..Cardinality(Ipak) + 1,
                              zerrenda : Seq(Lerroak)]]

Bakarrak(f) == \A i, j \in DOMAIN f, k \in {1, 2} : f[i][k] = f[j][k] => i = j

\* No two laboratories of the registry share a name or an address, whatever the
\* order of additions, removals and restarts.  All subscribers use one client id:
\* two on one broker would throw each other out and end the dashboard.
LerroBakarrak == Bakarrak(fitxategia)

\* Every laboratory of the list in memory is a line of the registry (of the last one,
\* once it has been lost), in the registry's order, save between Kendu's rename and
\* its new list: whichever of its steps has failed, and wherever a reading broke off.
\* And the window never shows a name or an address twice, not even when a callback
\* thread shows an array that it made before the list was changed.
Barnean(labs, f) ==
  /\ \A i \in DOMAIN labs : \E n \in DOMAIN f : Lerroa(labs[i]) = f[n]
  /\ \A i, j \in DOMAIN labs, m, n \in DOMAIN f :
       i < j /\ Lerroa(labs[i]) = f[m] /\ Lerroa(labs[j]) = f[n] => m < n
ZerrendaErregistroan ==
  /\ edtPc # "hustu" => Barnean(laborategiak, fitxategia)
  /\ Bakarrak(ikusgai)

\* The registry is the file that a start reads.  From the delete of Kendu to its rename
\* there is none; if the rename fails, or the process ends between the two, it is lost,
\* since nothing reads temp.txt.  But for this, no order of file operations, no failure
\* of one of them and no crash shows anything but whole additions and whole removals.
KenduErdian == edtPc = "berrizendatu"
Erregistratuak == IF badago \/ KenduErdian THEN fitxategia ELSE << >>
Galduta == ~badago /\ ~KenduErdian
E == INSTANCE Erregistroa WITH lerroak <- Erregistratuak, galduta <- Galduta,
                               eskatua <- kenduTestua
Erregistroarena == E!Spec

\* The recorded values of a laboratory are not deleted while it is registered,
\* although the line to remove is found with contains and the value file with
\* equals.
IrakurketakGorde ==
  [][\A l \in balioak \ balioak' : \A i \in DOMAIN fitxategia' : fitxategia'[i] # l]_vars

\* A laboratory that has a subscriber of its own is marked only by that subscriber's
\* messages, although the list may be replaced between propertyChange's comparison and
\* the mark.  One without a subscriber (read again by Kendu, or added by Gehitu) has
\* no messages of its own, and may be marked by another's.
MarkaBerea ==
  [][\A ip \in Ipak : cb[ip].pc = "jarri" /\ cb'[ip].pc = "bistaratu"
       => laborategiak[cb[ip].i].ip = ip \/ ~laborategiak[cb[ip].i].entzulea]_vars

\* Kendu writes to the temporary file every line that need not be deleted
\* (Printzipala.java, line 360).
BesteakGorde ==
  [][edtPc = "berrizendatu" /\ edtPc' = "hustu"
       => \A i \in DOMAIN fitxategia : Dator(kenduTestua, fitxategia[i])
            \/ \E j \in DOMAIN fitxategia' : fitxategia'[j] = fitxategia[i]]_vars

\* The comparison checks that the change belongs to the laboratory
\* (Printzipala.java, line 474): it rejects only those of other brokers.
AldaketaDagokiona ==
  [][\A ip \in Ipak : cb[ip].pc = "alderatu" /\ cb'[ip].pc = "tamaina"
       => laborategiak[cb[ip].i].ip # ip]_vars
=============================================================================
