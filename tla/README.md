# Vigilab: TLA+ models, model checking and proofs

Vigilab reads gas and presence sensors on an STM32 board, publishes the readings
over MQTT, and shows them in a Java dashboard, which sends an alarm command back
to the board. This directory holds TLA+ models of that program, TLC
configurations that check them on small instances, and TLAPS proofs. Definitions
keep the (mostly Basque) names of the source; `PROJECT.json` maps each one to its
lines.

## 1. The system

| part | state | operations | talks to |
|---|---|---|---|
| `GasHaria` (`Micros/Core/Src/app_threadx.c`, `adc.c`) | `egoeraGas`, ADC1 registers | start, poll and read a conversion; send it to `QueueGas`; red LED | queue, LED register |
| `InfragorriHaria` (same file) | `egoeraInfragorri`, `pir_value` | read the pin, send to `QueueInfrarojo`; blue LED | queue, LED register |
| LEDs (`leda.c`, `nireGpio.c`) | `GPIOB->ODR`, one register | `ledaPiztu`, `ledaItzali`: a load and a store | the three threads |
| MQTT thread (`NetXDuo/App/app_netxduo.c`) | `message`, connection | connect, subscribe, receive from each queue and publish, `mezua_Jaso`; `Error_Handler` on failure | queues, broker, green LED |
| network bring-up (same file) | DHCP client, `Semaphore` | `App_Main_Thread_Entry`, `ip_address_change_notify_callback` | MQTT thread |
| link monitor (same file) | `linkdown` | `App_Link_Thread_Entry`: poll, announce, restart DHCP | DHCP client |
| login (`LoginPanela.java`, `LoginModeloa.java`, ...) | account file, registry files, form mode | log in, create an account | main window |
| main window (`Printzipala.java`) | registry file, `temp.txt`, value files, list in memory, subscribers | `Gehitu`, `Kendu`, `Irten`, gas and people marks, opening a laboratory | broker callbacks, files |
| subscriber (`MqttSuscribe.java`) | client, `valueTemperature`, listeners | connect, subscribe, `messageArrived`, `connectionLost` (exit) | broker, both windows |
| lab window (`LaborategiaPanela.java`) | `grafikaPanelean`, history, value file, person's Timer | chart/map switch, gas and people messages, values of a day | map, subscriber |
| map (`LabObjektuak.java`, `Pertsona.java`, `MqttPublish.java`) | Timer, colour, `piztuta`, `balioGasa`, the person | `setBalioGasa`, ticks, AlarmaON/OFF, publish, `mugitu` | broker |
| servers (`Linux/`, `Cloud/`, `Sare/`) | backups, configuration | cron scripts | outside the repository |

Almost all of the repository's C is vendored or generated: CMSIS and HAL headers,
ThreadX, NetX Duo and its clients, CubeMX start-up code. The program's own logic
is in the files named above, about 3,400 lines, and it is what the models cover; the
libraries are taken as what the program sees of them.

What is hard to test, each with its line in `PROJECT.json` "hazards":

- threads of different priority read-modify-write one LED register;
- queues fill while the MQTT thread waits; a publish fails and stops the thread
  for good; one queue could starve the other, or the alarm;
- DHCP restarts cross the main thread's start; the address-change semaphore also
  counts losses;
- the MQTT callback thread and the Swing thread (EDT) share fields without
  synchronisation: the two Timers, the view flag, the map, the value history, the
  list of laboratories;
- the alarm is remembered in the map, whose publishes can fail half-way;
- `Kendu` deletes the registry, then renames the new one over it, then reads it again;
  an account is written in two files; any step can fail, and the process can end
  between any two;
- callback threads show the list of laboratories while `Kendu` replaces it, and both
  threads may build a map at once, so that the one shown is not the one that the
  messages go to;
- all subscribers share one client id, and two windows connect to one broker in turn;
- a message may arrive while the object that is to handle it is still being built.

What makes each part correct: a reading is fresh, published in order and at most
once; LEDs show what they are meant to; the MQTT thread starts after an address was
obtained, and no queue starves; only account holders log in; the registry has no
duplicates, and nothing is in memory that is not in it; the dashboard does not throw
itself out of a broker; every gas value is recorded, within the history's limit; the map
keeps the alarm raised while the gas is high; the person moves, and stays in the room.
Where the code falls short of one of these, the property says exactly when, and section
6 lists it.

## 2. The modules

| module | models | kind |
|---|---|---|
| `Telemetria` | what the board promises of its two telemetry channels | abstract specification |
| `Erregistroa` | what the registry promises: whole additions and whole removals, or its loss, once and for good | abstract specification |
| `KontuBiltegia` | what the accounts promise: one a user, unchanged, the only way in | abstract specification |
| `Plaka` | sensor threads, queues, LED register, MQTT thread | detailed; implements `Telemetria` by INSTANCE ... WITH |
| `Sarea` | main, MQTT (start and stop only) and link threads, DHCP, cable | detailed |
| `Saioa` | login form, account file, registry files | detailed; implements `KontuBiltegia` |
| `Printzipala` | registry file, list in memory and list shown, `Gehitu`, `Kendu`, start, exit, marks | detailed; implements `Erregistroa` |
| `Harpidetza` | subscribers of both windows, `valueChanged`, client-id takeover | detailed |
| `Historia` | value history, its file, a day's window, on two threads | detailed |
| `LabMapa` | gas messages, view switches of both threads, panel, every map with its Timer, alarm | detailed |
| `Pertsona` | people messages, the person and its Timers | detailed |
| `PlakaProofs`, `SareaProofs`, `SaioaProofs`, `HarpidetzaProofs`, `HistoriaProofs`, `LabMapaProofs`, `PertsonaProofs`, `PrintzipalaProofs` | theorems about the module each is named for | proofs |
| `MCPlaka`, `MCPrintzipala`, `MCSaioa` | constants for TLC | instances |

Operators named `Mut...` stand before the definition they corrupt. No
specification uses them; each is a plausible bug that must break one property.

The dashboard is modelled in slices that share threads rather than as one product:
`Historia`, `LabMapa` and `Pertsona` are the same window on the same two threads,
each with the fields its actions touch, and each keeps the view switch with the
callback's second read of `grafikaPanelean`. A slice leaves out messages and clicks
only where they touch none of its fields.

### Plaka

State: the two threads' state variables; `adc` with `eoc`, a conversion under way
and `dr`; `odr`, the three LED bits; `infraPc` and `kopia`, the point and the
register value in the middle of InfragorriHaria's LED update; the two queues;
`mqttPc` and `message`; `postontzia`, the received messages inside the MQTT
client. `agindua` and `galdua` are history: the last alarm command obeyed, and
whether a stale store has undone it.

Granularity follows the scheduler. The MQTT thread (priority 5) runs unpreempted
between blocking calls. InfragorriHaria (14) is preempted by it between the load
and the store of an LED update, and at most once matters, as the MQTT thread
touches only the green bit. GasHaria (15) is created with threshold 13; with
`TX_DISABLE_PREEMPTION_THRESHOLD` defined, `tx_thread_create` stores threshold 0
in that case, so nothing preempts it, and one pass of its loop is one step,
taken while InfragorriHaria sleeps. Conversions end at any time. A reading of 0
is not sent (`GasBidali`). `nxd_mqtt_client_publish` waits for ever for packets, so
it fails only without a connection, and `Error_Handler` never returns.

`tx_queue_receive` copies four words into one-word locals; with the stack layout of
the build the neighbours are dead at that point, and the model has no variable for
them. Queue capacity (256 messages) and message box are parameters. Payloads on
`alarma` are "0" and "1", which is what the dashboard sends.

### Sarea

One action per stretch between blocking calls of the main and the link thread; the
link thread (11) runs only while the main thread (10) is blocked or done. The MQTT
thread is reduced to waiting, connecting, looping and `Error_Handler`; losing the
connection is the environment's. Only what the link thread prints is left out.

### Saioa

`pasahitzak` is the account file, line by line, and is read in steps of two lines as
both loops of the code do; `erregistroak` are the accounts with a registry file. Both
survive `prozesuaAmaitu`, possible in every state, also with the dialog open that
stands between the writing of the two. `entzuleak` counts, for each button, the
listeners that a click would call: `loginekoBotoiakAktibatu` removes one and adds
one. `galduta` is history: the users with an account that was left without a registry,
by a creation cut at its dialog, by a `createNewFile` that failed, or by `Kendu` of the
main window (`KenduErregistroa`), whose delete and rename of the same file are in
`Printzipala`. The abstract accounts are the file's pairs of lines (`Kontuak`). A name may
also be a password.

Taken as given: an account's two lines are written all or not at all (one buffered
write, at close), and the file delivered ends in a newline, so a creation begins a line; a
field is never empty (an untouched or emptied one holds its
default text) and holds one line; file names are told apart as user names are, which a
case-insensitive file system does not do. Everything runs on the EDT, where only a
modal dialog lets something in between.

### Printzipala

`fitxategia` and `badago` are the registry of one account, `balioak` the value files: they
survive `prozesuaAmaitu`, which is an exit, a lost broker or an exception in a callback,
possible in every state. `Kendu` is cut where a modal dialog, a file operation or
another thread's read of the list comes between: reading, delete, rename, new list, then
one line at a time, then the showing (`EdtErakutsi`, which ends the constructor and
`Gehitu` too). Every reading of the file may fail after any number of lines: a start then
opens its window with what has been read and without subscribers, and `Kendu` ends with
what has been read, not shown.

The registry is what a start would read (`Erregistratuak`). While `Kendu` is between
its delete and its rename, the old lines still stand for it, as history; if the rename fails
or the process ends there it is lost (`Galduta`), which is a step of `Erregistroa`, and one
that nothing takes back: no code reads `temp.txt` again, and without a file
`badagoLaborategia` throws, so `Gehitu` adds nothing. `temp` is therefore not kept after
Kendu has given up: a later Kendu overwrites it before it is read.

A laboratory in memory carries `entzulea`: whether its address is the String object of its
subscriber, which is what `==` compares; and one mark. The two branches of `propertyChange`
are the same loop on another mark, and `CbJarri` chooses the value. A callback thread makes
an array of the list (`CbBistaratu`) and shows it later (`CbErakutsi`), so that `ikusgai`,
what the JList shows, may be of some time ago. The field `bistaratzekoLaborategiak`,
through which the array goes, is left out: what another thread may have put there is an array
that it is itself about to show, or shows. `MaxDeiak` bounds the callbacks at work at once.

`contains` is the constant relation `Barruan`; `equals` is equality. `Osatu` is the
constructor's completion of an address; a registered one is complete, but the same broker can
still have two texts (section 6). A value file is identified by the line of its laboratory,
which is right as long as hosts differ: its name holds name and host, not the port.
Taken as given: `Gehitu` writes its line all or not at all; the file delivered ends in a
newline; its lines are well formed.

### Harpidetza

`bez` is the state of each window's subscriber at each broker: not connected,
connected, subscribed to one topic or to both, its `konektorea` made, listening; closed,
thrown out by the broker, or lost. `connect` throws the other window's client out, if
it is connected to the same broker. `Hautatu` to `LaborategiaPanela` is
`valueChanged`, call by call, with each call that may fail: `entzutenBukatu` prints
and skips the rest, the constructors leave. Messages come from the subscription on;
one that finds `konektorea` null, or a window not yet built, ends the process. The
list shown anew by a message clears the selection, which `valueChanged` reads twice.

Brokers are distinct, one per laboratory, which is `LerroBakarrak` of `Printzipala`. A
`disconnect` that fails leaves the client connected.

### Historia

`pc` and `valorActual` of both threads in `mostrarGrafikak`, `actualizarHistorial` and
`guardarValorEnArchivo`, which either may be running; `luzera`, the length of the
`LinkedList`. When both threads are inside the list at once that is a data race: an
exception (on the callback thread it ends the process), a list whose links and size
agree no more (`hondatuta`, after which `size` may say anything), or no harm. A value
is its topic and whether it is zero, as zeros are skipped. `leihoa` is the window of a
day with its points in view, which the scroll bar moves. `gordeta` and `mapara` are
history, of the message in hand.

It starts when the window is built and no message has come. A line is appended to the
file whole, or the write fails and is printed. The XYSeries, which the EDT paints
from while the callback thread fills it, and the look of the charts are left out.

### LabMapa

Two threads, one shared access a step: the callback thread runs `propertyChange`
for a gas value (`GasaIritsi` to `TimerAbiatu`), the Swing thread the view actions and
`actionPerformed`. Both run `pantallaAldatu` (`PantallaAldatu(h)`), which is cut at
`removeAll`, at the store of a new map in the field `laborategikoObjektuak` (`uneko`), at
the read of the field that `mostrarMapa` returns, and at the `add` to the panel
(`ikusgai`). The callback thread comes there by its second read of `grafikaPanelean`, and
builds a map when a click on Mapa falls between the two reads. Panel and field may then
differ, and the panel may hold two maps: the buttons act on a map in the panel, the
messages on the one in the field.

Every visit to the map makes a new record in `mapa`. A Timer whose field was cleared after
being restarted is an orphan (`umezurtz`): it still ticks. A publish ends well, fails
before anything was sent, or fails later and leaves the client connected (`zintzilik`) with
the command sent or not; the next publisher has the same client id, so the broker throws
the old one out and its `connectionLost` exits the process. The colour of the background
is left out.

### Pertsona

`mapa` is the newest map: null, empty, or with the person; `timer` the field, `martxan`
the Timers that run, of which several may. The callback thread is cut at each
access: `contains`, `add` or `remove`, the store of the Timer, and its start, which
reads the field again. A tick of any running Timer moves the person if it is on
the map; otherwise it stops the Timer of the field, which need not be its own, and
clears the field. `mugitu` is the code's, with its random factors as a choice.

## 3. The runs

| cfg | specification and bounds | checks |
|---|---|---|
| `MCPlaka` | converter values 0 and 4095, queues of 2, one message in the box | `TypeOK`, `IrakurketaBerria` (no conversion sent twice or before it ended), `GorriaBatDator` (red LED never undone), `AlarmaLeda` (alarm LED wrong only by a torn update), `Telemetriakoa` (refinement of `Telemetria`) |
| `MCPlakaBizi` | one value, queues of 1, fairness | `IrakurketenIrteera`, `AlarmaPiztu` (no starvation), `GasLagintzen` (the ADC handshake never wedges) |
| `MCPlakaAlarma` | queues of 1 | `AlarmaMantendu` is violated: see 6 |
| `MCSarea` | semaphore to 3, fairness | `TypeOK`, `HelbideaAurretik` (no MQTT before an address), `MainEzHuts` (the link thread's DHCP restart never kills the main thread), `MqttAbiatu`, `LinkdownZehatza` (flag settles with the cable) |
| `MCSaioa` | three names and three passwords, two texts common to both; the delivered account is one of them twice | `TypeOK`, `KontuakBikotetan` (the file stays pairs, one a user), `Kontuetakoa` (refinement of `KontuBiltegia`: who is let in has typed an account's pair, and no account changes), `FormaDator` (the form is in one mode, a click is handled once), `KontuakErregistroa` (an account is without a registry just when its creation was cut, `createNewFile` failed, or `Kendu` lost it) |
| `MCPrintzipala` | two names, one inside the other, two brokers, four typed texts, one callback at work at once | `TypeOK`, `LerroBakarrak`, `ZerrendaErregistroan` (the list in memory is a part of the registry, in order; nothing is shown twice), `Erregistroarena` (refinement of `Erregistroa`), `IrakurketakGorde` (no value file of a registered laboratory is deleted), `MarkaBerea` (a laboratory with a subscriber is marked by that one only) |
| `MCPrintzipalaBesteak`, `MCPrintzipalaAldaketa` | the same | `BesteakGorde`, `AldaketaDagokiona` are violated |
| `MCHarpidetza` | three laboratories, fairness | `TypeOK`, `KanporaketaArrazoia` (the dashboard throws itself out only after a failed call), `LeihoaEntzuten` (no window without a subscriber), `HautaketaBete` (a choice ends in a window) |
| `MCHistoria` | limit 2, two points in view, three lines | `TypeOK` (a day's window never shows more points than it should), `HistoriaMuga` (limit exceeded by one at most), `GasaGordetzen` (the callback thread records gas only), `GalduGabe` (and loses none, save when the operator has gone to the map meanwhile or the process has ended) |
| `MCLabMapa` | gas 500, 1500, 3000; two maps; fairness | `TypeOK`, `AlarmaGogoratua` (the messages' map comes to believe in an alarm that is off only by AlarmaOFF of another map in the panel), `MapaNullLeihoa` (a null map is met only while the first is built), `AlarmaEtengabe` (high gas, the messages' map shown and no other: the alarm is on again and again) |
| `MCPertsona` | a room of 9 by 8, steps of 0 or 2 and of 0, 2 or 4, three Timers; fairness | `TypeOK`, `HormenInguruan` (never more than a step beyond a wall), `MugituJarraitzen` (a person on the map never freezes), `TimerraAskatu` (once it is gone for good the field is cleared) |

Why the bounds are enough. A queue of 2 is empty, partly filled and full while a
reading is in hand; of 1, empty and full. The converter's values are the one that
is not sent and one that is; its value decides nothing else. A semaphore count of
3 exceeds the puts that any one wait can tell apart (0 or not). In `MCSaioa` the file
grows to all the accounts there can be, and the common texts are the case in
which a line could be read as the wrong kind. Two registry names with a substring
relation, and a text found in an address and in both names, separate `contains`
from `equals`; two lines suffice for a line before and one after the match. One
callback at work at once meets every step of Kendu and of Gehitu, which is where the list
changes; callbacks of two brokers at once, with one typed text, were also run (1.8 million states), and
the theorems hold for any number. Three
laboratories have a first, a middle and a last one to close, before and after
the chosen one. A history of 2 is empty, partly filled, full and exceeded; three
lines are a day too small for the window, one that fits and one that scrolls. Gas
500, 1500 and 3000 lie in the three ranges that the code's thresholds make. Two maps
are one built by each thread in one crossing, or one shown and one left behind with its
Timer. Three maps, a visit after a crossing, were also run with two gas values for the safety
properties and with one for the liveness property (up to 3.2 million states), and the
theorems hold for any number. The room's sizes
are not multiples of the steps, so steps land on, before and beyond the walls. Three
Timers are the field's, an orphan and a new one. Deadlock is checked where the
system cannot stop; the dashboard's process may end in `LabMapa`, `Harpidetza`,
`Historia` and `Pertsona`.

Fairness. Board: WF of the MQTT thread, of InfragorriHaria and of the converter,
as ThreadX runs a ready thread once the higher ones sleep, which each does in every
iteration, and a publish without an answer ends when TCP gives the connection
up; SF of GasHaria, which is enabled only between two passes of InfragorriHaria.
The publish step is in WF of `MqttHaria`; without a connection it is the error
step. Network: WF of the threads and of the DHCP server while the cable stays
plugged; SF of the link thread, which must wait for the main one. Dashboard: WF of
both threads' work once it has begun (`Callback`, `CbLanean`, `Edt`, `EdtLanean`,
`Fondoa`, `PantallaAldatu`, `mostrarMapa`): the virtual machine runs both; WF of a `connectionLost` that is due;
SF of each Timer's tick, since clicks come between ticks but the event queue
serves all; SF of a successful publish in `LabMapa`, since no map's publishes fail every
time for ever. In `LabMapa` WF of `Callback` also says that the board goes on publishing. Nothing
assumes that the operator does anything.

## 4. What is proved

Each theorem holds for every value of the constants that the named assumptions
allow. In each module an inductive invariant `IInv` is shown to hold initially and to be
preserved, action by action.

`PlakaProofs`, for every set of 12-bit converter values and all queue lengths
(`AdcHamabiBit`, `KolakTokia`): `TypeOK`, `IrakurketaBerria`, `GorriaBatDator`,
`AlarmaLeda`, the refinement `Spec => T!Spec` (`TelemetriaBetetzen`), and the range of the
millivolt conversion with the sample from which a reading reaches the alarm
threshold (`TentsioMugak`). `GorriaBatDator` and `AlarmaLeda` are not inductive. An LED update
that has loaded the register will store what it loaded; the red bit survives
only because the loaded copy agrees with the register while the store is
pending. `IInv` adds this as `KopiaGorria`: between load and store GasHaria does not
run, and the MQTT thread leaves the red bit alone. The refinement maps a
send that finds room to an accept, a receive to a stutter, a publish to
publishing the head, and a failed one to giving up with the reading in hand.
`SareaBetetzen` joins the two models of the board: `Sarea` reduces the MQTT thread to three
places, and every step of `Plaka`, seen through that reduction, is one of the steps
`Sarea` gives it or a stutter.

`SareaProofs`, for every bound on the semaphore (`SemaforoMuga`): `TypeOK`,
`HelbideaAurretik`, `MainEzHuts`. `IInv` adds `SemaforoZerbaitegatik` (a count, or an
address, means an address was once obtained) and `DhcpGeldi` (the DHCP client is
not started while the main thread has yet to start it, which rests on the
priorities).

`SaioaProofs`, for all names and passwords, those that are both included
(`TestuenMotak`): `TypeOK`, `KontuakBikotetan`, `FormaDator`, `KontuakErregistroa`, and the
refinement of `KontuBiltegia` (`KontuBiltegiaBetetzen`), from which `SarreraKontuarenaBeti`
states what it means at every moment somebody is inside. Appending a new user's pair
leaves the pairs before it in place, so a creation adds one account and changes none; a
log-in is by a line of odd number with the line after it, which is an account's pair; all
other steps leave file and account alone or let nobody be inside. A user without a
registry has an account, so its name is refused to every later creation, which alone could
give the registry back (`Galduak`). `Entzuten` says that
the two buttons keep one listener each while they are off the form.

`HarpidetzaProofs`, for any number of laboratories (`LabMugak`): `TypeOK`,
`KanporaketaArrazoia`, `LeihoaEntzuten`. `IInv` adds the order of the calls: as far as
`entzutenBukatu` has come without a failure the main window's subscribers are closed or
gone, and the second window connects only after that.

`HistoriaProofs`, for every limit, window and file length (`HistoriaMugak`): `TypeOK`,
`HistoriaMuga`, `GasaGordetzen`, and the action property `GalduGabe`. `luzera <= Muga + 1`
is not inductive: `IInv` counts the threads that have passed the size test and are about
to offer, says what the callback thread has in hand at each place, and that a value
owed to the history is either still on its way or recorded. `ZaharrakGordeBeti` bounds the
history from the other side: while no race has broken it, a value leaves it only when no more
than two places are free after it. Its invariant counts the polls that are due, each of
which was decided when the list was full. Two is exact: two threads that found the list
full and bring values of zero free two places.

`LabMapaProofs`, for all gas values and any number of maps (`MapaMugak`): `TypeOK` and
`AlarmaGogoratua`, an action property. `IInv` adds that maps not yet made are
as new (`Berriak`), that a map in the panel or worked on has been made (`Eginak`), and that
there is room for the maps on their way (`Tokia`). A new map is stored as new, so it
believes in no alarm; a map believes in one only when its own publish has ended well; and so
only AlarmaOFF can part what it believes from the last command, which on the map
itself clears its `piztuta`.
`MapaNullLeihoa` (`MapaNullLeihoaBeti`) needs more than it says: `NullAurretik` adds the
messages that have read the view flag and not yet the map, since the Swing thread, busy
with the first map, cannot bring the charts back before it is stored.

`PertsonaProofs`, for every room that holds the person's start, every speed and any
number of Timers (`HormaMugak`, `TimerMugak`): `TypeOK`, `HormenInguruan`,
`MugituJarraitzen`. A position is bounded only together with the direction: a person
beyond a wall already walks back (`Horma`). A Timer runs on because a tick on its way to
stop the field's Timer either comes from another one, which stays, or finds its own.
`PertsonaNullLeihoaBeti` is `MapaNullLeihoa` for people messages.

`PrintzipalaProofs`, for all names, typed texts and substring relations in which each
text is a part of itself (`TestuenZentzua`), any finite set of brokers (`IpakMugatuak`) and
every first registry without duplicates (`HasieraOna`): `TypeOK`, `LerroBakarrak`,
`ZerrendaErregistroan`, the action properties `IrakurketakGorde` and `MarkaBerea`, and the
refinement of `Erregistroa` (`ErregistroaBetetzen`). The facts about the sequences come
first: what Kendu keeps is a part of the file in which nothing matches the text
(`AurrekoakDira`). `IInv` adds that no list anywhere has a name or an address twice, those
in the callback threads' hands included (`Bakarrik`); how far the files are at each step of
Kendu (`Kenduan`); that the list in memory is a part of the registry, and while Kendu reads
its beginning (`Erregistroan`); and what a callback thread knows of the laboratory at its
index (`Deiak`). `IrakurketakGorde` then follows from the difference between
`contains` and `equals`: what equals the text contains it, so it is not among what was
kept. The refinement rests on `Kenduan`: when Kendu renames, `temp` is exactly what the
cut of the old lines would keep, so the rename is the abstract cut; a rename that fails, or
an end of the process before it, is the abstract loss, after which nothing that needs a file
can be done; and what `fitxategiaEzabatu` deletes is no longer registered.

Only model-checked: every liveness property (`IrakurketenIrteera`, `AlarmaPiztu`,
`GasLagintzen`, `MqttAbiatu`, `LinkdownZehatza`, `HautaketaBete`, `AlarmaEtengabe`, `TimerraAskatu`), as liveness under fairness and ENABLED are outside the
prover's reach.

## 5. Not modelled

- Painting: the charts, their colours, the XYSeries behind them, tables and the
  person's colour. The Swing classes for these keep nothing else.
- The text of names, addresses and dates; the checks of the dialog that reads them are
  its contract in `Printzipala`.
- Peripheral initialisation and the errors of `MX_NetXDuo_Init`, which stop the board before
  any thread runs; the vendored libraries beyond the calls named above. They make up
  nearly all of the repository's lines, and none is written for this program.
- Shell scripts, server configuration and the Packet Tracer file, which run or
  describe hosts outside the repository.
- Two dashboards on one broker, several accounts sharing `temp.txt`, and the
  composition of board, broker and dashboard in one state space: `Telemetria` and the
  commands on `alarma` are the interface the two sides are checked against separately.

## 6. Disagreements with the source's own words

Checked by a run that finds the violation:

1. `AlarmaMantendu`: `nireGpio.c` 23 and 27 update `ODR` with a load and a store. The
   MQTT thread can light the alarm LED in between, and the stale store puts it out.
   The README promises to "trigger evacuation alarms".
2. `BesteakGorde`: `Kendu` also removes every laboratory after the one it finds
   (`Printzipala.java` 358).
3. `AldaketaDagokiona`: addresses are compared with `==` (`Printzipala.java` 473), so a
   laboratory re-read by `Kendu` no longer hears its own broker, and can be marked by
   another's messages, when the list changes between the comparison and the mark.

Seen while modelling, and not the subject of a run:

4. `app_netxduo.c` 573 announces that the MQTT client is available again while its
   thread may be in `Error_Handler`.
5. The comment at `LabObjektuak.java` 163 says the background change stops below 1000;
   line 164 tests 3000.
6. A gas or people message between the click on Mapa and the store of the first map
   meets a null `laborategikoObjektuak` (`LaborategiaPanela.java` 499, 514), and the
   dashboard exits. `LabMapa` and `Pertsona` both reach this; that it cannot happen once the
   first map is stored is proved for both topics.
7. A click on Grafikak records whatever `valueTemperature` holds: the 1 of a people
   message as a gas value, or a value recorded before (`LaborategiaPanela.java` 111).
8. Once both threads have passed the size test together the history stays at 21
   values: each later call takes one out and puts one in. A value of zero, which a click on
   Grafikak can bring after a people message, takes one out and puts none in.
9. A day with fewer than 20 values makes the scroll bar's constructor throw, and
   no window is shown (`LaborategiaPanela.java` 332; lines 281-287 only look for none).
10. Days are written without leading zeros (line 137) and asked for with them (line
    435): a typed date with a single-digit day or month is not found.
11. A Timer that was overwritten while it ran ticks until the process ends
    (`LaborategiaPanela.java` 466); the comment at 533 expects a tick without a person to
    stop it.
12. A Timer's field is stored and then read again to start it (`LabObjektuak.java` 96, 97;
    `LaborategiaPanela.java` 466, 467); the Swing thread, stopping what it takes for an old
    Timer, can clear it in between, and the dashboard exits. Both modules reach this.
13. `LoginPanela.java` 322 announces the account also when its write has failed (314), and
    a registry file is made for no account.
14. A gas message caught between the two reads of the view flag (`LaborategiaPanela.java`
    493, 494) while the operator clicks on Mapa makes both threads build a map. The
    callback thread's, say, is stored and added to the panel first, then the Swing thread's:
    the panel holds both and the messages go to the second. Once that one has raised the
    alarm, AlarmaOFF on the first puts it out, and the second, which remembers having
    raised it, never raises it again, however high the gas. `AlarmaGogoratua` shows that no
    other course of events does this. The message itself is recorded nowhere.
15. Between the delete and the rename of `Kendu` (`Printzipala.java` 382, 383) there is no
    registry. If the rename fails or the process ends there, the user has an empty list and
    cannot add to it, for ever: the rewritten lines stay in `temp.txt`, which nothing reads.
16. A callback thread that has made its array (486) before `Kendu` replaces the list shows
    it after `Kendu` has shown the new one (401): the removed laboratory is shown again,
    until something else is shown. A reading that fails in `Kendu` (397) leaves the
    old list shown and a part of the new one in memory.
17. An address typed as `h` is completed to `tcp://h:1883` and one typed as `tcp://h` is
    not (`Laborategia.java` 11-15): one broker in two texts, which Gehitu's check does not
    see. The two subscribers then throw each other out.
18. A broker that cannot be reached when the main window starts leaves no window and a
    process that lives on, with the subscribers made before (`Printzipala.java` 132).
19. A message between the subscription and the making of `konektorea` (`MqttSuscribe.java`
    53) finds null and ends the process.

## 7. Plan

Built so far: `Telemetria` and `Plaka`, `Sarea`, `LabMapa`, `Printzipala`, then `Saioa`,
`Harpidetza`, `Historia` and `Pertsona`; every safety property of the detailed modules
has its proof. The registry and the accounts have abstract specifications of their own since,
`Erregistroa` and `KontuBiltegia`, with proved refinements.

What would come next: `Vigilab`, the board, a broker and the map composed, for the alarm
from a reading to the LED; and one abstract view switch that `LabMapa`, `Pertsona` and
`Historia` are all shown to implement, so that the slices are proved to agree on it.
