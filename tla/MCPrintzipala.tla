--------------------------- MODULE MCPrintzipala ---------------------------
(* Printzipala with two names, one a part of the other, and two brokers; the *)
(* operator may leave out "tcp://" and the port of one, and may type a part  *)
(* of an address into the dialog of Kendu.                                   *)
EXTENDS Printzipala

BiIzen == {"lab1", "lab10"}
BiIp   == {"tcp://a", "tcp://b:1883"}
BiHelbide == BiIp \cup {"b"}
Osatuta == [h \in BiHelbide |-> IF h = "b" THEN "tcp://b:1883" ELSE h]
Idatziak == {"lab1", "lab10", "tcp://b:1883", "a"}
Azpikateak == {<<"lab1", "lab1">>, <<"lab1", "lab10">>, <<"lab10", "lab10">>,
               <<"tcp://b:1883", "tcp://b:1883">>, <<"a", "tcp://a">>,
               <<"a", "lab1">>, <<"a", "lab10">>}
LabBat == << <<"lab10", "tcp://a">> >>
=============================================================================
