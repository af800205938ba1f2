------------------------------ MODULE MCPlaka ------------------------------
(* Plaka on small instances: a zero, which GasHaria does not send, and the    *)
(* greatest reading; or the latter alone.                                    *)
EXTENDS Plaka

ZeroBalio == {0, 4095}
BalioBat  == {4095}
=============================================================================
