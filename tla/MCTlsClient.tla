----------------------------- MODULE MCTlsClient -----------------------------
(***************************************************************************)
(* TlsClient for TLC: two connections, three bytes in records of any size, *)
(* and a reader that asks for less and for more than a record holds.       *)
(***************************************************************************)
EXTENDS TlsClient

MCAsks == {1, 2}
===============================================================================
