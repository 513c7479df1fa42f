------------------------------- MODULE ByteStream -------------------------------
(***************************************************************************)
(* What a TCP connection promises the code above it: the peer sends a      *)
(* stream of bytes, numbered from 1, and ends it; the reader is given the  *)
(* bytes from the first on, each once, in order; and it is told that the   *)
(* stream has ended only when all of it has arrived.  TcpStream implements *)
(* this.                                                                   *)
(***************************************************************************)
EXTENDS Naturals

VARIABLES length,      \* how many bytes the peer sends on this connection
          arrived,     \* how many of them are here, the first ones
          delivered,   \* the bytes given to the reader
          ended        \* the reader may be told that the stream has ended

vars == <<length, arrived, delivered, ended>>

First(n) == [i \in 1 .. n |-> i]

Init == length = 0 /\ arrived = 0 /\ delivered = First(0) /\ ended = FALSE

\* A new connection; what was left of the old one is gone.
Open == /\ length' \in Nat
        /\ arrived' = 0 /\ delivered' = First(0) /\ ended' = FALSE

\* Bytes arrive, with or without the end behind them.
Arrive == /\ arrived' \in arrived .. length
          /\ \/ ended' = ended
             \/ ended' = TRUE /\ arrived' = length
          /\ UNCHANGED <<length, delivered>>

\* The reader gets all of the first n bytes.
Deliver == /\ \E n \in 0 .. arrived : /\ DOMAIN delivered \subseteq 1 .. n
                                      /\ delivered' = First(n)
           /\ UNCHANGED <<length, arrived, ended>>

Next == Open \/ Arrive \/ Deliver

Spec == Init /\ [][Next]_vars
===============================================================================
