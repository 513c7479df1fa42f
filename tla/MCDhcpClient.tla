----------------------------- MODULE MCDhcpClient -----------------------------
(***************************************************************************)
(* Small instances of DhcpClient for TLC: two servers, so that offers and  *)
(* acknowledgements of different servers interleave, and several exchanges, *)
(* so that messages of one are still under way in the next.                *)
(***************************************************************************)
EXTENDS DhcpClient

MCServers == {"s1", "s2"}

\* s1 announces its router in the offer only, s2 in the acknowledgement only.
MCSilent == {<<"ack", "s1">>, <<"offer", "s2">>}
===============================================================================
