------------------------------- MODULE MCShell -------------------------------
(***************************************************************************)
(* Shell for TLC: as many DHCP exchanges as the keys can start.            *)
(***************************************************************************)
EXTENDS Shell

MCMaxStarts == MaxKeys
===============================================================================
