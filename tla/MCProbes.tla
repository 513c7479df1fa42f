------------------------------- MODULE MCProbes -------------------------------
(***************************************************************************)
(* Probes for TLC: all three NICs, a ring of three units, three hosts for   *)
(* two cache entries.                                                      *)
(***************************************************************************)
EXTENDS Probes, TLC

MCKinds == {"E1000", "RTL8169", "RTL8139"}
HostSymmetry == Permutations(Hosts) \cup Permutations(Macs)
===============================================================================
