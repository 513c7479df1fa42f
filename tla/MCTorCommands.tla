---------------------------- MODULE MCTorCommands ----------------------------
(***************************************************************************)
(* TorCommands for TLC: three relays, one for each role, which are         *)
(* interchangeable; names of no and of two characters as the proxy's bound *)
(* address.                                                                *)
(***************************************************************************)
EXTENDS TorCommands, TLC

MCDomainLens == {0, 2}
RelaySymmetry == Permutations(Relays)
===============================================================================
