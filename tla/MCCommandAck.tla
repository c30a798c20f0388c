---------------------------- MODULE MCCommandAck ----------------------------
(* CommandAck on a small instance: which connection is which does not       *)
(* matter to the safety properties.                                         *)
EXTENDS CommandAck

Symmetry == Permutations(Links)
=============================================================================
