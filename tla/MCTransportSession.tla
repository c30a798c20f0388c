------------------------ MODULE MCTransportSession ------------------------
(* TransportSession on a small instance: which message and which runtime is *)
(* which does not matter to the safety properties.                          *)
EXTENDS TransportSession

Symmetry == Permutations(Commands) \union Permutations(Runtimes)
=============================================================================
