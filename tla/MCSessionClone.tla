--------------------------- MODULE MCSessionClone ---------------------------
(* SessionClone on a small instance: one group of up to two sub-sessions, the *)
(* other without any.                                                        *)
EXTENDS SessionClone

CONSTANTS Grown \* the operations whose source has sub-sessions

MCSubs == [r \in Runs |-> IF r \in Grown THEN MaxSubs ELSE 0]
=============================================================================
