---------------------------- MODULE MCSupervision ----------------------------
(* Supervision on the small instances of its two runs.                       *)
EXTENDS Supervision
=============================================================================
