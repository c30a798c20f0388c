--------------------------- MODULE P2pDiscussion ---------------------------
(***************************************************************************)
(* What a P2P discussion promises, without sessions, prompts or files        *)
(* (the phases of src/src/daemon/p2p-orchestrator.ts: executeChain).          *)
(*                                                                         *)
(* The initiator analyses, every participant is heard, the initiator          *)
(* summarises, and at the end of a flow cycle the original request is         *)
(* executed; only then may the next cycle begin, and the discussion is        *)
(* complete only after its last round.  It may be dropped at any point, and   *)
(* it ends one way or the other.                                            *)
(***************************************************************************)
EXTENDS Naturals

CONSTANTS
  Targets,      \* the participants
  Cycles,       \* flow cycles asked for
  CycleLength   \* the rounds of one cycle: the modes of a combo pipeline

VARIABLES phase, round, heard
vars == <<phase, round, heard>>

Rounds == Cycles * CycleLength
CycleEnds(r) == r % CycleLength = 0

Init ==
  /\ phase = "analysing"
  /\ round = 1
  /\ heard = {}

Discuss ==
  /\ phase = "analysing"
  /\ phase' = "discussing"
  /\ heard' = {}
  /\ UNCHANGED round

(* Some participants are through with this round, with an answer or without. *)
Hear ==
  /\ phase = "discussing"
  /\ heard' \in SUBSET Targets
  /\ heard \subseteq heard'
  /\ heard # heard'
  /\ UNCHANGED <<phase, round>>

Summarise ==
  /\ phase = "discussing"
  /\ heard = Targets
  /\ phase' = "summarising"
  /\ UNCHANGED <<round, heard>>

Execute ==
  /\ phase = "summarising"
  /\ CycleEnds(round)
  /\ phase' = "executing"
  /\ UNCHANGED <<round, heard>>

NextRound ==
  /\ round < Rounds
  /\ round' = round + 1
  /\ heard' = {}
  /\ \/ /\ phase = "summarising"
        /\ ~CycleEnds(round)
        /\ phase' = "discussing"
     \/ /\ phase = "executing"
        /\ phase' = "analysing"

Complete ==
  /\ phase = "executing"
  /\ round = Rounds
  /\ phase' = "complete"
  /\ UNCHANGED <<round, heard>>

Drop ==
  /\ phase \notin {"complete", "dropped"}
  /\ phase' = "dropped"
  /\ heard' = {}
  /\ UNCHANGED round

Next ==
  \/ Discuss \/ Hear \/ Summarise \/ Execute \/ NextRound \/ Complete \/ Drop

Spec == Init /\ [][Next]_vars

(* Every await of the chain has a deadline of its own.                       *)
FairSpec == Spec /\ WF_vars(Next)
=============================================================================
