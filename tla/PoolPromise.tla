---------------------------- MODULE PoolPromise ----------------------------
(***************************************************************************)
(* What a worker pool promises to the callers of dispatch, without workers,  *)
(* slots or timers (the Promise that PreviewReadWorkerPool.dispatch returns,  *)
(* src/src/daemon/file-preview-read-pool.ts).                                *)
(*                                                                         *)
(* A call is refused at once or accepted; an accepted one is settled, alone   *)
(* or together with others, exactly once and for good; and none is left       *)
(* unsettled.                                                               *)
(***************************************************************************)
CONSTANTS
  Jobs,       \* the calls of dispatch
  Outcomes    \* what a promise resolves to or is rejected with

VARIABLE fate
vars == <<fate>>

Init == fate = [j \in Jobs |-> "new"]

Accept(j) ==
  /\ fate[j] = "new"
  /\ fate' = [fate EXCEPT ![j] = "waiting"]

Refuse(j) ==
  /\ fate[j] = "new"
  /\ \E o \in Outcomes : fate' = [fate EXCEPT ![j] = o]

Settle(S) ==
  /\ \A j \in S : fate[j] = "waiting"
  /\ \E o \in [S -> Outcomes] :
       fate' = [j \in Jobs |-> IF j \in S THEN o[j] ELSE fate[j]]

Next ==
  \/ \E j \in Jobs : Accept(j) \/ Refuse(j)
  \/ \E S \in SUBSET Jobs : Settle(S)

Safety == Init /\ [][Next]_vars

(* Again and again no call is unsettled; as the settled stay so, and calls    *)
(* are finitely many, none waits for ever.                                   *)
Settles == []<>(\A j \in Jobs : fate[j] # "waiting")

Spec == Safety /\ Settles
=============================================================================
