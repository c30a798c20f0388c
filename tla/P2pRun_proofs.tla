--------------------------- MODULE P2pRun_proofs ---------------------------
(***************************************************************************)
(* What holds of P2pRun for any participants, any number of cycles and any    *)
(* number of cancel calls.                                                   *)
(***************************************************************************)
EXTENDS P2pRun, Integers, TLAPS

LEMMA RoundsPositive == Rounds \in Nat /\ Rounds >= 1
<1>1. Cycles \in Nat /\ Cycles >= 1 /\ CycleLength \in Nat /\ CycleLength >= 1
  BY P2pAssumption
<1>2. \A a, b \in Nat : a >= 1 /\ b >= 1 => a * b \in Nat /\ a * b >= 1
  BY SMT
<1> QED BY <1>1, <1>2 DEF Rounds

LEMMA InitType == Init => TypeOK
<1> SUFFICES ASSUME Init PROVE TypeOK
  OBVIOUS
<1> USE P2pAssumption DEF Init
<1>1. run \in RunType
  BY RoundsPositive DEF RunType, Status, Steps, Sessions
<1>2. task \in [Sessions -> TaskType]
  BY DEF Sessions, TaskType, Idle
<1>3. /\ hop \in [Targets -> {"queued", "dispatched", "running"} \union HopEnded]
      /\ tally \in [done : [Targets -> Nat], skipped : [Sessions -> Nat]]
      /\ stop \in [pending : Nat, calls : 0..Cancels]
      /\ seen \in [listed : BOOLEAN, cleanup : BOOLEAN, due : BOOLEAN,
                   last : Status \union {None}]
      /\ late \in [Sessions -> Nat]
  BY DEF Sessions
<1> QED BY <1>1, <1>2, <1>3 DEF TypeOK

(* The parts the actions are made of.                                        *)
LEMMA TaskTypes ==
  ASSUME TypeOK, NEW s \in Sessions
  PROVE  /\ Idle \in TaskType
         /\ Dispatched(s) \in TaskType
         /\ \A at \in {"stat", "backoff", "sleep", "poll", "recheck"} :
              [task[s] EXCEPT !.at = at] \in TaskType
         /\ [task[s] EXCEPT !.at = "check", !.attempt = 2] \in TaskType
         /\ [task[s] EXCEPT !.at = "sleep", !.grew = TRUE] \in TaskType
<1>1. task[s] \in TaskType
  BY DEF TypeOK
<1>2. Idle \in TaskType
  BY DEF TaskType, Idle
<1>3. Dispatched(s) \in TaskType
  BY DEF TaskType, Dispatched
<1>4. /\ \A at \in {"stat", "backoff", "sleep", "poll", "recheck"} :
           [task[s] EXCEPT !.at = at] \in TaskType
      /\ [task[s] EXCEPT !.at = "check", !.attempt = 2] \in TaskType
      /\ [task[s] EXCEPT !.at = "sleep", !.grew = TRUE] \in TaskType
  BY <1>1 DEF TaskType
<1> QED BY <1>2, <1>3, <1>4

LEMMA TaskUpdate ==
  ASSUME TypeOK, NEW s \in Sessions, NEW x \in TaskType,
         task' = [task EXCEPT ![s] = x]
  PROVE  task' \in [Sessions -> TaskType]
BY DEF TypeOK

LEMMA SeenTypes ==
  ASSUME TypeOK, NEW st \in Status
  PROVE  /\ Announced(st) \in [listed : BOOLEAN, cleanup : BOOLEAN,
                               due : BOOLEAN, last : Status \union {None}]
         /\ Pushed(seen, st) \in [listed : BOOLEAN, cleanup : BOOLEAN,
                                  due : BOOLEAN, last : Status \union {None}]
BY DEF TypeOK, Announced, Pushed

LEMMA TallyTypes ==
  ASSUME TypeOK, NEW s \in Sessions, NEW o
  PROVE  Tallied(s, o) \in [done : [Targets -> Nat], skipped : [Sessions -> Nat]]
<1>1. /\ tally.done \in [Targets -> Nat]
      /\ tally.skipped \in [Sessions -> Nat]
      /\ run.remaining \subseteq Targets
  BY DEF TypeOK, RunType
<1> QED BY <1>1 DEF TypeOK, Tallied

LEMMA ReleasedType ==
  ASSUME TypeOK, NEW s \in Sessions, NEW st \in Status
  PROVE  /\ Released(s) \in RunType
         /\ [Released(s) EXCEPT !.status = st] \in RunType
BY DEF TypeOK, Released, RunType

LEMMA FinishTypes ==
  ASSUME TypeOK, NEW s \in Sessions, NEW o \in HopEnded, Finish(s, o)
  PROVE  /\ hop' \in [Targets -> {"queued", "dispatched", "running"} \union HopEnded]
         /\ task' \in [Sessions -> TaskType]
         /\ tally' \in [done : [Targets -> Nat], skipped : [Sessions -> Nat]]
         /\ stop' = stop
         /\ late' = late
<1>1. task' \in [Sessions -> TaskType]
  BY TaskTypes, TaskUpdate DEF Finish
<1>2. tally' \in [done : [Targets -> Nat], skipped : [Sessions -> Nat]]
  BY TallyTypes DEF Finish
<1> QED BY <1>1, <1>2 DEF Finish, TypeOK

LEMMA FinishedType ==
  ASSUME TypeOK, NEW s \in Sessions, NEW o \in HopEnded,
         FinishAndPush(s, o) \/ (o = "cancelled" /\ FinishCancelled(s))
           \/ FinishRequired(s, o)
  PROVE  TypeOK'
<1>0. run.status \in Status /\ o \in Status
  BY DEF TypeOK, RunType, Status, HopEnded, Ended
<1>1. Finish(s, o)
  BY DEF FinishAndPush, FinishCancelled, FinishRequired
<1>2. /\ hop' \in [Targets -> {"queued", "dispatched", "running"} \union HopEnded]
      /\ task' \in [Sessions -> TaskType]
      /\ tally' \in [done : [Targets -> Nat], skipped : [Sessions -> Nat]]
      /\ stop' = stop
      /\ late' = late
  BY <1>1, FinishTypes
<1>3. run' \in RunType
  BY <1>0, ReleasedType DEF FinishAndPush, FinishCancelled, FinishRequired
<1>4. seen' \in [listed : BOOLEAN, cleanup : BOOLEAN, due : BOOLEAN,
                 last : Status \union {None}]
  BY <1>0, SeenTypes DEF FinishAndPush, FinishCancelled, FinishRequired, TypeOK
<1> QED BY <1>2, <1>3, <1>4 DEF TypeOK

LEMMA RetryType ==
  ASSUME TypeOK, NEW s \in Sessions, NEW at, 
         at \in {"stat", "backoff", "sleep", "poll", "recheck"},
         UNCHANGED <<run, hop, tally, seen, stop>>,
         late' \in [Sessions -> Nat],
         \/ task' = [task EXCEPT ![s].at = at]
         \/ Retry(s)
  PROVE  TypeOK'
<1>1. task' \in [Sessions -> TaskType]
  <2>1. CASE task' = [task EXCEPT ![s].at = at]
    <3> DEFINE x == [task[s] EXCEPT !.at = at]
    <3>1. x \in TaskType
      BY TaskTypes
    <3>2. task' = [task EXCEPT ![s] = x]
      BY <2>1
    <3> QED BY <3>1, <3>2, TaskUpdate
  <2>2. CASE Retry(s)
    BY <2>2, TaskTypes, TaskUpdate DEF Retry
  <2> QED BY <2>1, <2>2
<1> QED BY <1>1 DEF TypeOK

LEMMA TaskStepType ==
  ASSUME TypeOK, NEW s \in Sessions, TaskStep(s)
  PROVE  TypeOK'
<1> USE DEF At
<1>0. late \in [Sessions -> Nat] /\ run.status \in Status /\ run \in RunType
  BY DEF TypeOK, RunType
<1>1. CASE BeginAttempt(s)
  BY <1>0, <1>1, FinishedType, RetryType DEF BeginAttempt, HopEnded
<1>2. CASE DispatchThrows(s)
  <2>1. task' \in [Sessions -> TaskType]
    BY <1>2, TaskTypes, TaskUpdate DEF DispatchThrows
  <2>2. run' \in RunType
    BY <1>0, <1>2 DEF DispatchThrows, Fail, Moved, RunType, Status, Ended, Steps
  <2>3. seen' \in [listed : BOOLEAN, cleanup : BOOLEAN, due : BOOLEAN,
                   last : Status \union {None}]
    BY <1>2, SeenTypes DEF DispatchThrows, Fail, Status, Ended, TypeOK
  <2> QED BY <1>2, <2>1, <2>2, <2>3 DEF DispatchThrows, TypeOK
<1>3. CASE SendPrompt(s)
  <2>1. late' \in [Sessions -> Nat]
    BY <1>0, <1>3 DEF SendPrompt
  <2> QED BY <1>3, <2>1, RetryType DEF SendPrompt
<1>4. CASE SendFails(s)
  BY <1>0, <1>4, FinishedType, RetryType DEF SendFails, HopEnded
<1>5. CASE BackoffEnds(s)
  BY <1>0, <1>5, RetryType DEF BackoffEnds
<1>6. CASE PollBegins(s)
  BY <1>0, <1>6, FinishedType, RetryType DEF PollBegins, HopEnded
<1>7. CASE PollFindsNothing(s)
  BY <1>0, <1>7, RetryType DEF PollFindsNothing
<1>8. CASE PollFindsGrowth(s)
  <2>1. task' \in [Sessions -> TaskType]
    BY <1>8, TaskTypes, TaskUpdate DEF PollFindsGrowth
  <2>2. run' \in RunType
    BY <1>0, <1>8 DEF PollFindsGrowth, RunType, Status
  <2>3. seen' \in [listed : BOOLEAN, cleanup : BOOLEAN, due : BOOLEAN,
                   last : Status \union {None}]
    BY <1>8, SeenTypes DEF PollFindsGrowth, Status, TypeOK
  <2>4. hop' \in [Targets -> {"queued", "dispatched", "running"} \union HopEnded]
    BY <1>8 DEF PollFindsGrowth, TypeOK
  <2> QED BY <1>8, <2>1, <2>2, <2>3, <2>4 DEF PollFindsGrowth, TypeOK
<1>9. CASE PollFindsAnswer(s)
  BY <1>9, FinishedType DEF PollFindsAnswer, HopEnded
<1>10. CASE PollFindsIdle(s)
  BY <1>0, <1>10, FinishedType, RetryType DEF PollFindsIdle, HopEnded
<1>11. CASE DeadlinePasses(s)
  BY <1>0, <1>11, FinishedType, RetryType DEF DeadlinePasses, HopEnded
<1>12. CASE Recheck(s)
  BY <1>0, <1>12, FinishedType, RetryType DEF Recheck, HopEnded
<1> QED BY <1>1, <1>2, <1>3, <1>4, <1>5, <1>6, <1>7, <1>8, <1>9, <1>10, <1>11,
           <1>12 DEF TaskStep

LEMMA RunMoves ==
  ASSUME TypeOK, NEW st \in Status, NEW step \in Steps
  PROVE  /\ [run EXCEPT !.step = step] \in RunType
         /\ Moved(st, step) \in RunType
BY DEF TypeOK, Moved, RunType

LEMMA KeptType ==
  ASSUME TypeOK, ChainIdle, run' \in RunType,
         seen' \in [listed : BOOLEAN, cleanup : BOOLEAN, due : BOOLEAN,
                    last : Status \union {None}]
  PROVE  TypeOK'
BY DEF TypeOK, ChainIdle

LEMMA GoToType ==
  ASSUME TypeOK, ChainIdle, NEW step \in Steps, GoTo(step)
  PROVE  TypeOK'
<1>1. run.status \in Status
  BY DEF TypeOK, RunType
<1>2. run' \in RunType
  BY <1>1, RunMoves DEF GoTo
<1>3. seen' \in [listed : BOOLEAN, cleanup : BOOLEAN, due : BOOLEAN,
                 last : Status \union {None}]
  BY DEF GoTo, TypeOK
<1> QED BY <1>2, <1>3, KeptType

LEMMA DroppedType ==
  ASSUME TypeOK, ChainIdle, Dropped
  PROVE  TypeOK'
BY GoToType DEF Dropped, Steps

LEMMA FailType ==
  ASSUME TypeOK, ChainIdle, NEW st \in Status, Fail(st)
  PROVE  TypeOK'
<1>1. "dropped" \in Steps
  BY DEF Steps
<1> QED BY <1>1, RunMoves, SeenTypes, KeptType DEF Fail

LEMMA NextRoundType ==
  ASSUME TypeOK, ChainIdle, NextRound
  PROVE  TypeOK'
<1>1. CASE run.round < Rounds
  <2>1. run' \in RunType
    <3>1. run.round + 1 \in 1..Rounds
      BY <1>1, RoundsPositive DEF TypeOK, RunType
    <3>2. 0 \in 0..GateSends
      BY P2pAssumption
    <3> QED BY <1>1, <3>1, <3>2 DEF NextRound, TypeOK, RunType, Steps
  <2> QED BY <1>1, <2>1, KeptType DEF NextRound, TypeOK
<1>2. CASE ~(run.round < Rounds)
  BY <1>2, GoToType DEF NextRound, Steps
<1> QED BY <1>1, <1>2

LEMMA DispatchInitiatorType ==
  ASSUME TypeOK, NEW step \in Steps, NEW R \in SUBSET Targets,
         DispatchInitiator(step, R)
  PROVE  TypeOK'
<1>1. run' \in RunType
  BY DEF DispatchInitiator, TypeOK, RunType, Moved, Status, Sessions
<1>2. Initiator \in Sessions /\ "dispatched" \in Status
  BY DEF Sessions, Status
<1>3. task' \in [Sessions -> TaskType]
  BY <1>2, TaskTypes, TaskUpdate DEF DispatchInitiator
<1> QED BY <1>1, <1>2, <1>3, SeenTypes DEF DispatchInitiator, TypeOK

LEMMA AskExecutionType ==
  ASSUME TypeOK, NEW n \in 0..GateSends, AskExecution(n)
  PROVE  TypeOK'
<1>1. run' \in RunType
  <2>1. "gateTop" \in Steps
    BY DEF Steps, GateSteps
  <2> QED BY <2>1 DEF AskExecution, TypeOK, RunType
<1>2. run.status \in Status
  BY DEF TypeOK, RunType
<1>3. late \in [Sessions -> Nat] /\ Initiator \in Sessions
  BY DEF TypeOK, Sessions
<1>4. late' \in [Sessions -> Nat]
  BY <1>3 DEF AskExecution
<1> QED BY <1>1, <1>2, <1>4, SeenTypes DEF AskExecution, TypeOK

LEMMA HopsPreparedType ==
  ASSUME TypeOK, HopsPrepared
  PROVE  TypeOK'
<1>1. CASE run.cancelled
  BY <1>1 DEF HopsPrepared, TypeOK, RunType, Steps
<1>2. CASE ~run.cancelled
  <2>1. run' \in RunType
    <3>1. PICK last \in Targets :
            run' = [Moved("dispatched", "hops") EXCEPT !.active = Targets,
                                                       !.current = last]
      BY <1>2 DEF HopsPrepared
    <3>2. last \in Sessions /\ "hops" \in Steps /\ "dispatched" \in Status
      BY DEF Sessions, Steps, Status
    <3> QED BY <3>1, <3>2 DEF TypeOK, RunType, Moved
  <2>2. task' \in [Sessions -> TaskType]
    <3>1. \A s \in Sessions : Dispatched(s) \in TaskType /\ task[s] \in TaskType
      BY TaskTypes DEF TypeOK
    <3> QED BY <1>2, <3>1 DEF HopsPrepared
  <2>3. "dispatched" \in Status
    BY DEF Status
  <2> QED BY <1>2, <2>1, <2>2, <2>3, SeenTypes DEF HopsPrepared, TypeOK
<1> QED BY <1>1, <1>2

LEMMA ChainStepType ==
  ASSUME TypeOK, ChainStep
  PROVE  TypeOK'
<1> USE DEF GateSteps
<1>0. {"failed", "timed_out", "completed"} \subseteq Status
  BY DEF Status, Ended
<1>1. CASE ScopeRead
  BY <1>1, DispatchInitiatorType DEF ScopeRead, TypeOK, RunType, Steps
<1>2. CASE InitialReturns
  BY <1>2, GoToType, DroppedType DEF InitialReturns, Steps
<1>3. CASE HopsPrepared
  BY <1>3, HopsPreparedType
<1>4. CASE ChainThrows
  BY <1>0, <1>4, FailType DEF ChainThrows
<1>5. CASE Barrier
  <2>1. run' \in RunType
    BY <1>5 DEF Barrier, TypeOK, RunType, Steps
  <2> QED BY <1>5, <2>1, KeptType DEF Barrier, TypeOK
<1>6. CASE EvidenceAppended
  BY <1>6, DispatchInitiatorType, DroppedType DEF EvidenceAppended, Steps
<1>7. CASE SummaryReturns
  <2>1. 1 \in 0..GateSends
    <3>1. GateSends \in Nat \ {0}
      BY P2pAssumption
    <3> QED BY <3>1
  <2> QED BY <1>7, <2>1, DroppedType, AskExecutionType, NextRoundType DEF SummaryReturns
<1>8. CASE GateDeadline
  BY <1>0, <1>8, FailType DEF GateDeadline
<1>9. CASE GateTop
  BY <1>9, GoToType, DroppedType DEF GateTop, Steps
<1>10. CASE GateMarkerRead
  BY <1>0, <1>10, GoToType, FailType DEF GateMarkerRead, Steps
<1>11. CASE GateWakes
  BY <1>11, GoToType, DroppedType DEF GateWakes, Steps
<1>12. CASE GateAsked
  <2>1. CASE GoTo("gateTop") /\ ChainIdle
    BY <2>1, GoToType DEF Steps
  <2>2. CASE run.sends < GateSends /\ AskExecution(run.sends + 1)
    <3>1. GateSends \in Nat /\ run.sends \in 0..GateSends
      BY P2pAssumption DEF TypeOK, RunType
    <3>2. run.sends + 1 \in 0..GateSends
      BY <2>2, <3>1
    <3> QED BY <2>2, <3>2, AskExecutionType
  <2> QED BY <1>12, <2>1, <2>2 DEF GateAsked
<1>13. CASE GateConfirmed
  BY <1>13, DroppedType, NextRoundType DEF GateConfirmed
<1>14. CASE TailRead
  <2>1. "done" \in Steps
    BY DEF Steps
  <2> QED BY <1>0, <1>14, <2>1, RunMoves, SeenTypes, KeptType DEF TailRead
<1> QED BY <1>1, <1>2, <1>3, <1>4, <1>5, <1>6, <1>7, <1>8, <1>9, <1>10, <1>11,
           <1>12, <1>13, <1>14 DEF ChainStep

LEMMA CancelType ==
  ASSUME TypeOK, Cancel \/ CancelEnds
  PROVE  TypeOK'
<1>0. Cancels \in Nat /\ "cancelled" \in Status
  BY P2pAssumption DEF Status, Ended
<1>1. run' \in RunType
  BY <1>0 DEF Cancel, CancelEnds, TypeOK, RunType
<1>2. Announced("cancelled") \in [listed : BOOLEAN, cleanup : BOOLEAN,
                                  due : BOOLEAN, last : Status \union {None}]
  BY <1>0, SeenTypes
<1>3. seen' \in [listed : BOOLEAN, cleanup : BOOLEAN, due : BOOLEAN,
                 last : Status \union {None}]
  BY <1>2 DEF Cancel, CancelEnds, TypeOK
<1>4. stop' \in [pending : Nat, calls : 0..Cancels]
  <2>1. /\ stop \in [pending : Nat, calls : 0..Cancels]
        /\ stop.pending \in Nat
        /\ stop.calls \in 0..Cancels
    BY DEF TypeOK
  <2>2. CASE Cancel
    <3>1. stop.calls + 1 \in 0..Cancels /\ stop.pending + 1 \in Nat
      BY <1>0, <2>1, <2>2 DEF Cancel
    <3> QED BY <2>1, <2>2, <3>1 DEF Cancel
  <2>3. CASE CancelEnds
    <3>1. stop.pending - 1 \in Nat
      BY <2>1, <2>3 DEF CancelEnds
    <3> QED BY <2>1, <2>3, <3>1 DEF CancelEnds
  <2> QED BY <2>2, <2>3
<1> QED BY <1>1, <1>3, <1>4 DEF Cancel, CancelEnds, TypeOK

LEMMA TypeStep ==
  ASSUME TypeOK, [Next]_vars
  PROVE  TypeOK'
<1>1. CASE \E s \in Sessions : TaskStep(s)
  BY <1>1, TaskStepType
<1>2. CASE ChainStep
  BY <1>2, ChainStepType
<1>3. CASE Cancel \/ CancelEnds
  BY <1>3, CancelType
<1>4. CASE Flush
  BY <1>4 DEF Flush, TypeOK, RunType
<1>5. CASE Cleanup
  BY <1>5 DEF Cleanup, TypeOK
<1>6. CASE Settled \/ UNCHANGED vars
  BY <1>6 DEF Settled, vars, TypeOK
<1> QED BY <1>1, <1>2, <1>3, <1>4, <1>5, <1>6 DEF Next

(* The run, its hops, its dispatches and its reports keep their types.       *)
THEOREM TypeCorrect == Spec => []TypeOK
<1>1. Init => TypeOK
  BY InitType
<1>2. TypeOK /\ [Next]_vars => TypeOK'
  BY TypeStep
<1> QED BY <1>1, <1>2, PTL DEF Spec

(***************************************************************************)
(* The inductive invariant.                                                  *)
(***************************************************************************)
Early == {"initial", "scope", "prepare"}
Hops(t) == tally.done[t] + tally.skipped[t]

(* Dispatches are in flight only while the chain awaits them.                *)
Placed ==
  /\ InFlight(Initiator) => run.step \in {"initial", "summary"}
  /\ \A t \in Targets : InFlight(t) => run.step = "hops"

Reached ==
  /\ stop.pending > 0 => run.cancelled
  /\ ~run.cancelled =>
       /\ InFlight(Initiator) => run.current = Initiator
       /\ \A t \in Targets : InFlight(t) => t \in run.active

(* A hop that is neither in flight nor ended was never begun, which happens   *)
(* only in a cancelled run.                                                  *)
Counted(t) ==
  /\ run.step \in Early => Hops(t) = run.round - 1
  /\ run.step = "hops" =>
       /\ InFlight(t) => hop[t] \notin HopEnded /\ t \in run.remaining
       /\ ~InFlight(t) => hop[t] \in HopEnded \/ run.cancelled
       /\ Hops(t) = IF hop[t] \in HopEnded THEN run.round ELSE run.round - 1
  /\ run.step \notin Early \union {"hops", "done", "dropped"} => Hops(t) = run.round
AllCounted ==
  /\ run.step \in Early => run.remaining = Targets
  /\ \A t \in Targets \ Foreign : Counted(t)

(* A late prompt is one of a call, or a gate, past its look at the flag.     *)
LateBounds ==
  /\ ~run.cancelled => \A s \in Sessions : late[s] = 0
  /\ \A s \in Sessions : late[s] <= 1 /\ (task[s].at = "stat" => late[s] = 0)
  /\ run.step = "gateAsk" => late[Initiator] = 0
  /\ late[Initiator] # 0 => run.step \in {"initial", "summary", "gateTop", "dropped"}
  /\ \A t \in Targets : late[t] # 0 => run.step \in {"hops", "dropped"}
  /\ late[Initiator] = 0 \/ \A t \in Targets : late[t] = 0

IInv == TypeOK /\ Placed /\ Reached /\ AllCounted /\ LateBounds

(***************************************************************************)
(* What a step of a dispatch does: it returns, throws, or goes on.           *)
(***************************************************************************)
SameRun ==
  /\ run'.step = run.step
  /\ run'.round = run.round
  /\ run'.cancelled = run.cancelled

Returns(s) ==
  /\ InFlight(s)
  /\ \E o \in HopEnded : Finish(s, o)
  /\ SameRun
  /\ run'.current = None
  /\ run'.active = run.active \ {s}
  /\ run'.remaining = run.remaining \ {s}

GoesOn(s) ==
  /\ InFlight(s)
  /\ \A z \in Sessions \ {s} : task'[z] = task[z]
  /\ task'[s].at # "idle"
  /\ task'[s].at = "stat" => ~run.cancelled
  /\ SameRun
  /\ run'.current = run.current
  /\ run'.active = run.active
  /\ run'.remaining = run.remaining
  /\ \/ hop' = hop
     \/ s \in Targets /\ hop' = [hop EXCEPT ![s] = "running"]
  /\ tally' = tally
  /\ \/ late' = late
     \/ /\ run.cancelled
        /\ task[s].at = "stat"
        /\ task'[s].at # "stat"
        /\ late' = [late EXCEPT ![s] = @ + 1]

LEMMA ReturnsCases ==
  ASSUME TypeOK, NEW s \in Sessions, InFlight(s), NEW o \in HopEnded,
         FinishAndPush(s, o) \/ (o = "cancelled" /\ FinishCancelled(s))
           \/ FinishRequired(s, o)
  PROVE  Returns(s)
<1>1. Finish(s, o)
  BY DEF FinishAndPush, FinishCancelled, FinishRequired
<1>2. run' = Released(s) \/ run' = [Released(s) EXCEPT !.status = o]
  BY DEF FinishAndPush, FinishCancelled, FinishRequired
<1>3. /\ SameRun
      /\ run'.current = None
      /\ run'.active = run.active \ {s}
      /\ run'.remaining = run.remaining \ {s}
  BY <1>2 DEF TypeOK, RunType, Released, SameRun
<1> QED BY <1>1, <1>3 DEF Returns

LEMMA GoesOnCases ==
  ASSUME TypeOK, NEW s \in Sessions, InFlight(s),
         UNCHANGED <<run, hop, tally, late>>,
         \/ \E at \in {"backoff", "sleep", "poll", "recheck"} :
              task' = [task EXCEPT ![s].at = at]
         \/ task' = [task EXCEPT ![s].at = "stat"] /\ ~run.cancelled
         \/ Retry(s)
  PROVE  GoesOn(s)
<1>1. task[s] \in TaskType
  BY DEF TypeOK
<1>2. CASE \E at \in {"backoff", "sleep", "poll", "recheck"} :
             task' = [task EXCEPT ![s].at = at]
  <2>1. PICK at \in {"backoff", "sleep", "poll", "recheck"} :
          task' = [task EXCEPT ![s].at = at]
    BY <1>2
  <2> DEFINE x == [task[s] EXCEPT !.at = at]
  <2>4. x.at = at
    BY <1>1 DEF TaskType
  <2>3. task' = [task EXCEPT ![s] = x]
    BY <2>1
  <2>5. task'[s] = x /\ \A z \in Sessions \ {s} : task'[z] = task[z]
    BY <2>3 DEF TypeOK
  <2> HIDE DEF x
  <2> QED BY <2>4, <2>5 DEF GoesOn, SameRun
<1>3. CASE task' = [task EXCEPT ![s].at = "stat"] /\ ~run.cancelled
  <2> DEFINE x == [task[s] EXCEPT !.at = "stat"]
  <2>4. x.at = "stat"
    BY <1>1 DEF TaskType
  <2>3. task' = [task EXCEPT ![s] = x]
    BY <1>3
  <2>5. task'[s] = x /\ \A z \in Sessions \ {s} : task'[z] = task[z]
    BY <2>3 DEF TypeOK
  <2> HIDE DEF x
  <2> QED BY <1>3, <2>4, <2>5 DEF GoesOn, SameRun
<1>4. CASE Retry(s)
  <2> DEFINE x == [task[s] EXCEPT !.at = "check", !.attempt = 2]
  <2>4. x.at = "check"
    BY <1>1 DEF TaskType
  <2>3. task' = [task EXCEPT ![s] = x]
    BY <1>4 DEF Retry
  <2>5. task'[s] = x /\ \A z \in Sessions \ {s} : task'[z] = task[z]
    BY <2>3 DEF TypeOK
  <2> HIDE DEF x
  <2> QED BY <2>4, <2>5 DEF GoesOn, SameRun
<1> QED BY <1>2, <1>3, <1>4

LEMMA TaskCases ==
  ASSUME TypeOK, NEW s \in Sessions, TaskStep(s)
  PROVE  InFlight(s) /\ (Returns(s) \/ DispatchThrows(s) \/ GoesOn(s))
<1> USE DEF At
<1>0. InFlight(s)
  BY DEF TaskStep, BeginAttempt, DispatchThrows, SendPrompt, SendFails, BackoffEnds,
         PollBegins, PollFindsNothing, PollFindsGrowth, PollFindsAnswer,
         PollFindsIdle, DeadlinePasses, Recheck, InFlight
<1>1. CASE BeginAttempt(s)
  BY <1>0, <1>1, ReturnsCases, GoesOnCases DEF BeginAttempt, HopEnded
<1>2. CASE SendPrompt(s)
  <2> DEFINE x == [task[s] EXCEPT !.at = "sleep"]
  <2>1. x.at = "sleep"
    BY DEF TypeOK, TaskType
  <2>2. task'[s] = x /\ \A z \in Sessions \ {s} : task'[z] = task[z]
    BY <1>2 DEF SendPrompt, TypeOK
  <2> HIDE DEF x
  <2> QED BY <1>0, <1>2, <2>1, <2>2 DEF SendPrompt, GoesOn, SameRun
<1>3. CASE SendFails(s)
  BY <1>0, <1>3, ReturnsCases, GoesOnCases DEF SendFails, HopEnded
<1>4. CASE BackoffEnds(s)
  BY <1>0, <1>4, GoesOnCases DEF BackoffEnds
<1>5. CASE PollBegins(s)
  BY <1>0, <1>5, ReturnsCases, GoesOnCases DEF PollBegins, HopEnded
<1>6. CASE PollFindsNothing(s)
  BY <1>0, <1>6, GoesOnCases DEF PollFindsNothing
<1>7. CASE PollFindsGrowth(s)
  <2> DEFINE x == [task[s] EXCEPT !.at = "sleep", !.grew = TRUE]
  <2>1. x.at = "sleep"
    BY DEF TypeOK, TaskType
  <2>2. task'[s] = x /\ \A z \in Sessions \ {s} : task'[z] = task[z]
    BY <1>7 DEF PollFindsGrowth, TypeOK
  <2> HIDE DEF x
  <2>3. /\ SameRun
        /\ run'.current = run.current
        /\ run'.active = run.active
        /\ run'.remaining = run.remaining
    BY <1>7 DEF PollFindsGrowth, SameRun, TypeOK, RunType
  <2> QED BY <1>0, <1>7, <2>1, <2>2, <2>3 DEF PollFindsGrowth, GoesOn
<1>8. CASE PollFindsAnswer(s)
  BY <1>0, <1>8, ReturnsCases DEF PollFindsAnswer, HopEnded
<1>9. CASE PollFindsIdle(s)
  BY <1>0, <1>9, ReturnsCases, GoesOnCases DEF PollFindsIdle, HopEnded
<1>10. CASE DeadlinePasses(s)
  BY <1>0, <1>10, ReturnsCases, GoesOnCases DEF DeadlinePasses, HopEnded
<1>11. CASE Recheck(s)
  BY <1>0, <1>11, ReturnsCases, GoesOnCases DEF Recheck, HopEnded
<1> QED BY <1>0, <1>1, <1>2, <1>3, <1>4, <1>5, <1>6, <1>7, <1>8, <1>9, <1>10,
           <1>11 DEF TaskStep

(* What each step of the chain does to the run's own control.                *)
LEMMA TaskAfterReturn ==
  ASSUME TypeOK, NEW s \in Sessions, Returns(s)
  PROVE  /\ ~InFlight(s)'
         /\ \A z \in Sessions \ {s} : task'[z] = task[z]
BY DEF Returns, Finish, InFlight, Idle, TypeOK

LEMMA TaskAfterThrow ==
  ASSUME TypeOK, NEW s \in Sessions, DispatchThrows(s)
  PROVE  /\ ~InFlight(s)'
         /\ \A z \in Sessions \ {s} : task'[z] = task[z]
BY DEF DispatchThrows, InFlight, Idle, TypeOK

LEMMA NextRoundEffect ==
  ASSUME TypeOK, NextRound
  PROVE  /\ run'.status = run.status
         /\ run'.cancelled = run.cancelled
         /\ run'.current = run.current
         /\ run'.active = run.active
         /\ \/ /\ run.round < Rounds
               /\ run'.round = run.round + 1
               /\ run'.remaining = Targets
               /\ run'.step = IF CycleEnds(run.round) THEN "scope" ELSE "prepare"
            \/ /\ ~(run.round < Rounds)
               /\ run'.round = run.round
               /\ run'.remaining = run.remaining
               /\ run'.step = "tail"
BY DEF NextRound, GoTo, TypeOK, RunType

LEMMA PlacedTask ==
  ASSUME TypeOK, Placed, NEW s \in Sessions, TaskStep(s)
  PROVE  Placed'
<1>0. Initiator \in Sessions /\ Targets \subseteq Sessions /\ Initiator \notin Targets
  BY P2pAssumption DEF Sessions
<1>1. CASE Returns(s)
  BY <1>0, <1>1, TaskAfterReturn DEF Placed, InFlight, Returns, SameRun
<1>2. CASE GoesOn(s)
  BY <1>0, <1>2 DEF Placed, InFlight, GoesOn, SameRun
<1>3. CASE DispatchThrows(s)
  <2>0. InFlight(s)
    BY TaskCases
  <2>1. CASE s = Initiator
    <3>1. \A t \in Targets : ~InFlight(t)
      BY <2>0, <2>1 DEF Placed
    <3> QED BY <1>0, <1>3, <2>1, <3>1, TaskAfterThrow DEF Placed, InFlight
  <2>2. CASE s # Initiator
    BY <1>0, <1>3, <2>2, TaskAfterThrow DEF Placed, InFlight, DispatchThrows
  <2> QED BY <2>1, <2>2
<1> QED BY <1>1, <1>2, <1>3, TaskCases

LEMMA PlacedChain ==
  ASSUME TypeOK, Placed, ChainStep
  PROVE  Placed'
<1>0. Initiator \in Sessions /\ Targets \subseteq Sessions /\ Initiator \notin Targets
  BY P2pAssumption DEF Sessions
<1> USE DEF Placed, InFlight
<1>1. CASE ScopeRead
  BY <1>0, <1>1 DEF ScopeRead, DispatchInitiator, TypeOK, RunType, Moved
<1>2. CASE InitialReturns
  BY <1>2 DEF InitialReturns, ChainIdle, Dropped, GoTo, TypeOK, RunType
<1>3. CASE HopsPrepared
  <2>1. run'.step = "hops"
    BY <1>3 DEF HopsPrepared, TypeOK, RunType, Moved
  <2>2. ~InFlight(Initiator)'
    BY <1>0, <1>3 DEF HopsPrepared, TypeOK
  <2> QED BY <2>1, <2>2
<1>4. CASE ChainThrows
  BY <1>4 DEF ChainThrows, ChainIdle, Fail, TypeOK
<1>5. CASE Barrier
  BY <1>5 DEF Barrier, ChainIdle, TypeOK
<1>6. CASE EvidenceAppended
  <2>1. \A t \in Targets : ~InFlight(t)
    BY <1>6 DEF EvidenceAppended
  <2>2. ~InFlight(Initiator)
    BY <1>6 DEF EvidenceAppended
  <2>3. CASE Dropped /\ ChainIdle
    BY <2>1, <2>2, <2>3 DEF ChainIdle
  <2>4. CASE DispatchInitiator("summary", {})
    <3>1. run'.step = "summary"
      BY <2>4 DEF DispatchInitiator, Moved, TypeOK, RunType
    <3>2. \A t \in Targets : task'[t] = task[t]
      BY <1>0, <2>4 DEF DispatchInitiator, TypeOK
    <3> QED BY <2>1, <3>1, <3>2
  <2> QED BY <1>6, <2>3, <2>4 DEF EvidenceAppended
<1>7. CASE SummaryReturns
  BY <1>7 DEF SummaryReturns, ChainIdle, AskExecution
<1>8. CASE GateDeadline \/ GateTop \/ GateMarkerRead \/ GateWakes \/ GateAsked
             \/ GateConfirmed \/ TailRead
  BY <1>8 DEF GateDeadline, GateTop, GateMarkerRead, GateWakes, GateAsked,
              GateConfirmed, TailRead, ChainIdle, AskExecution
<1> QED BY <1>1, <1>2, <1>3, <1>4, <1>5, <1>6, <1>7, <1>8 DEF ChainStep

(* The steps of neither the chain nor a dispatch: the cancel call and timers. *)
Outer == Cancel \/ CancelEnds \/ Flush \/ Cleanup \/ Settled \/ UNCHANGED vars

LEMMA OuterCases ==
  ASSUME TypeOK, Outer
  PROVE  /\ UNCHANGED <<hop, task, tally, late>>
         /\ run'.step = run.step
         /\ run'.round = run.round
         /\ run'.remaining = run.remaining
         /\ run.cancelled => run'.cancelled
         /\ ~run'.cancelled => \/ run' = run
                               \/ stop.pending > 0
BY DEF Outer, Cancel, CancelEnds, Flush, Cleanup, Settled, vars, TypeOK, RunType

LEMMA PlacedStep ==
  ASSUME TypeOK, Placed, [Next]_vars
  PROVE  Placed'
<1>1. CASE \E s \in Sessions : TaskStep(s)
  BY <1>1, PlacedTask
<1>2. CASE ChainStep
  BY <1>2, PlacedChain
<1>3. CASE Outer
  BY <1>3, OuterCases DEF Placed, InFlight
<1> QED BY <1>1, <1>2, <1>3 DEF Next, Outer

LEMMA ReachedTask ==
  ASSUME TypeOK, Placed, Reached, NEW s \in Sessions, TaskStep(s)
  PROVE  Reached'
<1>0. Initiator \in Sessions /\ Targets \subseteq Sessions /\ Initiator \notin Targets
  BY P2pAssumption DEF Sessions
<1>1. CASE Returns(s)
  <2>1. stop' = stop /\ run'.cancelled = run.cancelled
    BY <1>1 DEF Returns, Finish, SameRun
  <2>2. ASSUME ~run.cancelled, InFlight(Initiator)'
        PROVE  run'.current = Initiator
    <3>1. InFlight(Initiator) /\ InFlight(s) /\ s # Initiator
      BY <1>0, <1>1, <2>2, TaskAfterReturn DEF Returns, InFlight
    <3>2. s \in Targets
      BY <3>1 DEF Sessions
    <3> QED BY <3>1, <3>2 DEF Placed
  <2>3. ASSUME ~run.cancelled, NEW t \in Targets, InFlight(t)'
        PROVE  t \in run'.active
    BY <1>0, <1>1, <2>3, TaskAfterReturn DEF Returns, InFlight, Reached
  <2> QED BY <2>1, <2>2, <2>3 DEF Reached
<1>2. CASE GoesOn(s)
  <2>1. stop' = stop
    BY DEF TaskStep, At, BeginAttempt, DispatchThrows, SendPrompt, SendFails,
           BackoffEnds, PollBegins, PollFindsNothing, PollFindsGrowth,
           PollFindsAnswer, PollFindsIdle, DeadlinePasses, Recheck
  <2> QED BY <1>0, <1>2, <2>1 DEF Reached, GoesOn, InFlight, SameRun
<1>3. CASE DispatchThrows(s)
  <2>1. /\ stop' = stop
        /\ run'.cancelled = run.cancelled
        /\ run'.current = run.current
        /\ run'.active = run.active
    BY <1>3 DEF DispatchThrows, At, Fail, Moved, TypeOK, RunType
  <2> QED BY <1>0, <1>3, <2>1, TaskAfterThrow DEF Reached, InFlight
<1> QED BY <1>1, <1>2, <1>3, TaskCases

LEMMA ReachedChain ==
  ASSUME TypeOK, Placed, Reached, ChainStep
  PROVE  Reached'
<1>0. Initiator \in Sessions /\ Targets \subseteq Sessions /\ Initiator \notin Targets
  BY P2pAssumption DEF Sessions
<1> DEFINE Quiet == /\ UNCHANGED <<task, stop>>
                    /\ run'.cancelled = run.cancelled
                    /\ run'.current = run.current
                    /\ run'.active = run.active
<1>1. ASSUME Quiet PROVE Reached'
  BY <1>1 DEF Reached, InFlight
<1>2. ASSUME NEW step, NEW R, DispatchInitiator(step, R), \A t \in Targets : ~InFlight(t)
      PROVE  Reached'
  <2>1. /\ stop' = stop
        /\ run'.cancelled = run.cancelled
        /\ run'.current = Initiator
    BY <1>2 DEF DispatchInitiator, Moved, TypeOK, RunType
  <2>2. \A t \in Targets : ~InFlight(t)'
    BY <1>0, <1>2 DEF DispatchInitiator, InFlight, TypeOK
  <2> QED BY <2>1, <2>2 DEF Reached
<1>3. CASE ScopeRead
  BY <1>2, <1>3 DEF ScopeRead, Placed
<1>4. CASE HopsPrepared
  <2>1. stop' = stop /\ run'.cancelled = run.cancelled /\ run'.active = Targets
    <3>1. CASE run.cancelled
      BY <1>4, <3>1 DEF HopsPrepared, TypeOK, RunType
    <3>2. CASE ~run.cancelled
      <4>1. PICK last \in Targets :
              run' = [Moved("dispatched", "hops") EXCEPT !.active = Targets,
                                                         !.current = last]
        BY <1>4, <3>2 DEF HopsPrepared
      <4>2. run'.cancelled = run.cancelled /\ run'.active = Targets
        BY <4>1 DEF Moved, TypeOK, RunType
      <4> QED BY <1>4, <4>2 DEF HopsPrepared
    <3> QED BY <3>1, <3>2
  <2>2. ~InFlight(Initiator)'
    BY <1>0, <1>4 DEF HopsPrepared, TypeOK, Placed, InFlight
  <2> QED BY <2>1, <2>2 DEF Reached
<1>5. CASE Barrier
  <2>1. UNCHANGED <<task, stop>> /\ run'.cancelled = run.cancelled
    BY <1>5 DEF Barrier, ChainIdle, TypeOK, RunType
  <2>2. ~InFlight(Initiator) /\ \A t \in Targets : ~InFlight(t)
    BY <1>5 DEF Barrier, Placed
  <2> QED BY <2>1, <2>2 DEF Reached, InFlight
<1>6. CASE EvidenceAppended
  <2>1. CASE Dropped /\ ChainIdle
    BY <1>1, <2>1 DEF Dropped, GoTo, ChainIdle, TypeOK, RunType
  <2> QED BY <1>2, <1>6, <2>1 DEF EvidenceAppended, Placed
<1>7. CASE InitialReturns \/ ChainThrows \/ GateDeadline \/ GateTop
             \/ GateMarkerRead \/ GateWakes \/ TailRead
  <2>1. Quiet
    BY <1>7 DEF InitialReturns, ChainThrows, GateDeadline, GateTop, GateMarkerRead,
                GateWakes, TailRead, ChainIdle, Dropped, GoTo, Fail, Moved,
                TypeOK, RunType
  <2> QED BY <1>1, <2>1
<1>8. CASE SummaryReturns \/ GateAsked \/ GateConfirmed
  <2>1. ASSUME Dropped /\ ChainIdle PROVE Quiet
    BY <2>1 DEF Dropped, GoTo, ChainIdle, TypeOK, RunType
  <2>2. ASSUME GoTo("gateTop") /\ ChainIdle PROVE Quiet
    BY <2>2 DEF GoTo, ChainIdle, TypeOK, RunType
  <2>3. ASSUME NextRound /\ ChainIdle PROVE Quiet
    BY <2>3, NextRoundEffect DEF ChainIdle
  <2>4. ASSUME NEW n, AskExecution(n)
        PROVE  Quiet
    BY <2>4 DEF AskExecution, TypeOK, RunType
  <2>5. Quiet
    BY <1>8, <2>1, <2>2, <2>3, <2>4 DEF SummaryReturns, GateAsked, GateConfirmed
  <2> QED BY <1>1, <2>5
<1> QED BY <1>3, <1>4, <1>5, <1>6, <1>7, <1>8 DEF ChainStep

LEMMA ReachedStep ==
  ASSUME TypeOK, Placed, Reached, [Next]_vars
  PROVE  Reached'
<1>1. CASE \E s \in Sessions : TaskStep(s)
  BY <1>1, ReachedTask
<1>2. CASE ChainStep
  BY <1>2, ReachedChain
<1>3. CASE Outer
  <2>1. stop'.pending > 0 => run'.cancelled
    BY <1>3 DEF Outer, Cancel, CancelEnds, Flush, Cleanup, Settled, vars, TypeOK,
                RunType, Reached
  <2> QED BY <1>3, <2>1, OuterCases DEF Reached, InFlight
<1> QED BY <1>1, <1>2, <1>3 DEF Next, Outer

LEMMA TallyEffect ==
  ASSUME TypeOK, NEW s \in Sessions, NEW o \in HopEnded, Finish(s, o),
         NEW t \in Targets
  PROVE  Hops(t)' = IF t = s /\ (o # "completed" \/ s \in run.remaining)
                    THEN Hops(t) + 1
                    ELSE Hops(t)
<1>0. t \in Sessions
  BY DEF Sessions
<1>1. /\ tally.done \in [Targets -> Nat]
      /\ tally.skipped \in [Sessions -> Nat]
      /\ tally.done[t] \in Nat
      /\ tally.skipped[t] \in Nat
      /\ run.remaining \subseteq Targets
  BY <1>0 DEF TypeOK, RunType
<1>2. tally' = Tallied(s, o)
  BY DEF Finish
<1>3. CASE o # "completed"
  <2>1. tally'.done = tally.done
    BY <1>2, <1>3 DEF Tallied, TypeOK
  <2>2. tally'.skipped = [tally.skipped EXCEPT ![s] = @ + 1]
    BY <1>2, <1>3 DEF Tallied, TypeOK
  <2> QED BY <1>0, <1>1, <1>3, <2>1, <2>2 DEF Hops
<1>4. CASE o = "completed" /\ s \in run.remaining
  <2>1. tally'.skipped = tally.skipped
    BY <1>2, <1>4 DEF Tallied, TypeOK
  <2>2. tally'.done = [tally.done EXCEPT ![s] = @ + 1]
    BY <1>2, <1>4 DEF Tallied, TypeOK
  <2> QED BY <1>0, <1>1, <1>4, <2>1, <2>2 DEF Hops
<1>5. CASE o = "completed" /\ s \notin run.remaining
  BY <1>2, <1>5 DEF Tallied, Hops
<1> QED BY <1>3, <1>4, <1>5

LEMMA CountedTask ==
  ASSUME TypeOK, Placed, AllCounted, NEW s \in Sessions, TaskStep(s)
  PROVE  AllCounted'
<1>0. Initiator \in Sessions /\ Targets \subseteq Sessions /\ Initiator \notin Targets
  BY P2pAssumption DEF Sessions
<1>1. InFlight(s) /\ run.remaining \subseteq Targets
  BY TaskCases DEF TypeOK, RunType
<1>2. CASE Returns(s)
  <2>1. PICK o \in HopEnded : Finish(s, o)
    BY <1>2 DEF Returns
  <2>2. /\ run'.step = run.step
        /\ run'.round = run.round
        /\ run'.cancelled = run.cancelled
        /\ run'.remaining = run.remaining \ {s}
    BY <1>2 DEF Returns, SameRun
  <2>3. CASE s = Initiator
    <3>1. run.step # "hops"
      BY <1>1, <2>3 DEF Placed
    <3>2. run'.remaining = run.remaining
      BY <1>0, <1>1, <2>2, <2>3
    <3>3. \A t \in Targets : Hops(t)' = Hops(t)
      BY <1>0, <2>1, <2>3, TallyEffect
    <3> QED BY <2>2, <3>1, <3>2, <3>3 DEF AllCounted, Counted
  <2>4. CASE s \in Targets
    <3>1. run.step = "hops"
      BY <1>1, <2>4 DEF Placed
    <3>2. hop' = [hop EXCEPT ![s] = o]
      BY <2>1, <2>4 DEF Finish
    <3>3. ASSUME NEW t \in Targets \ Foreign
          PROVE  Counted(t)'
      <4>1. /\ InFlight(t) => hop[t] \notin HopEnded /\ t \in run.remaining
            /\ ~InFlight(t) => hop[t] \in HopEnded \/ run.cancelled
            /\ Hops(t) = IF hop[t] \in HopEnded THEN run.round ELSE run.round - 1
        BY <3>1 DEF AllCounted, Counted
      <4>2. CASE t = s
        <5>1. hop'[t] = o /\ ~InFlight(t)'
          BY <1>2, <3>2, <4>2, TaskAfterReturn DEF TypeOK
        <5>2. Hops(t)' = Hops(t) + 1
          BY <1>1, <2>1, <4>1, <4>2, TallyEffect
        <5>3. run.round \in Nat
          BY RoundsPositive DEF TypeOK, RunType
        <5>4. Hops(t)' = run.round
          BY <1>1, <4>1, <4>2, <5>2, <5>3
        <5> QED BY <2>2, <3>1, <5>1, <5>4 DEF Counted, Early
      <4>3. CASE t # s
        <5>1. hop'[t] = hop[t] /\ task'[t] = task[t]
          BY <1>0, <1>2, <3>2, <4>3, TaskAfterReturn DEF TypeOK
        <5>2. Hops(t)' = Hops(t)
          BY <2>1, <4>3, TallyEffect
        <5>3. t \in run.remaining => t \in run'.remaining
          BY <2>2, <4>3
        <5> QED BY <2>2, <3>1, <4>1, <5>1, <5>2, <5>3 DEF Counted, InFlight, Early
      <4> QED BY <4>2, <4>3
    <3> QED BY <2>2, <3>1, <3>3 DEF AllCounted, Early
  <2> QED BY <2>3, <2>4 DEF Sessions
<1>3. CASE GoesOn(s)
  <2>1. /\ SameRun
        /\ run'.remaining = run.remaining
        /\ tally' = tally
    BY <1>3 DEF GoesOn
  <2>2. \A t \in Targets : InFlight(t)' <=> InFlight(t)
    BY <1>0, <1>1, <1>3 DEF GoesOn, InFlight
  <2>3. \A t \in Targets : hop'[t] = hop[t] \/ (t = s /\ hop'[t] = "running")
    BY <1>3 DEF GoesOn, TypeOK
  <2>4. "running" \notin HopEnded
    BY DEF HopEnded
  <2>5. ASSUME NEW t \in Targets \ Foreign
        PROVE  Counted(t)'
    <3>1. hop'[t] \in HopEnded <=> hop[t] \in HopEnded
      <4>1. CASE t = s
        <5>1. run.step = "hops" /\ InFlight(t)
          BY <1>1, <4>1 DEF Placed
        <5>2. hop[t] \notin HopEnded
          BY <5>1 DEF AllCounted, Counted
        <5> QED BY <2>3, <2>4, <5>2
      <4> QED BY <2>3, <4>1
    <3>2. Counted(t) /\ Hops(t)' = Hops(t)
      BY <2>1 DEF AllCounted, Hops
    <3> QED BY <2>1, <2>2, <3>1, <3>2 DEF Counted, SameRun
  <2> QED BY <2>1, <2>5 DEF AllCounted, SameRun
<1>4. CASE DispatchThrows(s)
  <2>1. s \in Foreign /\ hop' = hop /\ tally' = tally
    BY <1>4 DEF DispatchThrows
  <2>2. CASE s = Initiator
    <3>1. run'.step = "dropped"
      BY <1>4, <2>2 DEF DispatchThrows, Fail, Moved, TypeOK, RunType
    <3> QED BY <3>1 DEF AllCounted, Counted, Early
  <2>3. CASE s # Initiator
    <3>1. run' = run
      BY <1>4, <2>3 DEF DispatchThrows
    <3>2. \A t \in Targets \ Foreign : task'[t] = task[t]
      BY <1>0, <1>4, <2>1, TaskAfterThrow
    <3> QED BY <2>1, <3>1, <3>2 DEF AllCounted, Counted, Hops, InFlight
  <2> QED BY <2>2, <2>3
<1> QED BY <1>2, <1>3, <1>4, TaskCases

(* A step of the chain that neither dispatches participants nor ends a hop.  *)
LEMMA CountedLater ==
  ASSUME TypeOK, AllCounted, UNCHANGED <<hop, tally>>,
         run.step \notin Early \union {"hops", "done", "dropped"},
         \/ /\ run'.step \in {"dropped", "done"}
         \/ /\ run'.step \notin Early \union {"hops"}
            /\ run'.round = run.round
         \/ /\ run'.step \in Early
            /\ run'.round = run.round + 1
            /\ run'.remaining = Targets
  PROVE  AllCounted'
<1>1. run.round \in Nat
  BY RoundsPositive DEF TypeOK, RunType
<1>2. \A t \in Targets \ Foreign : Hops(t)' = run.round
  BY DEF AllCounted, Counted, Hops
<1>3. "hops" \notin Early /\ "done" \notin Early /\ "dropped" \notin Early
  BY DEF Early
<1>4. CASE run'.step \in {"dropped", "done"}
  BY <1>3, <1>4 DEF AllCounted, Counted
<1>5. CASE run'.step \notin Early \union {"hops"} /\ run'.round = run.round
  BY <1>2, <1>5 DEF AllCounted, Counted
<1>6. CASE /\ run'.step \in Early
           /\ run'.round = run.round + 1
           /\ run'.remaining = Targets
  <2>1. run'.round - 1 = run.round
    BY <1>1, <1>6
  <2> QED BY <1>2, <1>3, <1>6, <2>1 DEF AllCounted, Counted
<1> QED BY <1>4, <1>5, <1>6

LEMMA CountedChain ==
  ASSUME TypeOK, Placed, AllCounted, ChainStep
  PROVE  AllCounted'
<1> USE DEF GateSteps
<1>0. Initiator \in Sessions /\ Targets \subseteq Sessions /\ Initiator \notin Targets
  BY P2pAssumption DEF Sessions
<1>1. CASE ScopeRead
  <2>1. /\ UNCHANGED <<hop, tally>>
        /\ run'.step = "initial"
        /\ run'.round = run.round
        /\ run'.remaining = run.remaining
    BY <1>1 DEF ScopeRead, DispatchInitiator, Moved, TypeOK, RunType
  <2> QED BY <1>1, <2>1 DEF ScopeRead, AllCounted, Counted, Hops, Early
<1>2. CASE InitialReturns
  <2>1. /\ UNCHANGED <<hop, tally>>
        /\ run'.step \in {"prepare", "dropped"}
        /\ run'.round = run.round
        /\ run'.remaining = run.remaining
    BY <1>2 DEF InitialReturns, ChainIdle, Dropped, GoTo, TypeOK, RunType
  <2> QED BY <1>2, <2>1 DEF InitialReturns, AllCounted, Counted, Hops, Early
<1>3. CASE HopsPrepared
  <2>1. /\ tally' = tally
        /\ run'.step = "hops"
        /\ run'.round = run.round
        /\ run'.remaining = Targets
        /\ run'.cancelled = run.cancelled
    <3>0. run.remaining = Targets
      BY <1>3 DEF HopsPrepared, AllCounted, Early
    <3>1. CASE run.cancelled
      BY <1>3, <3>0, <3>1 DEF HopsPrepared, TypeOK, RunType
    <3>2. CASE ~run.cancelled
      <4>1. PICK last \in Targets :
              run' = [Moved("dispatched", "hops") EXCEPT !.active = Targets,
                                                         !.current = last]
        BY <1>3, <3>2 DEF HopsPrepared
      <4>2. /\ run'.step = "hops"
            /\ run'.round = run.round
            /\ run'.remaining = run.remaining
            /\ run'.cancelled = run.cancelled
        BY <4>1 DEF Moved, TypeOK, RunType
      <4> QED BY <1>3, <3>0, <4>2 DEF HopsPrepared
    <3> QED BY <3>1, <3>2
  <2>2. \A t \in Targets : hop'[t] \notin HopEnded
    BY <1>3 DEF HopsPrepared, HopEnded
  <2>3. \A t \in Targets : ~InFlight(t)' => run'.cancelled
    <3>1. CASE run.cancelled
      BY <2>1, <3>1
    <3>2. CASE ~run.cancelled
      <4>1. \A t \in Targets : task'[t] = Dispatched(t)
        BY <1>0, <1>3, <3>2 DEF HopsPrepared
      <4>2. \A t \in Targets : Dispatched(t).at # "idle"
        BY DEF Dispatched
      <4> QED BY <4>1, <4>2 DEF InFlight
    <3> QED BY <3>1, <3>2
  <2>4. \A t \in Targets \ Foreign : Hops(t)' = run.round - 1
    BY <1>3, <2>1 DEF HopsPrepared, AllCounted, Counted, Hops, Early
  <2> QED BY <2>1, <2>2, <2>3, <2>4 DEF AllCounted, Counted, Early
<1>4. CASE ChainThrows
  <2>1. run'.step = "dropped"
    BY <1>4 DEF ChainThrows, Fail, Moved, TypeOK, RunType
  <2> QED BY <2>1 DEF AllCounted, Counted, Early
<1>5. CASE Barrier
  <2>1. /\ UNCHANGED <<hop, tally>>
        /\ run'.step = IF Over THEN "dropped" ELSE "evidence"
        /\ run'.round = run.round
    BY <1>5 DEF Barrier, ChainIdle, TypeOK, RunType
  <2>2. CASE Over
    BY <2>1, <2>2 DEF AllCounted, Counted, Early
  <2>3. CASE ~Over
    <3>1. \A t \in Targets \ Foreign : Hops(t) = run.round
      BY <1>5, <2>3 DEF Barrier, Over, AllCounted, Counted
    <3> QED BY <2>1, <2>3, <3>1 DEF AllCounted, Counted, Hops, Early
  <2> QED BY <2>2, <2>3
<1>6. CASE EvidenceAppended
  <2>1. /\ UNCHANGED <<hop, tally>>
        /\ run.step = "evidence"
        /\ run'.step \in {"dropped", "summary"}
        /\ run'.round = run.round
    BY <1>6 DEF EvidenceAppended, Dropped, GoTo, ChainIdle, DispatchInitiator, Moved,
                TypeOK, RunType
  <2> QED BY <2>1, CountedLater DEF Early
<1>7. CASE SummaryReturns \/ GateAsked \/ GateConfirmed
  <2>0. run.step \in {"summary", "gateAsk", "gateAudit"}
    BY <1>7 DEF SummaryReturns, GateAsked, GateConfirmed
  <2>1. ASSUME Dropped, ChainIdle PROVE AllCounted'
    <3>1. run'.step = "dropped"
      BY <2>1 DEF Dropped, GoTo, TypeOK, RunType
    <3> QED BY <2>0, <2>1, <3>1, CountedLater DEF Early, ChainIdle
  <2>2. ASSUME GoTo("gateTop"), ChainIdle PROVE AllCounted'
    <3>1. run'.step = "gateTop" /\ run'.round = run.round
      BY <2>2 DEF GoTo, TypeOK, RunType
    <3> QED BY <2>0, <2>2, <3>1, CountedLater DEF Early, ChainIdle
  <2>3. ASSUME NextRound, ChainIdle PROVE AllCounted'
    BY <2>0, <2>3, NextRoundEffect, CountedLater DEF Early, ChainIdle
  <2>4. ASSUME NEW n, AskExecution(n) PROVE AllCounted'
    <3>1. run'.step = "gateTop" /\ run'.round = run.round /\ UNCHANGED <<hop, tally>>
      BY <2>4 DEF AskExecution, TypeOK, RunType
    <3> QED BY <2>0, <3>1, CountedLater DEF Early
  <2> QED BY <1>7, <2>1, <2>2, <2>3, <2>4 DEF SummaryReturns, GateAsked, GateConfirmed
<1>8. CASE GateDeadline \/ GateTop \/ GateMarkerRead \/ GateWakes \/ TailRead
  <2>1. /\ UNCHANGED <<hop, tally>>
        /\ run.step \in {"gateTop", "gateRead", "gateSleep", "tail"}
        /\ run'.step \in {"dropped", "done", "gateTop", "gateRead", "gateAudit",
                         "gateSleep", "gateAsk"}
        /\ run'.round = run.round
    BY <1>8 DEF GateDeadline, GateTop, GateMarkerRead, GateWakes, TailRead, ChainIdle,
                Dropped, GoTo, Fail, Moved, TypeOK, RunType
  <2> QED BY <2>1, CountedLater DEF Early
<1> QED BY <1>1, <1>2, <1>3, <1>4, <1>5, <1>6, <1>7, <1>8 DEF ChainStep

LEMMA CountedStep ==
  ASSUME TypeOK, Placed, AllCounted, [Next]_vars
  PROVE  AllCounted'
<1>1. CASE \E s \in Sessions : TaskStep(s)
  BY <1>1, CountedTask
<1>2. CASE ChainStep
  BY <1>2, CountedChain
<1>3. CASE Outer
  BY <1>3, OuterCases DEF AllCounted, Counted, Hops, InFlight
<1> QED BY <1>1, <1>2, <1>3 DEF Next, Outer

(***************************************************************************)
(* Late prompts.                                                             *)
(***************************************************************************)
LEMMA LateTask ==
  ASSUME TypeOK, Placed, LateBounds, NEW s \in Sessions, TaskStep(s)
  PROVE  LateBounds'
<1>0. Initiator \in Sessions /\ Targets \subseteq Sessions /\ Initiator \notin Targets
  BY P2pAssumption DEF Sessions
<1>1. InFlight(s)
  BY TaskCases
<1>2. CASE Returns(s)
  <2>1. late' = late /\ SameRun
    BY <1>2 DEF Returns, Finish
  <2>2. \A z \in Sessions : task'[z].at = "stat" => task[z].at = "stat"
    BY <1>2, TaskAfterReturn DEF InFlight
  <2> QED BY <2>1, <2>2 DEF LateBounds, SameRun
<1>3. CASE DispatchThrows(s)
  <2>1. late' = late /\ run'.cancelled = run.cancelled
    BY <1>3 DEF DispatchThrows, Fail, Moved, TypeOK, RunType
  <2>2. \A z \in Sessions : task'[z].at = "stat" => task[z].at = "stat"
    BY <1>3, TaskAfterThrow DEF InFlight
  <2>3. run'.step \in {run.step, "dropped"}
    BY <1>3 DEF DispatchThrows, Fail, Moved, TypeOK, RunType
  <2> QED BY <2>1, <2>2, <2>3 DEF LateBounds
<1>4. CASE GoesOn(s)
  <2>1. SameRun
    BY <1>4 DEF GoesOn
  <2>2. \A z \in Sessions \ {s} : task'[z] = task[z]
    BY <1>4 DEF GoesOn
  <2>3. CASE late' = late
    <3>1. task'[s].at = "stat" => late[s] = 0
      BY <1>4 DEF GoesOn, LateBounds
    <3> QED BY <2>1, <2>2, <2>3, <3>1 DEF LateBounds, SameRun
  <2>4. CASE /\ run.cancelled
             /\ task[s].at = "stat"
             /\ task'[s].at # "stat"
             /\ late' = [late EXCEPT ![s] = @ + 1]
    <3>1. late[s] = 0
      BY <2>4 DEF LateBounds
    <3>2. late'[s] = 1 /\ \A z \in Sessions \ {s} : late'[z] = late[z]
      BY <2>4, <3>1 DEF TypeOK
    <3>3. CASE s = Initiator
      <4>1. run.step \in {"initial", "summary"}
        BY <1>1, <3>3 DEF Placed
      <4>2. \A t \in Targets : late[t] = 0
        BY <4>1 DEF LateBounds
      <4>3. \A t \in Targets : late'[t] = 0
        BY <1>0, <3>2, <3>3, <4>2
      <4>4. \A z \in Sessions : late'[z] <= 1 /\ (task'[z].at = "stat" => late'[z] = 0)
        BY <2>2, <2>4, <3>2 DEF LateBounds
      <4> QED BY <2>1, <2>4, <4>1, <4>3, <4>4 DEF LateBounds, SameRun
    <3>4. CASE s \in Targets
      <4>1. run.step = "hops"
        BY <1>1, <3>4 DEF Placed
      <4>2. late'[Initiator] = 0
        BY <1>0, <3>2, <3>4, <4>1 DEF LateBounds
      <4>4. \A z \in Sessions : late'[z] <= 1 /\ (task'[z].at = "stat" => late'[z] = 0)
        BY <2>2, <2>4, <3>2 DEF LateBounds
      <4> QED BY <2>1, <2>4, <4>1, <4>2, <4>4 DEF LateBounds, SameRun
    <3> QED BY <3>3, <3>4 DEF Sessions
  <2> QED BY <1>4, <2>3, <2>4 DEF GoesOn
<1> QED BY <1>2, <1>3, <1>4, TaskCases

(* A step that sends no late prompt and brings no call to the point of one.  *)
LEMMA LateQuiet ==
  ASSUME LateBounds, late' = late, run'.cancelled = run.cancelled,
         \A s \in Sessions : task'[s].at = "stat" => late[s] = 0,
         run'.step = "gateAsk" => late[Initiator] = 0,
         late[Initiator] # 0 =>
           run'.step \in {"initial", "summary", "gateTop", "dropped"},
         \A t \in Targets : late[t] # 0 => run'.step \in {"hops", "dropped"}
  PROVE  LateBounds'
BY DEF LateBounds

(* A chain step out of a step where nobody has had a late prompt, or where    *)
(* the flag was just looked at.                                              *)
LEMMA LateNone ==
  ASSUME TypeOK, LateBounds, late' = late, run'.cancelled = run.cancelled,
         \A s \in Sessions : late[s] = 0
  PROVE  LateBounds'
BY DEF LateBounds, TypeOK, Sessions

LEMMA LateDropped ==
  ASSUME TypeOK, LateBounds, ChainIdle, run'.step = "dropped",
         run'.cancelled = run.cancelled
  PROVE  LateBounds'
BY DEF LateBounds, ChainIdle

LEMMA LateChain ==
  ASSUME TypeOK, Placed, LateBounds, ChainStep
  PROVE  LateBounds'
<1>0. Initiator \in Sessions /\ Targets \subseteq Sessions /\ Initiator \notin Targets
  BY P2pAssumption DEF Sessions
<1>a. run.step \notin {"initial", "summary", "gateTop", "hops", "dropped"}
        => \A s \in Sessions : late[s] = 0
  BY DEF LateBounds, Sessions
<1>b. ~Over => \A s \in Sessions : late[s] = 0
  BY DEF LateBounds, Over
<1>c. ASSUME Dropped, ChainIdle PROVE LateBounds'
  <2>1. run'.step = "dropped" /\ run'.cancelled = run.cancelled
    BY <1>c DEF Dropped, GoTo, TypeOK, RunType
  <2> QED BY <1>c, <2>1, LateDropped
<1>d. ASSUME NEW st, Fail(st), ChainIdle PROVE LateBounds'
  <2>1. run'.step = "dropped" /\ run'.cancelled = run.cancelled
    BY <1>d DEF Fail, Moved, TypeOK, RunType
  <2> QED BY <1>d, <2>1, LateDropped
<1>e. ASSUME NEW st, GoTo(st), ChainIdle, \A s \in Sessions : late[s] = 0
      PROVE  LateBounds'
  BY <1>e, LateNone DEF GoTo, ChainIdle, TypeOK, RunType
<1>f. ASSUME NextRound, ChainIdle, \A s \in Sessions : late[s] = 0
      PROVE  LateBounds'
  BY <1>f, LateNone, NextRoundEffect DEF ChainIdle
<1>g. ASSUME NEW n, AskExecution(n), \A s \in Sessions : late[s] = 0,
             ~run.cancelled \/ run.step = "gateAsk"
      PROVE  LateBounds'
  <2>1. /\ run'.step = "gateTop"
        /\ run'.cancelled = run.cancelled
        /\ task' = task
    BY <1>g DEF AskExecution, TypeOK, RunType
  <2>2. /\ late'[Initiator] = IF run.cancelled THEN 1 ELSE 0
        /\ \A t \in Targets : late'[t] = 0
    BY <1>0, <1>g DEF AskExecution, TypeOK
  <2>3. task[Initiator].at # "stat" \/ run.step \in {"initial", "summary"}
    BY DEF Placed, InFlight
  <2>4. ~run.cancelled \/ task[Initiator].at # "stat"
    BY <1>g, <2>3
  <2> QED BY <2>1, <2>2, <2>4 DEF LateBounds, Sessions
<1>1. CASE ScopeRead
  BY <1>1, <1>a, LateNone DEF ScopeRead, DispatchInitiator, Moved, TypeOK, RunType
<1>2. CASE InitialReturns
  BY <1>2, <1>b, <1>c, <1>e DEF InitialReturns
<1>3. CASE HopsPrepared
  <2>1. run'.cancelled = run.cancelled
    <3>1. CASE run.cancelled
      BY <1>3, <3>1 DEF HopsPrepared, TypeOK, RunType
    <3>2. CASE ~run.cancelled
      <4>1. PICK last \in Targets :
              run' = [Moved("dispatched", "hops") EXCEPT !.active = Targets,
                                                         !.current = last]
        BY <1>3, <3>2 DEF HopsPrepared
      <4> QED BY <4>1 DEF Moved, TypeOK, RunType
    <3> QED BY <3>1, <3>2
  <2>2. late' = late /\ \A s \in Sessions : late[s] = 0
    BY <1>3, <1>a DEF HopsPrepared
  <2> QED BY <2>1, <2>2, LateNone
<1>4. CASE ChainThrows
  BY <1>4, <1>d DEF ChainThrows
<1>5. CASE Barrier
  <2>1. CASE Over
    BY <1>5, <2>1, LateDropped DEF Barrier, ChainIdle, TypeOK, RunType
  <2>2. CASE ~Over
    BY <1>5, <2>2, <1>b, LateNone DEF Barrier, ChainIdle, TypeOK, RunType
  <2> QED BY <2>1, <2>2
<1>6. CASE EvidenceAppended
  <2>1. ASSUME ~Over, DispatchInitiator("summary", {}) PROVE LateBounds'
    BY <2>1, <1>b, LateNone DEF DispatchInitiator, Moved, TypeOK, RunType
  <2> QED BY <1>6, <1>c, <2>1 DEF EvidenceAppended
<1>7. CASE SummaryReturns
  BY <1>7, <1>b, <1>c, <1>f, <1>g DEF SummaryReturns, Over
<1>8. CASE GateDeadline
  BY <1>8, <1>d DEF GateDeadline
<1>9. CASE GateTop
  BY <1>9, <1>b, <1>c, <1>e DEF GateTop
<1>10. CASE GateMarkerRead
  BY <1>10, <1>a, <1>d, <1>e DEF GateMarkerRead
<1>11. CASE GateWakes
  BY <1>11, <1>b, <1>c, <1>e DEF GateWakes
<1>12. CASE GateAsked
  BY <1>12, <1>a, <1>e, <1>g DEF GateAsked
<1>13. CASE GateConfirmed
  BY <1>13, <1>b, <1>c, <1>f DEF GateConfirmed
<1>14. CASE TailRead
  BY <1>14, <1>a, LateNone DEF TailRead, ChainIdle, Moved, TypeOK, RunType
<1> QED BY <1>1, <1>2, <1>3, <1>4, <1>5, <1>6, <1>7, <1>8, <1>9, <1>10, <1>11,
           <1>12, <1>13, <1>14 DEF ChainStep

LEMMA LateStep ==
  ASSUME TypeOK, Placed, LateBounds, [Next]_vars
  PROVE  LateBounds'
<1>1. CASE \E s \in Sessions : TaskStep(s)
  BY <1>1, LateTask
<1>2. CASE ChainStep
  BY <1>2, LateChain
<1>3. CASE Outer
  BY <1>3, OuterCases DEF LateBounds
<1> QED BY <1>1, <1>2, <1>3 DEF Next, Outer

(***************************************************************************)
(* The theorems about the states.                                            *)
(***************************************************************************)
LEMMA InitInv == Init => IInv
<1> SUFFICES ASSUME Init PROVE IInv
  OBVIOUS
<1>0. Initiator \in Sessions /\ Targets \subseteq Sessions /\ Initiator \notin Targets
  BY P2pAssumption DEF Sessions
<1>1. TypeOK
  BY InitType
<1>2. Placed /\ Reached
  BY <1>0 DEF Init, Placed, Reached, InFlight, Idle
<1>3. AllCounted
  BY <1>0 DEF Init, AllCounted, Counted, Hops, Early
<1>4. LateBounds
  BY <1>0 DEF Init, LateBounds
<1> QED BY <1>1, <1>2, <1>3, <1>4 DEF IInv

LEMMA Invariance == Spec => []IInv
<1>1. Init => IInv
  BY InitInv
<1>2. IInv /\ [Next]_vars => IInv'
  BY TypeStep, PlacedStep, ReachedStep, CountedStep, LateStep DEF IInv
<1> QED BY <1>1, <1>2, PTL DEF Spec

(* A cancel reaches every session with a dispatch in flight.                 *)
THEOREM CancelReachesAll == Spec => []InFlightIsReachable
<1>1. IInv => InFlightIsReachable
  BY P2pAssumption DEF IInv, Placed, Reached, InFlightIsReachable, Sessions
<1> QED BY <1>1, Invariance, PTL

(* Every hop of every round is counted exactly once.                         *)
THEOREM EveryHopAccounted == Spec => []HopsAccounted
<1>1. IInv => HopsAccounted
  BY DEF IInv, AllCounted, Counted, HopsAccounted, Hops, Early
<1> QED BY <1>1, Invariance, PTL

(* A cancelled run sends each session at most one more prompt.               *)
THEOREM LatePromptsBounded == Spec => []FewLatePrompts
<1>1. IInv => FewLatePrompts
  BY DEF IInv, LateBounds, FewLatePrompts
<1> QED BY <1>1, Invariance, PTL

(***************************************************************************)
(* The run implements the discussion.  Every cycle has CycleLength rounds, so *)
(* the last round ends one: that is arithmetic the solver needs in steps.     *)
(***************************************************************************)
LEMMA MultipleAtLeast ==
  ASSUME NEW b \in Nat \ {0}, NEW k \in Int, k >= 1
  PROVE  b * k >= b
<1>1. b * (k - 1) >= 0
  BY SMT
<1>2. b * k = b * (k - 1) + b
  BY SMT
<1> QED BY <1>1, <1>2

LEMMA SmallMultipleIsZero ==
  ASSUME NEW b \in Nat \ {0}, NEW k \in Int, NEW r \in 0..(b - 1), r = b * k
  PROVE  r = 0
<1>1. CASE k >= 1
  BY <1>1, MultipleAtLeast
<1>2. CASE k = 0
  BY <1>2
<1>3. CASE k <= -1
  <2>1. b * (-k) >= b
    BY <1>3, MultipleAtLeast
  <2>2. b * (-k) = -(b * k)
    OBVIOUS
  <2> QED BY <2>1, <2>2
<1> QED BY <1>1, <1>2, <1>3

LEMMA LastRoundEndsCycle == CycleEnds(Rounds)
<1> DEFINE q == Rounds \div CycleLength
           r == Rounds % CycleLength
<1>0. Cycles \in Nat /\ CycleLength \in Nat \ {0}
  BY P2pAssumption
<1>1. Rounds \in Nat
  BY RoundsPositive
<1>2. r \in 0..(CycleLength - 1) /\ q \in Int /\ Rounds = CycleLength * q + r
  BY <1>0, <1>1
<1>3. Cycles * CycleLength = CycleLength * Cycles
  BY <1>0
<1>4. r = CycleLength * (Cycles - q)
  BY <1>0, <1>2, <1>3 DEF Rounds
<1> QED BY <1>0, <1>2, <1>4, SmallMultipleIsZero DEF CycleEnds

(* The gate is entered at the end of a cycle, the tail after the last round.  *)
CycleOver ==
  /\ run.step \in GateSteps => CycleEnds(run.round)
  /\ run.step = "tail" => run.round = Rounds

DInv == TypeOK /\ Placed /\ CycleOver

DiscussionStep == [Discussion!Next]_(Discussion!vars)

LEMMA SameDiscussion ==
  ASSUME run'.step = run.step, run'.round = run.round,
         \A t \in Targets : task'[t] = task[t]
  PROVE  DiscussionStep /\ (CycleOver => CycleOver')
<1>1. Phase' = Phase
  BY DEF Phase, GateSteps
<1>2. Heard' = Heard
  BY DEF Heard, InFlight
<1> QED BY <1>1, <1>2 DEF DiscussionStep, Discussion!vars, CycleOver

(* A run that is not over may be dropped from wherever it stands.            *)
LEMMA DropsDiscussion ==
  ASSUME DInv, run.step \notin {"done", "dropped"}, run'.step = "dropped",
         run'.round = run.round
  PROVE  DiscussionStep /\ CycleOver'
<1>0. run.step \in Steps
  BY DEF DInv, TypeOK, RunType
<1>1. Phase \notin {"complete", "dropped"} /\ Phase' = "dropped" /\ Heard' = {}
  <2>1. Phase \notin {"complete", "dropped"}
    <3>1. CASE run.step \in GateSteps \union {"tail"}
      BY <3>1 DEF Phase, GateSteps
    <3>2. CASE run.step \in {"initial", "scope", "prepare", "hops", "evidence", "summary"}
      BY <3>2 DEF Phase, GateSteps
    <3> QED BY <1>0, <3>1, <3>2 DEF Steps
  <2>2. Phase' = "dropped" /\ Heard' = {}
    BY DEF Phase, GateSteps, Heard
  <2> QED BY <2>1, <2>2
<1>2. Discussion!Drop
  BY <1>1 DEF Discussion!Drop
<1> QED BY <1>2 DEF DiscussionStep, Discussion!Next, CycleOver, GateSteps

LEMMA DiscussionTask ==
  ASSUME DInv, NEW s \in Sessions, TaskStep(s)
  PROVE  DiscussionStep /\ CycleOver'
<1>0. Initiator \in Sessions /\ Targets \subseteq Sessions /\ Initiator \notin Targets
  BY P2pAssumption DEF Sessions
<1>1. InFlight(s) /\ \A z \in Sessions \ {s} : task'[z] = task[z]
  BY TaskCases, TaskAfterReturn, TaskAfterThrow DEF DInv, GoesOn
<1>2. CASE s = Initiator
  <2>1. \A t \in Targets : task'[t] = task[t]
    BY <1>0, <1>1, <1>2
  <2>2. CASE SameRun
    BY <2>1, <2>2, SameDiscussion DEF SameRun, DInv
  <2>3. CASE DispatchThrows(s)
    <3>1. run'.step = "dropped" /\ run'.round = run.round
      BY <1>2, <2>3 DEF DispatchThrows, Fail, Moved, DInv, TypeOK, RunType
    <3>2. run.step \notin {"done", "dropped"}
      BY <1>1, <1>2 DEF DInv, Placed
    <3> QED BY <3>1, <3>2, DropsDiscussion
  <2> QED BY <2>2, <2>3, TaskCases DEF DInv, Returns, GoesOn
<1>3. CASE s \in Targets
  <2>1. run.step = "hops"
    BY <1>1, <1>3 DEF DInv, Placed
  <2>2. SameRun
    BY <1>0, <1>3, TaskCases DEF DInv, Returns, GoesOn, DispatchThrows, SameRun
  <2>3. Phase = "discussing" /\ Phase' = "discussing"
    BY <2>1, <2>2 DEF Phase, GateSteps, SameRun
  <2>4. /\ Heard = {t \in Targets : ~InFlight(t)}
        /\ Heard' = {t \in Targets : ~InFlight(t)'}
    BY <2>1, <2>2 DEF Heard, SameRun
  <2>5. Heard' \in SUBSET Targets /\ Heard \subseteq Heard'
    BY <1>0, <1>1, <2>4 DEF InFlight
  <2>6. Discussion!Hear \/ UNCHANGED Discussion!vars
    BY <2>2, <2>3, <2>5 DEF Discussion!Hear, Discussion!vars, SameRun
  <2>7. CycleOver'
    BY <2>1, <2>2 DEF CycleOver, SameRun, GateSteps
  <2> QED BY <2>6, <2>7 DEF DiscussionStep, Discussion!Next
<1> QED BY <1>2, <1>3 DEF Sessions

LEMMA DiscussionNextRound ==
  ASSUME DInv, NextRound, ChainIdle,
         \/ run.step = "summary" /\ ~CycleEnds(run.round)
         \/ run.step \in GateSteps
  PROVE  DiscussionStep /\ CycleOver'
<1>0. run.round \in 1..Rounds /\ Rounds \in Nat
  BY RoundsPositive DEF DInv, TypeOK, RunType
<1>1. CASE run.round < Rounds
  <2>1. /\ run'.round = run.round + 1
        /\ run'.step = IF CycleEnds(run.round) THEN "scope" ELSE "prepare"
    BY <1>1, NextRoundEffect DEF DInv
  <2>2. Heard' = {}
    BY <2>1 DEF Heard
  <2>3. CASE run.step = "summary" /\ ~CycleEnds(run.round)
    <3>1. Phase = "summarising" /\ Phase' = "discussing"
      BY <2>1, <2>3 DEF Phase, GateSteps
    <3>2. ~Discussion!CycleEnds(run.round) /\ run.round < Discussion!Rounds
      BY <1>1, <2>3 DEF Discussion!CycleEnds, CycleEnds, Discussion!Rounds, Rounds
    <3>3. Discussion!NextRound
      BY <2>1, <2>2, <3>1, <3>2 DEF Discussion!NextRound
    <3> QED BY <2>1, <2>3, <3>3 DEF DiscussionStep, Discussion!Next, CycleOver, GateSteps
  <2>4. CASE run.step \in GateSteps
    <3>1. CycleEnds(run.round)
      BY <2>4 DEF DInv, CycleOver
    <3>2. Phase = "executing" /\ Phase' = "analysing"
      BY <2>1, <2>4, <3>1 DEF Phase, GateSteps
    <3>3. run.round < Discussion!Rounds
      BY <1>1 DEF Discussion!Rounds, Rounds
    <3>4. Discussion!NextRound
      BY <2>1, <2>2, <3>2, <3>3 DEF Discussion!NextRound
    <3> QED BY <2>1, <3>1, <3>4 DEF DiscussionStep, Discussion!Next, CycleOver, GateSteps
  <2> QED BY <2>3, <2>4
<1>2. CASE ~(run.round < Rounds)
  <2>1. run.round = Rounds
    BY <1>0, <1>2
  <2>2. run'.round = run.round /\ run'.step = "tail"
    BY <1>2, NextRoundEffect DEF DInv
  <2>3. run.step \in GateSteps
    BY <2>1, LastRoundEndsCycle
  <2>4. Phase' = Phase
    BY <2>2, <2>3 DEF Phase, GateSteps
  <2>5. Heard' = Heard
    BY <2>2, <2>3 DEF Heard, GateSteps, ChainIdle, InFlight
  <2> QED BY <2>1, <2>2, <2>4, <2>5 DEF DiscussionStep, Discussion!vars, CycleOver, GateSteps
<1> QED BY <1>1, <1>2

(* A move of the chain within a phase.                                       *)
LEMMA WithinPhase ==
  ASSUME DInv, NEW st, GoTo(st), ChainIdle,
         run.step \in GateSteps, st \in GateSteps
  PROVE  DiscussionStep /\ CycleOver'
<1>1. run'.step = st /\ run'.round = run.round
  BY DEF GoTo, DInv, TypeOK, RunType
<1>2. Phase' = Phase
  BY <1>1 DEF Phase, GateSteps
<1>3. Heard' = Heard
  BY <1>1 DEF Heard, GateSteps, ChainIdle, InFlight
<1> QED BY <1>1, <1>2, <1>3 DEF DiscussionStep, Discussion!vars, CycleOver, DInv, GateSteps

LEMMA DiscussionAsks ==
  ASSUME DInv, NEW n, AskExecution(n),
         \/ run.step = "summary" /\ CycleEnds(run.round)
         \/ run.step \in GateSteps
  PROVE  DiscussionStep /\ CycleOver'
<1>1. run'.step = "gateTop" /\ run'.round = run.round /\ task' = task
  BY DEF AskExecution, DInv, TypeOK, RunType
<1>2. Heard' = Heard
  BY <1>1 DEF Heard, GateSteps, InFlight
<1>3. CycleOver'
  BY <1>1 DEF CycleOver, DInv, GateSteps
<1>4. CASE run.step = "summary" /\ CycleEnds(run.round)
  <2>1. Phase = "summarising" /\ Phase' = "executing"
    BY <1>1, <1>4 DEF Phase, GateSteps
  <2>2. Discussion!CycleEnds(run.round)
    BY <1>4 DEF Discussion!CycleEnds, CycleEnds
  <2>3. Discussion!Execute
    BY <1>1, <1>2, <2>1, <2>2 DEF Discussion!Execute
  <2> QED BY <1>3, <2>3 DEF DiscussionStep, Discussion!Next
<1>5. CASE run.step \in GateSteps
  <2>1. Phase' = Phase
    BY <1>1, <1>5 DEF Phase, GateSteps
  <2> QED BY <1>1, <1>2, <1>3, <2>1 DEF DiscussionStep, Discussion!vars
<1> QED BY <1>4, <1>5

LEMMA DiscussionChain ==
  ASSUME DInv, ChainStep
  PROVE  DiscussionStep /\ CycleOver'
<1>0. Initiator \in Sessions /\ Targets \subseteq Sessions /\ Initiator \notin Targets
  BY P2pAssumption DEF Sessions
<1>1. TypeOK /\ Placed
  BY DEF DInv
<1>a. ASSUME Dropped, ChainIdle, run.step \notin {"done", "dropped"}
      PROVE  DiscussionStep /\ CycleOver'
  <2>1. run'.step = "dropped" /\ run'.round = run.round
    BY <1>a, <1>1 DEF Dropped, GoTo, TypeOK, RunType
  <2> QED BY <1>a, <2>1, DropsDiscussion
<1>b. ASSUME NEW st, Fail(st), run.step \notin {"done", "dropped"}
      PROVE  DiscussionStep /\ CycleOver'
  <2>1. run'.step = "dropped" /\ run'.round = run.round
    BY <1>b, <1>1 DEF Fail, Moved, TypeOK, RunType
  <2> QED BY <1>b, <2>1, DropsDiscussion
<1>2. CASE ScopeRead
  <2>1. run.step = "scope" /\ run'.step = "initial" /\ run'.round = run.round
    BY <1>1, <1>2 DEF ScopeRead, DispatchInitiator, Moved, TypeOK, RunType
  <2>2. Phase' = Phase /\ Heard' = Heard
    BY <2>1 DEF Phase, GateSteps, Heard
  <2> QED BY <2>1, <2>2 DEF DiscussionStep, Discussion!vars, CycleOver, GateSteps
<1>3. CASE InitialReturns
  <2>1. CASE Dropped
    BY <1>3, <1>a, <2>1 DEF InitialReturns
  <2>2. CASE GoTo("prepare")
    <3>1. run.step = "initial" /\ run'.step = "prepare" /\ run'.round = run.round
      BY <1>1, <1>3, <2>2 DEF InitialReturns, GoTo, TypeOK, RunType
    <3>2. Phase = "analysing" /\ Phase' = "discussing" /\ Heard' = {}
      BY <3>1 DEF Phase, GateSteps, Heard
    <3>3. Discussion!Discuss
      BY <3>1, <3>2 DEF Discussion!Discuss
    <3> QED BY <3>1, <3>3 DEF DiscussionStep, Discussion!Next, CycleOver, GateSteps
  <2> QED BY <1>3, <2>1, <2>2 DEF InitialReturns
<1>4. CASE HopsPrepared
  <2>1. run.step = "prepare" /\ run'.step = "hops" /\ run'.round = run.round
    <3>1. CASE run.cancelled
      BY <1>1, <1>4, <3>1 DEF HopsPrepared, TypeOK, RunType
    <3>2. CASE ~run.cancelled
      <4>1. PICK last \in Targets :
              run' = [Moved("dispatched", "hops") EXCEPT !.active = Targets,
                                                         !.current = last]
        BY <1>4, <3>2 DEF HopsPrepared
      <4>2. run'.step = "hops" /\ run'.round = run.round
        BY <1>1, <4>1 DEF Moved, TypeOK, RunType
      <4> QED BY <1>4, <4>2 DEF HopsPrepared
    <3> QED BY <3>1, <3>2
  <2>2. Phase = "discussing" /\ Phase' = "discussing"
    BY <2>1 DEF Phase, GateSteps
  <2>3. Heard = {} /\ Heard' \in SUBSET Targets
    BY <2>1 DEF Heard
  <2>4. Discussion!Hear \/ UNCHANGED Discussion!vars
    BY <2>1, <2>2, <2>3 DEF Discussion!Hear, Discussion!vars
  <2> QED BY <2>1, <2>4 DEF DiscussionStep, Discussion!Next, CycleOver, GateSteps
<1>5. CASE ChainThrows
  BY <1>5, <1>b DEF ChainThrows
<1>6. CASE Barrier
  <2>1. run.step = "hops" /\ run'.round = run.round /\ ChainIdle
    BY <1>1, <1>6 DEF Barrier, TypeOK, RunType
  <2>2. CASE Over
    <3>1. run'.step = "dropped"
      BY <1>1, <1>6, <2>2 DEF Barrier, TypeOK, RunType
    <3> QED BY <2>1, <3>1, DropsDiscussion
  <2>3. CASE ~Over
    <3>1. run'.step = "evidence"
      BY <1>1, <1>6, <2>3 DEF Barrier, TypeOK, RunType
    <3>2. Phase' = Phase /\ Heard' = Heard
      BY <2>1, <3>1 DEF Phase, GateSteps, Heard, ChainIdle, InFlight
    <3> QED BY <2>1, <3>1, <3>2 DEF DiscussionStep, Discussion!vars, CycleOver, GateSteps
  <2> QED BY <2>2, <2>3
<1>7. CASE EvidenceAppended
  <2>1. CASE Dropped /\ ChainIdle
    BY <1>7, <1>a, <2>1 DEF EvidenceAppended
  <2>2. CASE DispatchInitiator("summary", {})
    <3>1. run.step = "evidence" /\ run'.step = "summary" /\ run'.round = run.round
      BY <1>1, <1>7, <2>2 DEF EvidenceAppended, DispatchInitiator, Moved, TypeOK, RunType
    <3>2. \A t \in Targets : task'[t] = task[t]
      BY <1>0, <1>1, <2>2 DEF DispatchInitiator, TypeOK
    <3>3. Heard = Targets /\ Heard' = Heard
      BY <1>1, <3>1, <3>2 DEF Heard, Placed, InFlight
    <3>4. Phase = "discussing" /\ Phase' = "summarising"
      BY <3>1 DEF Phase, GateSteps
    <3>5. Discussion!Summarise
      BY <3>1, <3>3, <3>4 DEF Discussion!Summarise
    <3> QED BY <3>1, <3>5 DEF DiscussionStep, Discussion!Next, CycleOver, GateSteps
  <2> QED BY <1>7, <2>1, <2>2 DEF EvidenceAppended
<1>8. CASE SummaryReturns
  BY <1>8, <1>a, DiscussionNextRound, DiscussionAsks DEF SummaryReturns
<1>9. CASE GateDeadline
  BY <1>9, <1>b DEF GateDeadline
<1>10. CASE GateTop
  BY <1>10, <1>a, WithinPhase DEF GateTop, GateSteps
<1>11. CASE GateMarkerRead
  BY <1>11, <1>b, WithinPhase DEF GateMarkerRead, GateSteps
<1>12. CASE GateWakes
  BY <1>12, <1>a, WithinPhase DEF GateWakes, GateSteps
<1>13. CASE GateAsked
  BY <1>13, WithinPhase, DiscussionAsks DEF GateAsked, GateSteps
<1>14. CASE GateConfirmed
  BY <1>14, <1>a, DiscussionNextRound DEF GateConfirmed, GateSteps
<1>15. CASE TailRead
  <2>1. run.step = "tail" /\ run'.step = "done" /\ run'.round = run.round
    BY <1>1, <1>15 DEF TailRead, Moved, TypeOK, RunType
  <2>2. Phase = "executing" /\ Phase' = "complete"
    BY <2>1 DEF Phase, GateSteps
  <2>3. Heard' = Heard
    BY <1>15, <2>1 DEF Heard, TailRead, ChainIdle, InFlight
  <2>4. run.round = Discussion!Rounds
    BY <2>1 DEF DInv, CycleOver, Rounds, Discussion!Rounds
  <2>5. Discussion!Complete
    BY <2>1, <2>2, <2>3, <2>4 DEF Discussion!Complete
  <2> QED BY <2>1, <2>5 DEF DiscussionStep, Discussion!Next, CycleOver, GateSteps
<1> QED BY <1>2, <1>3, <1>4, <1>5, <1>6, <1>7, <1>8, <1>9, <1>10, <1>11, <1>12,
           <1>13, <1>14, <1>15 DEF ChainStep

(* The chain, its dispatches and the cancel call are a discussion: no summary *)
(* before everyone is through, no cycle before the last one was executed,     *)
(* complete only after the last round, for any number of rounds.             *)
THEOREM ImplementsDiscussion == Spec => Discussion!Spec
<1>1. Init => DInv /\ Discussion!Init
  <2> SUFFICES ASSUME Init PROVE DInv /\ Discussion!Init
    OBVIOUS
  <2>1. TypeOK /\ Placed
    BY InitInv DEF IInv
  <2>2. run.step = "initial" /\ run.round = 1
    BY DEF Init
  <2>3. Discussion!Init
    BY <2>2 DEF Discussion!Init, Phase, GateSteps, Heard
  <2> QED BY <2>1, <2>2, <2>3 DEF DInv, CycleOver, GateSteps
<1>2. DInv /\ [Next]_vars => DInv' /\ DiscussionStep
  <2> SUFFICES ASSUME DInv, [Next]_vars PROVE DInv' /\ DiscussionStep
    OBVIOUS
  <2>1. TypeOK' /\ Placed'
    BY TypeStep, PlacedStep DEF DInv
  <2>2. CycleOver' /\ DiscussionStep
    <3>1. CASE \E s \in Sessions : TaskStep(s)
      BY <3>1, DiscussionTask
    <3>2. CASE ChainStep
      BY <3>2, DiscussionChain
    <3>3. CASE Outer
      BY <3>3, OuterCases, SameDiscussion DEF DInv
    <3> QED BY <3>1, <3>2, <3>3 DEF Next, Outer
  <2> QED BY <2>1, <2>2 DEF DInv
<1> QED BY <1>1, <1>2, PTL DEF Spec, Discussion!Spec, DiscussionStep

(***************************************************************************)
(* The ends of a run.  A status of the end set by anything but a cancel call  *)
(* leaves the chain at a look at the status, and the server hears of an end   *)
(* at once.                                                                 *)
(***************************************************************************)
Unlooked == {"scope", "prepare", "hops", "evidence", "tail"} \union GateSteps

EndsByCancel ==
  /\ run.step \in Unlooked /\ run.status \in Ended => run.cancelled
  /\ InFlight(Initiator) /\ run.status \in Ended => run.cancelled

EndIsTold == run.status \in Ended => seen.last \in Ended

EndInv == EndsByCancel /\ EndIsTold

Revives == run.status \in Ended /\ run'.status \notin Ended

(* What a step does to the status: who ends the run, and that it is told.     *)
StatusKept ==
  /\ run'.cancelled = run.cancelled
  /\ run.status \in Ended => run'.status \in Ended
  /\ EndIsTold => EndIsTold'

LEMMA AnnouncedTells ==
  ASSUME TypeOK, NEW st \in Status
  PROVE  /\ st \in Ended => Announced(st).last \in Ended
         /\ st \in Ended => Pushed(seen, st).last \in Ended
         /\ st \notin Ended => Announced(st).last = seen.last
         /\ st \notin Ended => Pushed(seen, st).last = seen.last
BY DEF TypeOK, Announced, Pushed

LEMMA FinishKeepsStatus ==
  ASSUME TypeOK, NEW s \in Sessions, InFlight(s), NEW o \in HopEnded,
         FinishAndPush(s, o) \/ (o = "cancelled" /\ FinishCancelled(s))
           \/ FinishRequired(s, o)
  PROVE  /\ StatusKept
         /\ run'.step = run.step
         /\ run'.status \in Ended /\ run.status \notin Ended
              => s = Initiator /\ ~InFlight(Initiator)'
<1>0. o \in Ended /\ o \in Status /\ run.status \in Status
  BY DEF HopEnded, Ended, Status, TypeOK, RunType
<1>1. /\ Released(s).status = run.status
      /\ Released(s).step = run.step
      /\ Released(s).cancelled = run.cancelled
      /\ Released(s) \in RunType
  BY ReleasedType DEF TypeOK, RunType, Released
<1>2. CASE run' = Released(s) /\ (seen' = seen \/ seen' = Pushed(seen, run.status))
  BY <1>0, <1>1, <1>2, AnnouncedTells DEF StatusKept, EndIsTold
<1>3. CASE /\ s = Initiator
           /\ Finish(s, o)
           /\ run' = [Released(s) EXCEPT !.status = o]
           /\ seen' = Announced(o)
  <2>1. ~InFlight(Initiator)'
    BY <1>3 DEF Finish, InFlight, Idle, TypeOK
  <2>2. /\ run'.status = o
        /\ run'.step = run.step
        /\ run'.cancelled = run.cancelled
    BY <1>1, <1>3 DEF RunType
  <2> QED BY <1>0, <1>3, <2>1, <2>2, AnnouncedTells DEF StatusKept, EndIsTold
<1> QED BY <1>2, <1>3 DEF FinishAndPush, FinishCancelled, FinishRequired

LEMMA StatusTask ==
  ASSUME TypeOK, NEW s \in Sessions, TaskStep(s)
  PROVE  /\ StatusKept
         /\ run'.step \in {run.step, "dropped"}
         /\ run'.status \in Ended /\ run.status \notin Ended
              => s = Initiator /\ ~InFlight(Initiator)'
<1> DEFINE Goal == /\ StatusKept
                   /\ run'.step \in {run.step, "dropped"}
                   /\ run'.status \in Ended /\ run.status \notin Ended
                        => s = Initiator /\ ~InFlight(Initiator)'
<1> SUFFICES Goal
  OBVIOUS
<1>0. InFlight(s)
  BY TaskCases
<1>a. ASSUME NEW o \in HopEnded,
             FinishAndPush(s, o) \/ (o = "cancelled" /\ FinishCancelled(s))
               \/ FinishRequired(s, o)
      PROVE  Goal
  BY <1>0, <1>a, FinishKeepsStatus
<1>b. ASSUME UNCHANGED <<run, seen>> PROVE Goal
  BY <1>b DEF StatusKept, EndIsTold
<1>1. CASE DispatchThrows(s)
  <2>1. CASE s = Initiator
    <3>1. /\ run'.status = "failed"
          /\ run'.step = "dropped"
          /\ run'.cancelled = run.cancelled
      BY <1>1, <2>1 DEF DispatchThrows, Fail, Moved, TypeOK, RunType
    <3>2. seen'.last \in Ended
      BY <1>1, <2>1, AnnouncedTells DEF DispatchThrows, Fail, Status, Ended
    <3> QED BY <1>1, <2>1, <3>1, <3>2, TaskAfterThrow DEF StatusKept, EndIsTold, Ended
  <2>2. CASE s # Initiator
    BY <1>1, <1>b, <2>2 DEF DispatchThrows
  <2> QED BY <2>1, <2>2
<1>2. CASE PollFindsGrowth(s)
  <2>1. CASE run.status = "dispatched"
    <3>1. /\ run'.status = "running"
          /\ run'.step = run.step
          /\ run'.cancelled = run.cancelled
      BY <1>2, <2>1 DEF PollFindsGrowth, TypeOK, RunType
    <3> QED BY <2>1, <3>1 DEF StatusKept, EndIsTold, Ended
  <2>2. CASE run.status # "dispatched"
    BY <1>2, <1>b, <2>2 DEF PollFindsGrowth
  <2> QED BY <2>1, <2>2
<1> HIDE DEF Goal
<1>3. CASE BeginAttempt(s) \/ SendPrompt(s) \/ SendFails(s) \/ BackoffEnds(s)
             \/ PollBegins(s) \/ PollFindsNothing(s)
  BY <1>3, <1>a, <1>b DEF BeginAttempt, SendPrompt, SendFails, BackoffEnds,
     PollBegins, PollFindsNothing, HopEnded
<1>4. CASE PollFindsAnswer(s) \/ PollFindsIdle(s) \/ DeadlinePasses(s) \/ Recheck(s)
  BY <1>4, <1>a, <1>b DEF PollFindsAnswer, PollFindsIdle, DeadlinePasses, Recheck,
     HopEnded
<1> QED BY <1>1, <1>2, <1>3, <1>4 DEF TaskStep

LEMMA EndTask ==
  ASSUME TypeOK, Placed, EndInv, NEW s \in Sessions, TaskStep(s)
  PROVE  EndInv' /\ ~Revives
<1>0. Initiator \in Sessions /\ Initiator \notin Targets
  BY P2pAssumption DEF Sessions
<1>1. InFlight(Initiator)' => InFlight(Initiator)
  BY <1>0, TaskCases, TaskAfterReturn, TaskAfterThrow DEF GoesOn, InFlight
<1>2. InFlight(Initiator) => run.step \notin Unlooked
  BY DEF Placed, Unlooked, GateSteps
<1>3. InFlight(s)
  BY TaskCases
<1>4. "dropped" \notin Unlooked
  BY DEF Unlooked, GateSteps
<1> HIDE DEF Unlooked
<1> QED BY <1>1, <1>2, <1>3, <1>4, StatusTask
        DEF EndInv, EndsByCancel, StatusKept, Revives

(* A step of the chain keeps an end, except for the one that does not look.   *)
LEMMA EndChain ==
  ASSUME TypeOK, Placed, EndInv, ChainStep
  PROVE  EndInv' /\ (Revives => ScopeRead /\ run.cancelled)
<1>0. Initiator \in Sessions /\ Targets \subseteq Sessions /\ Initiator \notin Targets
  BY P2pAssumption DEF Sessions
<1> DEFINE Goal == EndInv' /\ (Revives => ScopeRead /\ run.cancelled)
<1>a. ASSUME NEW st \in Steps, GoTo(st), task' = task, ~Over \/ st \notin Unlooked
                \/ run.step \in Unlooked
      PROVE  Goal
  <2>1. run' = [run EXCEPT !.step = st] /\ seen' = seen
    BY <1>a DEF GoTo
  <2>2. /\ run'.status = run.status
        /\ run'.cancelled = run.cancelled
        /\ run'.step = st
    BY <2>1 DEF TypeOK, RunType
  <2> QED BY <1>a, <2>1, <2>2
          DEF EndInv, EndsByCancel, EndIsTold, Revives, InFlight, Over
<1>b. ASSUME NEW st \in Ended, Fail(st), task' = task, run.step \in Unlooked
      PROVE  Goal
  <2>1. /\ run'.status = st
        /\ run'.cancelled = run.cancelled
        /\ run'.step = "dropped"
    BY <1>b DEF Fail, Moved, TypeOK, RunType
  <2>2. seen'.last \in Ended
    BY <1>b, AnnouncedTells DEF Fail, Status
  <2>3. run'.step \notin Unlooked
    BY <2>1 DEF Unlooked, GateSteps
  <2>4. ~InFlight(Initiator)'
    BY <1>b DEF Placed, InFlight, Unlooked, GateSteps
  <2> QED BY <1>b, <2>1, <2>2, <2>3, <2>4
          DEF EndInv, EndsByCancel, EndIsTold, Revives
<1>c. ASSUME NEW st \in Steps \ Unlooked, DispatchInitiator(st, run.remaining)
                \/ DispatchInitiator(st, {})
      PROVE  EndInv' /\ run'.status = "dispatched"
  <2>1. /\ run'.status = "dispatched"
        /\ run'.step = st
        /\ seen' = Announced("dispatched")
    BY <1>c DEF DispatchInitiator, Moved, TypeOK, RunType
  <2> QED BY <2>1 DEF EndInv, EndsByCancel, EndIsTold, Ended
<1>d. ASSUME NextRound, ChainIdle, run.step \in Unlooked \/ ~Over PROVE Goal
  <2>1. /\ run'.status = run.status
        /\ run'.cancelled = run.cancelled
        /\ seen' = seen
        /\ task' = task
    BY <1>d, NextRoundEffect DEF NextRound, GoTo, ChainIdle
  <2> QED BY <1>d, <2>1 DEF EndInv, EndsByCancel, EndIsTold, Revives, InFlight, Over
<1>e. ASSUME NEW n, AskExecution(n), ~Over \/ run.step \in Unlooked PROVE Goal
  <2>1. /\ run'.status = run.status
        /\ run'.cancelled = run.cancelled
        /\ seen' = Pushed(seen, run.status)
        /\ task' = task
    BY <1>e DEF AskExecution, TypeOK, RunType
  <2>2. EndIsTold'
    BY <2>1, AnnouncedTells DEF EndInv, EndIsTold, TypeOK, RunType
  <2> QED BY <1>e, <2>1, <2>2 DEF EndInv, EndsByCancel, Revives, InFlight, Over
<1>f. Over => "dropped" \in Steps \ Unlooked
  BY DEF Steps, Unlooked, GateSteps
<1>g. ASSUME Dropped, ChainIdle PROVE Goal
  BY <1>g, <1>a, <1>f DEF Dropped, ChainIdle
<1>h. {"initial", "summary", "done", "dropped"} \subseteq Steps \ Unlooked
      /\ Unlooked \subseteq Steps
  BY DEF Steps, Unlooked, GateSteps
<1>1. CASE ScopeRead
  <2>1. run.status \in Ended => run.cancelled
    BY <1>1 DEF ScopeRead, EndInv, EndsByCancel, Unlooked
  <2> QED BY <1>1, <1>c, <1>h, <2>1 DEF ScopeRead, Revives
<1>2. CASE InitialReturns
  BY <1>2, <1>a, <1>g, <1>h DEF InitialReturns, ChainIdle, Unlooked
<1>3. CASE HopsPrepared
  <2>0. run.step \in Unlooked
    BY <1>3 DEF HopsPrepared, Unlooked
  <2>1. CASE run.cancelled
    <3>1. /\ run'.status = run.status
          /\ run'.cancelled = run.cancelled
          /\ seen' = seen
      BY <1>3, <2>1 DEF HopsPrepared, TypeOK, RunType
    <3> QED BY <2>1, <3>1 DEF EndInv, EndsByCancel, EndIsTold, Revives
  <2>2. CASE ~run.cancelled
    <3>1. PICK last \in Targets :
            run' = [Moved("dispatched", "hops") EXCEPT !.active = Targets,
                                                       !.current = last]
      BY <1>3, <2>2 DEF HopsPrepared
    <3>2. run'.status = "dispatched"
      BY <3>1 DEF Moved, TypeOK, RunType
    <3>3. run.status \notin Ended
      BY <2>0, <2>2 DEF EndInv, EndsByCancel
    <3> QED BY <3>2, <3>3 DEF EndInv, EndsByCancel, EndIsTold, Revives, Ended
  <2> QED BY <2>1, <2>2
<1>4. CASE ChainThrows
  BY <1>4, <1>b DEF ChainThrows, ChainIdle, Unlooked, Ended
<1>5. CASE Barrier
  <2>1. /\ run'.status = run.status
        /\ run'.cancelled = run.cancelled
        /\ seen' = seen
        /\ task' = task
    BY <1>5 DEF Barrier, ChainIdle, TypeOK, RunType
  <2>2. run.step \in Unlooked
    BY <1>5 DEF Barrier, Unlooked
  <2> QED BY <2>1, <2>2 DEF EndInv, EndsByCancel, EndIsTold, Revives, InFlight
<1>6. CASE EvidenceAppended
  <2>1. ASSUME ~Over, DispatchInitiator("summary", {}) PROVE Goal
    BY <2>1, <1>c, <1>h DEF Revives, Over
  <2> QED BY <1>6, <1>g, <2>1 DEF EvidenceAppended
<1>7. CASE SummaryReturns
  BY <1>7, <1>d, <1>e, <1>g DEF SummaryReturns
<1>8. CASE GateDeadline
  BY <1>8, <1>b DEF GateDeadline, ChainIdle, Unlooked, GateSteps, Ended
<1>9. CASE GateTop
  BY <1>9, <1>a, <1>g, <1>h DEF GateTop, ChainIdle, Unlooked, GateSteps
<1>10. CASE GateMarkerRead
  <2>1. run.step \in Unlooked /\ {"gateAudit", "gateSleep"} \subseteq Unlooked
    BY <1>10 DEF GateMarkerRead, Unlooked, GateSteps
  <2>2. "failed" \in Ended
    BY DEF Ended
  <2> QED BY <1>10, <1>a, <1>b, <1>h, <2>1, <2>2 DEF GateMarkerRead, ChainIdle
<1>11. CASE GateWakes
  <2>1. {"gateTop", "gateAsk"} \subseteq Unlooked
    BY DEF Unlooked, GateSteps
  <2> QED BY <1>11, <1>a, <1>g, <1>h, <2>1 DEF GateWakes, ChainIdle
<1>12. CASE GateAsked
  <2>1. run.step \in Unlooked /\ "gateTop" \in Unlooked
    BY <1>12 DEF GateAsked, Unlooked, GateSteps
  <2> QED BY <1>12, <1>a, <1>e, <1>h, <2>1 DEF GateAsked, ChainIdle
<1>13. CASE GateConfirmed
  BY <1>13, <1>d, <1>g DEF GateConfirmed
<1>14. CASE TailRead
  <2>1. /\ run'.status = "completed"
        /\ run'.step = "done"
        /\ run'.cancelled = run.cancelled
    BY <1>14 DEF TailRead, Moved, TypeOK, RunType
  <2>2. seen'.last \in Ended
    BY <1>14, AnnouncedTells DEF TailRead, Status, Ended
  <2>3. ~InFlight(Initiator)' /\ "done" \notin Unlooked
    BY <1>14 DEF TailRead, ChainIdle, Placed, InFlight, Unlooked, GateSteps
  <2> QED BY <2>1, <2>2, <2>3 DEF EndInv, EndsByCancel, EndIsTold, Revives, Ended
<1> QED BY <1>1, <1>2, <1>3, <1>4, <1>5, <1>6, <1>7, <1>8, <1>9, <1>10, <1>11,
           <1>12, <1>13, <1>14 DEF ChainStep

LEMMA EndOuter ==
  ASSUME TypeOK, Reached, EndInv, Outer
  PROVE  EndInv' /\ ~Revives
<1>0. run'.step = run.step /\ task' = task
  BY OuterCases
<1>1. CASE Cancel
  <2>1. CASE run.status \in Ended
    <3>1. /\ run'.status = run.status
          /\ run'.cancelled
          /\ seen'.last = seen.last
      BY <1>1, <2>1 DEF Cancel, TypeOK, RunType
    <3> QED BY <2>1, <3>1 DEF EndInv, EndsByCancel, EndIsTold, Revives
  <2>2. CASE run.status \notin Ended
    <3>1. run'.cancelled
      BY <1>1, <2>2 DEF Cancel, TypeOK, RunType
    <3>2. \/ run'.status = run.status
          \/ run'.status = "cancelled" /\ seen'.last = "cancelled"
      BY <1>1, <2>2 DEF Cancel, Announced, Ended, TypeOK, RunType
    <3> QED BY <2>2, <3>1, <3>2 DEF EndInv, EndsByCancel, EndIsTold, Revives, Ended
  <2> QED BY <2>1, <2>2
<1>2. CASE CancelEnds
  <2>1. /\ run'.status = "cancelled"
        /\ seen'.last = "cancelled"
        /\ run'.cancelled
    BY <1>2 DEF CancelEnds, Announced, Ended, Reached, TypeOK, RunType
  <2> QED BY <2>1 DEF EndInv, EndsByCancel, EndIsTold, Revives, Ended
<1>3. CASE Flush \/ Cleanup
  <2>1. run' = run /\ (seen'.last = seen.last \/ seen'.last = run.status)
    BY <1>3 DEF Flush, Cleanup, TypeOK
  <2> QED BY <1>0, <2>1 DEF EndInv, EndsByCancel, EndIsTold, Revives, InFlight
<1>4. CASE Settled \/ UNCHANGED vars
  BY <1>4 DEF Settled, vars, EndInv, EndsByCancel, EndIsTold, Revives, InFlight
<1> QED BY <1>1, <1>2, <1>3, <1>4 DEF Outer

LEMMA EndStep ==
  ASSUME IInv, EndInv, [Next]_vars
  PROVE  EndInv' /\ (Revives => ScopeRead /\ run.cancelled)
<1>1. CASE \E s \in Sessions : TaskStep(s)
  BY <1>1, EndTask DEF IInv
<1>2. CASE ChainStep
  BY <1>2, EndChain DEF IInv
<1>3. CASE Outer
  BY <1>3, EndOuter DEF IInv
<1> QED BY <1>1, <1>2, <1>3 DEF Next, Outer

LEMMA EndInvariance == Spec => [](IInv /\ EndInv)
<1>1. Init => EndInv
  BY DEF Init, EndInv, EndsByCancel, EndIsTold, Ended
<1>2. IInv /\ EndInv /\ [Next]_vars => EndInv'
  BY EndStep
<1> QED BY <1>1, <1>2, Invariance, PTL DEF Spec

(* The server hears of every end: while the daemon holds a run to be over, an *)
(* end is the last thing that the server was told of it, whatever timers and  *)
(* late answers come after.                                                 *)
THEOREM EndsAreTold == Spec => [](run.status \in Ended => seen.last \in Ended)
<1>1. IInv /\ EndInv => (run.status \in Ended => seen.last \in Ended)
  BY DEF EndInv, EndIsTold
<1> QED BY <1>1, EndInvariance, PTL

(* One step alone brings a run that ended back to life: the start of the next *)
(* flow cycle, in a cancelled run, when its read of the last cycle's output   *)
(* comes back.  No late answer, no timer and no second cancel call does.      *)
EndsAreFinal == [][Revives => ScopeRead /\ run.cancelled]_vars

(* Only the chain's start of the next cycle revives a run that has ended.   *)
THEOREM OnlyTheNextCycleRevives == Spec => EndsAreFinal
<1>1. IInv /\ EndInv /\ [Next]_vars => [Revives => ScopeRead /\ run.cancelled]_vars
  BY EndStep
<1> QED BY <1>1, EndInvariance, PTL DEF Spec, EndsAreFinal

(* The next cycle starts after a whole one.                                  *)
CycleBefore == run.step = "scope" => run.round > CycleLength

LEMMA EndsLate ==
  ASSUME NEW r \in Nat \ {0}, CycleEnds(r)
  PROVE  r >= CycleLength
<1>0. CycleLength \in Nat \ {0}
  BY P2pAssumption
<1> DEFINE q == r \div CycleLength
<1>1. q \in Int /\ r = CycleLength * q
  BY <1>0 DEF CycleEnds
<1>2. CASE r < CycleLength
  <2>1. r \in 0..(CycleLength - 1)
    BY <1>0, <1>2
  <2> QED BY <1>0, <1>1, <2>1, SmallMultipleIsZero
<1> QED BY <1>0, <1>2

LEMMA CycleBeforeStep ==
  ASSUME TypeOK, CycleBefore, [Next]_vars
  PROVE  CycleBefore'
<1>0. run.round \in Nat \ {0} /\ CycleLength \in Nat \ {0}
  BY P2pAssumption, RoundsPositive DEF TypeOK, RunType
<1>a. ASSUME NextRound PROVE CycleBefore'
  BY <1>0, <1>a, NextRoundEffect, EndsLate DEF CycleBefore
<1>b. ASSUME NEW st, GoTo(st) \/ Fail(st), st # "scope" PROVE CycleBefore'
  BY <1>b DEF GoTo, Fail, Moved, CycleBefore, TypeOK, RunType
<1>c. ASSUME NEW st, NEW rem, DispatchInitiator(st, rem), st # "scope"
      PROVE  CycleBefore'
  BY <1>c DEF DispatchInitiator, Moved, CycleBefore, TypeOK, RunType
<1>d. ASSUME NEW n, AskExecution(n) PROVE CycleBefore'
  BY <1>d DEF AskExecution, CycleBefore, TypeOK, RunType
<1>e. ASSUME Dropped PROVE CycleBefore'
  BY <1>e, <1>b DEF Dropped
<1>1. CASE \E s \in Sessions : TaskStep(s)
  <2>1. PICK s \in Sessions : TaskStep(s)
    BY <1>1
  <2>2. CASE DispatchThrows(s)
    BY <2>2, <1>b DEF DispatchThrows, CycleBefore
  <2> QED BY <2>1, <2>2, TaskCases DEF Returns, GoesOn, SameRun, CycleBefore
<1>2. CASE ChainStep
  <2>1. CASE ScopeRead \/ EvidenceAppended
    BY <2>1, <1>c, <1>e DEF ScopeRead, EvidenceAppended
  <2>2. CASE InitialReturns \/ GateTop \/ GateWakes
    BY <2>2, <1>b, <1>e DEF InitialReturns, GateTop, GateWakes
  <2>3. CASE ChainThrows \/ GateDeadline \/ GateMarkerRead
    BY <2>3, <1>b DEF ChainThrows, GateDeadline, GateMarkerRead
  <2>4. CASE SummaryReturns
    BY <2>4, <1>a, <1>d, <1>e DEF SummaryReturns
  <2>5. CASE GateAsked
    BY <2>5, <1>b, <1>d DEF GateAsked
  <2>6. CASE GateConfirmed
    BY <2>6, <1>a, <1>e DEF GateConfirmed
  <2>7. CASE HopsPrepared
    <3>1. run'.step = "hops"
      BY <2>7 DEF HopsPrepared, Moved, TypeOK, RunType
    <3> QED BY <3>1 DEF CycleBefore
  <2>8. CASE Barrier
    BY <2>8 DEF Barrier, CycleBefore, TypeOK, RunType
  <2>9. CASE TailRead
    BY <2>9 DEF TailRead, Moved, CycleBefore, TypeOK, RunType
  <2> QED BY <1>2, <2>1, <2>2, <2>3, <2>4, <2>5, <2>6, <2>7, <2>8, <2>9 DEF ChainStep
<1>3. CASE Outer
  BY <1>3, OuterCases DEF CycleBefore
<1> QED BY <1>1, <1>2, <1>3 DEF Next, Outer

(* A run of a single flow cycle stays cancelled, in the daemon and at the     *)
(* server, for any number of rounds, participants and cancel calls: a run is  *)
(* revived only between two cycles.                                          *)
THEOREM SingleCycleStaysCancelled ==
  ASSUME Cycles = 1
  PROVE  Spec => StaysCancelled
<1> DEFINE Known == run.status \in Ended /\ seen.last \in Ended
<1>0. CycleLength \in Nat \ {0} /\ Rounds = CycleLength
  BY P2pAssumption DEF Rounds
<1>1. Init => CycleBefore
  BY DEF Init, CycleBefore
<1>2. IInv /\ CycleBefore /\ [Next]_vars => CycleBefore'
  BY CycleBeforeStep DEF IInv
<1>3. TypeOK /\ CycleBefore => ~ScopeRead
  BY <1>0 DEF CycleBefore, ScopeRead, TypeOK, RunType
<1>4. IInv /\ EndInv /\ CycleBefore /\ Known /\ [Next]_vars => Known'
  BY <1>3, EndStep DEF IInv, EndInv, EndIsTold, Revives
<1>5. IInv /\ EndInv /\ run.status = "cancelled" => Known
  BY DEF EndInv, EndIsTold, Ended
<1> HIDE DEF Known
<1>6. Spec => (run.status = "cancelled" ~> []Known)
  BY <1>1, <1>2, <1>4, <1>5, EndInvariance, PTL DEF Spec
<1> QED BY <1>6 DEF StaysCancelled, Known
=============================================================================
