------------------------------- MODULE P2pRun -------------------------------
(***************************************************************************)
(* One P2P discussion run of the daemon                                      *)
(* (src/src/daemon/p2p-orchestrator.ts): the chain of the legacy rounds, the  *)
(* dispatches it has in flight, the cancel call, and what the server is told. *)
(*                                                                         *)
(* executeChain is a single async function: it dispatches the initiator, then *)
(* all participants in parallel, waits for all of them, appends their         *)
(* evidence, dispatches the summary and, at the end of a flow cycle, asks for *)
(* the original request to be executed.  A dispatch is a loop of its own: it  *)
(* prompts the session, polls the file the answer goes to, and prompts once   *)
(* more when nothing was written.  cancelP2pRun runs between any two awaits.  *)
(***************************************************************************)
EXTENDS Naturals, FiniteSets, TLC

CONSTANTS
  Targets,      \* the sessions that take part
  Initiator,    \* the session that analyses, summarises and executes
  Foreign,      \* sessions of another project: their file is copied first
  Cycles,       \* flow cycles asked for
  CycleLength,  \* the modes of a combo pipeline, 1 for a single mode
  GateSends,    \* a bound on the execution prompts of one cycle
  Cancels,      \* a bound on the cancel calls that find the run
  None

ASSUME P2pAssumption ==
  /\ Initiator \notin Targets
  /\ Targets # {}
  /\ None \notin Targets \union {Initiator}
  /\ {Cycles, CycleLength, GateSends, Cancels} \subseteq Nat \ {0}

Sessions == Targets \union {Initiator}
Rounds == Cycles * CycleLength
CycleEnds(r) == r % CycleLength = 0

VARIABLES
  run,    \* the P2pRun, and the await its chain stands at
  hop,    \* the status of each participant's hop in this round
  task,   \* the dispatchHop call in flight to each session
  tally,  \* completedHops and skippedHops, counted per session
  stop,   \* cancel calls that await their C-c keys, and the calls so far
  seen,   \* activeRuns, the cleanup timer, and what the server was told
  late    \* prompts sent to each session after the run was cancelled

vars == <<run, hop, task, tally, stop, seen, late>>

Ended == {"completed", "failed", "timed_out", "cancelled"}
HopEnded == {"completed", "failed", "timed_out", "cancelled"}
Status == {"dispatched", "running"} \union Ended

(* Where the chain stands: the await it will come back from.                 *)
GateSteps == {"gateTop", "gateRead", "gateAudit", "gateSleep", "gateAsk"}
Steps == {"initial", "prepare", "hops", "evidence", "summary", "scope",
          "tail", "done", "dropped"} \union GateSteps

Idle == [at |-> "idle", attempt |-> 1, grew |-> FALSE]
TaskType == [at : {"idle", "check", "stat", "backoff", "sleep", "poll",
                   "recheck"},
             attempt : {1, 2}, grew : BOOLEAN]
RunType == [status : Status, cancelled : BOOLEAN, step : Steps,
            round : 1..Rounds, sends : 0..GateSends,
            current : Sessions \union {None},
            active : SUBSET Targets, remaining : SUBSET Targets]

TypeOK ==
  /\ run \in RunType
  /\ hop \in [Targets -> {"queued", "dispatched", "running"} \union HopEnded]
  /\ task \in [Sessions -> TaskType]
  /\ tally \in [done : [Targets -> Nat], skipped : [Sessions -> Nat]]
  /\ stop \in [pending : Nat, calls : 0..Cancels]
  /\ seen \in [listed : BOOLEAN, cleanup : BOOLEAN, due : BOOLEAN,
               last : Status \union {None}]
  /\ late \in [Sessions -> Nat]

InFlight(s) == task[s].at # "idle"

(* Mutant: the flag is forgotten, the status alone is looked at.             *)
OverByStatus == run.status \in Ended

Over == run.cancelled \/ run.status \in Ended

(* dispatchHop reaches its first await: the copy for another project, or the *)
(* stat before the prompt, unless the run is cancelled already.              *)
Dispatched(s) ==
  [at |-> IF run.cancelled \/ s \in Foreign THEN "check" ELSE "stat",
   attempt |-> 1, grew |-> FALSE]

(***************************************************************************)
(* What the server hears: a terminal status at once, any other one when the   *)
(* debounce timer fires.                                                    *)
(***************************************************************************)
Pushed(sn, st) ==
  IF st \in Ended
  THEN [sn EXCEPT !.last = st, !.due = FALSE]
  ELSE [sn EXCEPT !.due = TRUE]
Announced(st) ==
  IF st \in Ended
  THEN [seen EXCEPT !.last = st, !.due = FALSE, !.cleanup = TRUE]
  ELSE [seen EXCEPT !.due = TRUE]

(* transition and failRun set the status whatever it was.                    *)
Moved(st, step) == [run EXCEPT !.status = st, !.step = step]

(* Mutant: only the successful end schedules the cleanup of activeRuns.      *)
FailUncleaned(st) ==
  /\ run' = Moved(st, "dropped")
  /\ seen' = Pushed(seen, st)

Fail(st) ==
  /\ run' = Moved(st, "dropped")
  /\ seen' = Announced(st)

Init ==
  /\ run = [status |-> "dispatched", cancelled |-> FALSE, step |-> "initial",
            round |-> 1, sends |-> 0, current |-> Initiator, active |-> {},
            remaining |-> Targets]
  /\ hop = [t \in Targets |-> "queued"]
  /\ task = [s \in Sessions |->
               IF s = Initiator
               THEN [at |-> IF s \in Foreign THEN "check" ELSE "stat",
                     attempt |-> 1, grew |-> FALSE]
               ELSE Idle]
  /\ tally = [done |-> [t \in Targets |-> 0], skipped |-> [s \in Sessions |-> 0]]
  /\ stop = [pending |-> 0, calls |-> 0]
  /\ seen = [listed |-> TRUE, cleanup |-> FALSE, due |-> TRUE, last |-> None]
  /\ late = [s \in Sessions |-> 0]

(***************************************************************************)
(* dispatchHop, between two of its awaits.                                   *)
(***************************************************************************)
Tallied(s, outcome) ==
  IF outcome # "completed"
  THEN [tally EXCEPT !.skipped[s] = @ + 1]
  ELSE IF s \in run.remaining
  THEN [tally EXCEPT !.done[s] = @ + 1]
  ELSE tally

(* Mutant: the first call to return clears the whole list.                   *)
ReleasedAll(s) ==
  [run EXCEPT !.current = None, !.active = {}, !.remaining = @ \ {s}]

Released(s) ==
  [run EXCEPT !.current = None, !.active = @ \ {s}, !.remaining = @ \ {s}]

(* finishHop: the call returns, and its session is the run's no more.        *)
Finish(s, outcome) ==
  /\ task' = [task EXCEPT ![s] = Idle]
  /\ hop' = IF s \in Targets THEN [hop EXCEPT ![s] = outcome] ELSE hop
  /\ tally' = Tallied(s, outcome)
  /\ UNCHANGED <<stop, late>>

FinishAndPush(s, outcome) ==
  /\ Finish(s, outcome)
  /\ run' = Released(s)
  /\ seen' = Pushed(seen, run.status)

FinishCancelled(s) ==
  /\ run.cancelled
  /\ Finish(s, "cancelled")
  /\ run' = Released(s)
  /\ UNCHANGED seen

(* A required dispatch, the initiator's, that goes wrong fails the run.      *)
FinishRequired(s, outcome) ==
  IF s = Initiator
  THEN /\ Finish(s, outcome)
       /\ run' = [Released(s) EXCEPT !.status = outcome]
       /\ seen' = Announced(outcome)
  ELSE FinishAndPush(s, outcome)

At(s, at) ==
  /\ task[s].at = at
  /\ UNCHANGED stop

(* The top of the attempt loop.                                              *)
BeginAttempt(s) ==
  /\ At(s, "check")
  /\ \/ FinishCancelled(s)
     \/ /\ ~run.cancelled
        /\ task' = [task EXCEPT ![s].at = "stat"]
        /\ UNCHANGED <<run, hop, tally, seen, late>>

(* The directory for the copy cannot be made: the promise is rejected.  A    *)
(* participant's rejection is swallowed by allSettled, its hop never ends.   *)
DispatchThrows(s) ==
  /\ At(s, "check")
  /\ s \in Foreign
  /\ task[s].attempt = 1
  /\ task' = [task EXCEPT ![s] = Idle]
  /\ IF s = Initiator
     THEN Fail("failed")
     ELSE UNCHANGED <<run, seen>>
  /\ UNCHANGED <<hop, tally, late>>

SendPrompt(s) ==
  /\ At(s, "stat")
  /\ task' = [task EXCEPT ![s].at = "sleep"]
  /\ late' = IF run.cancelled THEN [late EXCEPT ![s] = @ + 1] ELSE late
  /\ UNCHANGED <<run, hop, tally, seen>>

SendFails(s) ==
  /\ At(s, "stat")
  /\ \/ /\ task[s].attempt = 1
        /\ task' = [task EXCEPT ![s].at = "backoff"]
        /\ UNCHANGED <<run, hop, tally, seen, late>>
     \/ /\ task[s].attempt = 2
        /\ FinishRequired(s, "failed")

Retry(s) == task' = [task EXCEPT ![s] = [@ EXCEPT !.at = "check", !.attempt = 2]]

BackoffEnds(s) ==
  /\ At(s, "backoff")
  /\ Retry(s)
  /\ UNCHANGED <<run, hop, tally, seen, late>>

(* A poll: the flag is checked, then the file is looked at.                  *)
PollBegins(s) ==
  /\ At(s, "sleep")
  /\ \/ FinishCancelled(s)
     \/ /\ ~run.cancelled
        /\ task' = [task EXCEPT ![s].at = "poll"]
        /\ UNCHANGED <<run, hop, tally, seen, late>>

PollFindsNothing(s) ==
  /\ At(s, "poll")
  /\ task' = [task EXCEPT ![s].at = "sleep"]
  /\ UNCHANGED <<run, hop, tally, seen, late>>

PollFindsGrowth(s) ==
  /\ At(s, "poll")
  /\ ~task[s].grew
  /\ task' = [task EXCEPT ![s] = [@ EXCEPT !.at = "sleep", !.grew = TRUE]]
  /\ hop' = IF s \in Targets THEN [hop EXCEPT ![s] = "running"] ELSE hop
  /\ IF run.status = "dispatched"
     THEN run' = [run EXCEPT !.status = "running"] /\ seen' = Announced("running")
     ELSE UNCHANGED <<run, seen>>
  /\ UNCHANGED <<tally, late>>

PollFindsAnswer(s) ==
  /\ At(s, "poll")
  /\ task[s].grew
  /\ FinishAndPush(s, "completed")

(* The agent is idle past the grace period and the file is as it was.        *)
PollFindsIdle(s) ==
  /\ At(s, "poll")
  /\ ~task[s].grew
  /\ \/ /\ task[s].attempt = 1
        /\ task' = [task EXCEPT ![s].at = "recheck"]
        /\ UNCHANGED <<run, hop, tally, seen, late>>
     \/ /\ task[s].attempt = 2
        /\ FinishAndPush(s, "failed")

(* The while condition is looked at before the cancel flag.                  *)
DeadlinePasses(s) ==
  /\ At(s, "poll")
  /\ \/ /\ ~task[s].grew
        /\ task[s].attempt = 1
        /\ task' = [task EXCEPT ![s].at = "recheck"]
        /\ UNCHANGED <<run, hop, tally, seen, late>>
     \/ /\ task[s].grew \/ task[s].attempt = 2
        /\ FinishRequired(s, "timed_out")

(* The file is looked at once more before the second prompt.                 *)
Recheck(s) ==
  /\ At(s, "recheck")
  /\ \/ /\ Retry(s)
        /\ UNCHANGED <<run, hop, tally, seen, late>>
     \/ FinishRequired(s, "timed_out")

TaskStep(s) ==
  \/ BeginAttempt(s) \/ DispatchThrows(s) \/ SendPrompt(s) \/ SendFails(s)
  \/ BackoffEnds(s) \/ PollBegins(s) \/ PollFindsNothing(s)
  \/ PollFindsGrowth(s) \/ PollFindsAnswer(s) \/ PollFindsIdle(s)
  \/ DeadlinePasses(s) \/ Recheck(s)

(***************************************************************************)
(* executeChain, between two of its awaits.                                  *)
(***************************************************************************)
GoTo(step) ==
  /\ run' = [run EXCEPT !.step = step]
  /\ UNCHANGED seen

Dropped == Over /\ GoTo("dropped")

ChainIdle == UNCHANGED <<hop, task, tally, stop, late>>

DispatchInitiator(step, remaining) ==
  /\ run' = [Moved("dispatched", step) EXCEPT !.current = Initiator,
                                              !.remaining = remaining]
  /\ seen' = Announced("dispatched")
  /\ task' = [task EXCEPT ![Initiator] = Dispatched(Initiator)]
  /\ UNCHANGED <<hop, tally, stop, late>>

(* Mutant: the participants of the last round are not restored.              *)
NextRoundKept ==
  IF run.round < Rounds
  THEN /\ run' = [run EXCEPT !.round = @ + 1, !.sends = 0,
                    !.step = IF CycleEnds(run.round) THEN "scope" ELSE "prepare"]
       /\ UNCHANGED seen
  ELSE GoTo("tail")

(* Mutant: one round too many.                                               *)
NextRoundPast ==
  /\ run' = [run EXCEPT !.round = @ + 1, !.remaining = Targets, !.sends = 0,
               !.step = IF run.round <= Rounds THEN "scope" ELSE "tail"]
  /\ UNCHANGED seen

(* The top of the round loop.                                                *)
NextRound ==
  IF run.round < Rounds
  THEN /\ run' = [run EXCEPT !.round = @ + 1, !.remaining = Targets, !.sends = 0,
                    !.step = IF CycleEnds(run.round) THEN "scope" ELSE "prepare"]
       /\ UNCHANGED seen
  ELSE GoTo("tail")

(* The previous cycle's output was read; the flag is not looked at again.    *)
ScopeRead ==
  /\ run.step = "scope"
  /\ DispatchInitiator("initial", run.remaining)

InitialReturns ==
  /\ run.step = "initial"
  /\ ~InFlight(Initiator)
  /\ \/ Dropped
     \/ ~Over /\ GoTo("prepare")
  /\ ChainIdle

(* createRoundHopStates returns: all participants are dispatched at once.    *)
HopsPrepared ==
  /\ run.step = "prepare"
  /\ IF run.cancelled
     THEN /\ run' = [run EXCEPT !.step = "hops", !.active = Targets]
          /\ hop' = [t \in Targets |-> "queued"]
          /\ UNCHANGED <<task, seen>>
     ELSE /\ \E last \in Targets :
               run' = [Moved("dispatched", "hops") EXCEPT !.active = Targets,
                                                          !.current = last]
          /\ hop' = [t \in Targets |-> "dispatched"]
          /\ task' = [s \in Sessions |->
                        IF s \in Targets THEN Dispatched(s) ELSE task[s]]
          /\ seen' = Announced("dispatched")
  /\ UNCHANGED <<tally, stop, late>>

(* A file operation of the chain throws: executeChain's catch fails the run. *)
ChainThrows ==
  /\ run.step \in {"prepare", "evidence"}
  /\ Fail("failed")
  /\ ChainIdle

(* Mutant: the first participant to return opens the barrier.                *)
BarrierOfOne ==
  /\ run.step = "hops"
  /\ \E t \in Targets : ~InFlight(t)
  /\ run' = [run EXCEPT !.active = {}, !.current = None,
               !.step = IF Over THEN "dropped" ELSE "evidence"]
  /\ UNCHANGED seen
  /\ ChainIdle

Barrier ==
  /\ run.step = "hops"
  /\ \A t \in Targets : ~InFlight(t)
  /\ run' = [run EXCEPT !.active = {}, !.current = None,
               !.step = IF Over THEN "dropped" ELSE "evidence"]
  /\ UNCHANGED seen
  /\ ChainIdle

EvidenceAppended ==
  /\ run.step = "evidence"
  /\ \/ Dropped /\ ChainIdle
     \/ ~Over /\ DispatchInitiator("summary", {})

(* The execution prompt is sent, whatever happens to it.                     *)
AskExecution(attempt) ==
  /\ run' = [run EXCEPT !.step = "gateTop", !.sends = attempt]
  /\ seen' = Pushed(seen, run.status)
  /\ late' = IF run.cancelled THEN [late EXCEPT ![Initiator] = @ + 1] ELSE late
  /\ UNCHANGED <<hop, task, tally, stop>>

SummaryReturns ==
  /\ run.step = "summary"
  /\ ~InFlight(Initiator)
  /\ \/ Dropped /\ ChainIdle
     \/ /\ ~Over
        /\ IF CycleEnds(run.round)
           THEN AskExecution(1)
           ELSE NextRound /\ ChainIdle

(* The while condition is looked at before the cancel flag here too.         *)
GateDeadline ==
  /\ run.step = "gateTop"
  /\ Fail("timed_out")
  /\ ChainIdle

GateTop ==
  /\ run.step = "gateTop"
  /\ \/ Dropped
     \/ ~Over /\ GoTo("gateRead")
  /\ ChainIdle

GateMarkerRead ==
  /\ run.step = "gateRead"
  /\ \/ GoTo("gateAudit")
     \/ Fail("failed")
     \/ GoTo("gateSleep")
  /\ ChainIdle

GateWakes ==
  /\ run.step = "gateSleep"
  /\ \/ Dropped
     \/ ~Over /\ (GoTo("gateTop") \/ GoTo("gateAsk"))
  /\ ChainIdle

(* The initiator may be idle without a marker: the prompt is sent once more. *)
GateAsked ==
  /\ run.step = "gateAsk"
  /\ \/ GoTo("gateTop") /\ ChainIdle
     \/ run.sends < GateSends /\ AskExecution(run.sends + 1)

GateConfirmed ==
  /\ run.step = "gateAudit"
  /\ \/ Dropped
     \/ ~Over /\ NextRound
  /\ ChainIdle

(* The result was read from the discussion file, across four awaits.         *)
TailRead ==
  /\ run.step = "tail"
  /\ run' = Moved("completed", "done")
  /\ seen' = Announced("completed")
  /\ ChainIdle

ChainStep ==
  \/ ScopeRead \/ InitialReturns \/ HopsPrepared \/ ChainThrows \/ Barrier
  \/ EvidenceAppended \/ SummaryReturns \/ GateDeadline \/ GateTop \/ GateMarkerRead
  \/ GateWakes \/ GateAsked \/ GateConfirmed \/ TailRead

(***************************************************************************)
(* cancelP2pRun, and the timers.                                             *)
(***************************************************************************)
Cancel ==
  /\ seen.listed
  /\ stop.calls < Cancels
  /\ \/ /\ run.status \in Ended
        /\ run' = [run EXCEPT !.cancelled = TRUE]
        /\ seen' = [seen EXCEPT !.listed = FALSE]
        /\ stop' = [stop EXCEPT !.calls = @ + 1]
     \/ /\ run.status \notin Ended
        /\ run.active = {}
        /\ run.current = None
        /\ run' = [run EXCEPT !.cancelled = TRUE, !.status = "cancelled"]
        /\ seen' = [Announced("cancelled") EXCEPT !.listed = FALSE]
        /\ stop' = [stop EXCEPT !.calls = @ + 1]
     \/ /\ run.status \notin Ended
        /\ run.active # {} \/ run.current # None
        /\ run' = [run EXCEPT !.cancelled = TRUE]
        /\ stop' = [stop EXCEPT !.calls = @ + 1, !.pending = @ + 1]
        /\ UNCHANGED seen
  /\ UNCHANGED <<hop, task, tally, late>>

(* The C-c keys were sent.                                                   *)
CancelEnds ==
  /\ stop.pending > 0
  /\ stop' = [stop EXCEPT !.pending = @ - 1]
  /\ run' = [run EXCEPT !.active = {}, !.status = "cancelled"]
  /\ seen' = [Announced("cancelled") EXCEPT !.listed = FALSE]
  /\ UNCHANGED <<hop, task, tally, late>>

Flush ==
  /\ seen.due
  /\ seen' = [seen EXCEPT !.due = FALSE, !.last = run.status]
  /\ UNCHANGED <<run, hop, task, tally, stop, late>>

Cleanup ==
  /\ seen.cleanup
  /\ seen' = [seen EXCEPT !.cleanup = FALSE, !.listed = FALSE]
  /\ UNCHANGED <<run, hop, task, tally, stop, late>>

Settled ==
  /\ run.step \in {"done", "dropped"}
  /\ stop.pending = 0
  /\ ~seen.due
  /\ ~seen.cleanup
  /\ UNCHANGED vars

Next ==
  \/ \E s \in Sessions : TaskStep(s)
  \/ ChainStep
  \/ Cancel \/ CancelEnds \/ Flush \/ Cleanup
  \/ Settled

Spec == Init /\ [][Next]_vars

(* Promises and timers are served; a deadline that is looked at again and    *)
(* again passes.                                                             *)
Fairness ==
  /\ \A s \in Sessions : WF_vars(TaskStep(s)) /\ SF_vars(DeadlinePasses(s))
  /\ WF_vars(ChainStep)
  /\ SF_vars(GateDeadline)
  /\ WF_vars(CancelEnds)
  /\ WF_vars(Flush)
  /\ WF_vars(Cleanup)
FairSpec == Spec /\ Fairness

(***************************************************************************)
(* Properties                                                                *)
(***************************************************************************)

(* A cancel reaches everyone: while the run is not cancelled, each session    *)
(* with a dispatch in flight is one that cancelP2pRun would send C-c to, and  *)
(* the initiator and the participants are never at work at the same time.     *)
InFlightIsReachable ==
  /\ ~run.cancelled =>
       \A s \in Sessions : InFlight(s) => s \in run.active \union {run.current}
  /\ InFlight(Initiator) => \A t \in Targets : ~InFlight(t)

(* Every hop is accounted for once: a participant of the same project is in   *)
(* completedHops or in skippedHops, counted together, once for each round in  *)
(* which its hop has ended, whatever the other participants did.              *)
HopsAccounted ==
  run.step \notin {"done", "dropped"} =>
    \A t \in Targets \ Foreign :
      tally.done[t] + tally.skipped[t] =
        IF \/ run.step \in {"initial", "scope", "prepare"}
           \/ run.step = "hops" /\ hop[t] \notin HopEnded
        THEN run.round - 1
        ELSE run.round

(* Stopping stops: after the run was cancelled a session is sent at most one  *)
(* more prompt, the one already past its last look at the flag, and the       *)
(* run does not get from the participants to the initiator or back.           *)
FewLatePrompts ==
  /\ \A s \in Sessions : late[s] <= 1
  /\ late[Initiator] = 0 \/ \A t \in Targets : late[t] = 0

(* Every run leaves activeRuns for good, whichever way its chain ends.        *)
LeavesTheTable == <>[](~seen.listed)

(* The run is a discussion as P2pDiscussion describes it: no summary before   *)
(* every participant is through with the round, no cycle before the last one  *)
(* was executed, complete only after the last round, and it ends.             *)
Phase ==
  CASE run.step \in {"initial", "scope"} -> "analysing"
    [] run.step \in {"prepare", "hops", "evidence"} -> "discussing"
    [] run.step = "summary" -> "summarising"
    [] run.step \in GateSteps \union {"tail"} -> "executing"
    [] run.step = "done" -> "complete"
    [] OTHER -> "dropped"
Heard ==
  IF run.step \in {"initial", "scope", "prepare", "dropped"}
  THEN {}
  ELSE {t \in Targets : ~InFlight(t)}
Discussion ==
  INSTANCE P2pDiscussion WITH phase <- Phase, round <- run.round, heard <- Heard
IsADiscussion == Discussion!FairSpec

(* "cancellation preserves completed hop outcomes", and the run's status is   *)
(* cancelled: once it is, it does not become an active run again, in the       *)
(* daemon or at the server.                                                  *)
StaysCancelled ==
  run.status = "cancelled" ~> [](run.status \in Ended /\ seen.last \in Ended)
=============================================================================
