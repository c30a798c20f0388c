---------------------------- MODULE PreviewPool ----------------------------
(***************************************************************************)
(* The worker threads that read files for previews                           *)
(* (src/src/daemon/file-preview-read-pool.ts, PreviewReadWorkerPool).         *)
(*                                                                         *)
(* A job waits in a queue or runs in a slot.  A slot's thread answers, fails, *)
(* is recycled after some jobs, or is terminated when its job's deadline      *)
(* passes; terminate() and the restart timer come back later, to a slot that  *)
(* may by then belong to a pool that was shut down.  Everything between two   *)
(* callbacks is one turn of the event loop; pump, which such a turn ends      *)
(* with, is taken one slot at a time while nothing else may run.              *)
(***************************************************************************)
EXTENDS Integers, Sequences, FiniteSets

CONSTANTS
  Jobs,       \* the calls of dispatch
  NoJob,
  Workers,    \* workersTarget
  QueueCap,
  Recycle,    \* workerRecycleJobCount
  MaxStarts,  \* a bound on the times the pool is started from nothing
  MaxFaults   \* a bound on failing threads, starts and posts

ASSUME PoolAssumption ==
  /\ NoJob \notin Jobs
  /\ {Workers, Recycle, MaxStarts} \subseteq Nat \ {0}
  /\ {QueueCap, MaxFaults} \subseteq Nat

(* Slot objects: the slots of one start of the pool are dropped at shutdown,  *)
(* yet callbacks that closed over them keep running.                         *)
Slots == (1..MaxStarts) \X (1..Workers)
Open == {"waiting", "overdue"}
Outcomes == {"result", "timeout", "crashed", "unavailable", "shutdown",
             "queue_full"}

VARIABLES
  fate,     \* the promise of each dispatch, and whether its deadline is past
  source,   \* the job whose answer a promise was resolved with
  queue,    \* the queue
  slot,     \* the WorkerSlot objects
  starts,   \* how often ensureStarted built the slots
  started,  \* the pool's flag
  closing,  \* shuttingDown
  pumping,  \* the current turn still has slots to fill
  posted,   \* requests posted to threads and not answered yet
  faults

vars == <<fate, source, queue, slot, starts, started, closing, pumping, posted,
          faults>>

SlotType ==
  [state : {"idle", "busy", "restarting", "dead"}, gen : Nat,
   job : Jobs \union {NoJob}, count : 0..Recycle - 1,
   thread : BOOLEAN, timer : BOOLEAN, stopping : BOOLEAN,
   term : {"no", "recycle", "timeout", "shutdown"}]
Requests == Slots \X Nat \X Jobs

TypeOK ==
  /\ fate \in [Jobs -> {"new"} \union Open \union Outcomes]
  /\ source \in [Jobs -> Jobs \union {NoJob}]
  /\ queue \in Seq(Jobs)
  /\ Len(queue) <= QueueCap
  /\ slot \in [Slots -> SlotType]
  /\ starts \in 0..MaxStarts
  /\ {started, closing, pumping} \subseteq BOOLEAN
  /\ posted \in SUBSET Requests
  /\ faults \in 0..MaxFaults

(* The slots array, as the members it has now.                               *)
Current == IF started THEN {s \in Slots : s[1] = starts} ELSE {}

Unused ==
  [state |-> "dead", gen |-> 0, job |-> NoJob, count |-> 0, thread |-> FALSE,
   timer |-> FALSE, stopping |-> FALSE, term |-> "no"]

Init ==
  /\ fate = [j \in Jobs |-> "new"]
  /\ source = [j \in Jobs |-> NoJob]
  /\ queue = <<>>
  /\ slot = [s \in Slots |-> Unused]
  /\ starts = 0
  /\ started = FALSE
  /\ closing = FALSE
  /\ pumping = FALSE
  /\ posted = {}
  /\ faults = 0

-----------------------------------------------------------------------------
(* Restarting a slot.                                                        *)

Live(sl) == \E s \in Current : sl[s].state \in {"idle", "busy"}
Queued(q) == {q[i] : i \in DOMAIN q}

(* scheduleRestart and drainQueueIfNoLiveCapacity: r is the slot's record and *)
(* f the promises as the caller left them.  The last slot to go takes the     *)
(* queue with it.                                                           *)
ScheduleRestart(s, r, f, q) ==
  LET waits == [slot EXCEPT ![s] = [r EXCEPT !.state = "restarting",
                                             !.timer = TRUE]]
  IN IF closing \/ r.timer
     THEN slot' = [slot EXCEPT ![s] = r] /\ fate' = f /\ queue' = q
     ELSE /\ slot' = waits
          /\ IF Live(waits)
             THEN fate' = f /\ queue' = q
             ELSE /\ fate' = [j \in Jobs |-> IF j \in Queued(q)
                                             THEN "unavailable" ELSE f[j]]
                  /\ queue' = <<>>

Starting(r) == [r EXCEPT !.timer = FALSE, !.gen = @ + 1, !.stopping = FALSE]
Up(r) == [Starting(r) EXCEPT !.thread = TRUE, !.state = "idle"]
Down(r) == [Starting(r) EXCEPT !.thread = FALSE, !.state = "dead"]

(* Mutant: the thread that came up is not given what waits.                   *)
StartSlotQuietly(s, r) ==
  /\ slot' = [slot EXCEPT ![s] = IF closing THEN r ELSE Up(r)]
  /\ UNCHANGED <<fate, queue, pumping, faults>>

(* startSlot: createWorker may throw.                                        *)
StartSlot(s, r) ==
  \/ /\ closing
     /\ slot' = [slot EXCEPT ![s] = r]
     /\ UNCHANGED <<fate, queue, pumping, faults>>
  \/ /\ ~closing
     /\ slot' = [slot EXCEPT ![s] = Up(r)]
     /\ pumping' = TRUE
     /\ UNCHANGED <<fate, queue, faults>>
  \/ /\ ~closing
     /\ faults < MaxFaults
     /\ faults' = faults + 1
     /\ ScheduleRestart(s, Down(r), fate, queue)
     /\ UNCHANGED pumping

(* handleWorkerFailure, past its guard, of a slot whose job f has settled.    *)
Fail(s, f, q) ==
  ScheduleRestart(s, [slot[s] EXCEPT !.job = NoJob, !.thread = FALSE,
                                     !.state = "restarting"], f, q)

-----------------------------------------------------------------------------
(* dispatch and pump.                                                        *)

(* ensureStarted: all the slots of a start, of which up got their thread.     *)
Started(up) ==
  [s \in Slots |->
    IF s[1] # starts + 1 THEN slot[s]
    ELSE IF s[2] \in up THEN Up(Unused)
    ELSE [Down(Unused) EXCEPT !.state = "restarting", !.timer = TRUE]]

EnsureStarted ==
  \/ started /\ UNCHANGED <<slot, starts, started, faults>>
  \/ /\ ~started
     /\ starts < MaxStarts
     /\ started' = TRUE
     /\ starts' = starts + 1
     /\ \E up \in SUBSET (1..Workers) :
          /\ faults' = faults + Cardinality((1..Workers) \ up)
          /\ faults' <= MaxFaults
          /\ slot' = Started(up)

Refuse(j, why) ==
  /\ fate' = [fate EXCEPT ![j] = why]
  /\ UNCHANGED <<queue, pumping>>

(* The deadline is looked at once more, and may have passed by now.           *)
Dispatch(j) ==
  /\ ~pumping
  /\ fate[j] = "new"
  /\ \/ /\ closing
        /\ Refuse(j, "shutdown")
        /\ UNCHANGED <<slot, starts, started, faults>>
     \/ /\ ~closing
        /\ Refuse(j, "timeout")
        /\ UNCHANGED <<slot, starts, started, faults>>
     \/ /\ ~closing
        /\ EnsureStarted
        /\ LET able == \E s \in Slots : /\ s[1] = starts'
                                        /\ slot'[s].state \in {"idle", "busy"}
           IN \/ ~able /\ Refuse(j, "unavailable")
              \/ able /\ Len(queue) >= QueueCap /\ Refuse(j, "queue_full")
              \/ /\ able /\ Len(queue) < QueueCap
                 /\ fate' = [fate EXCEPT ![j] = "waiting"]
                 /\ queue' = Append(queue, j)
                 /\ pumping' = TRUE
  /\ UNCHANGED <<source, closing, posted>>

Free == {s \in Current : slot[s].state = "idle" /\ slot[s].thread
                                                /\ slot[s].job = NoJob}
First(s) == s \in Free /\ \A o \in Free : s[2] <= o[2]

(* One slot of the loop: an overdue job is rejected, another one is posted.   *)
PumpTakes ==
  /\ pumping
  /\ queue # <<>>
  /\ Free # {}
  /\ queue' = Tail(queue)
  /\ \/ /\ fate[Head(queue)] = "overdue"
        /\ fate' = [fate EXCEPT ![Head(queue)] = "timeout"]
        /\ UNCHANGED <<slot, posted>>
     \/ /\ fate[Head(queue)] # "overdue"
        /\ \E s \in Free :
             /\ First(s)
             /\ slot' = [slot EXCEPT ![s].state = "busy",
                                     ![s].job = Head(queue)]
             /\ posted' = posted \union {<<s, slot[s].gen, Head(queue)>>}
        /\ UNCHANGED fate
  /\ UNCHANGED <<source, starts, started, closing, pumping, faults>>

(* postMessage throws: the job is lost and the slot counts as failed.         *)
PumpPostFails ==
  /\ pumping
  /\ queue # <<>>
  /\ fate[Head(queue)] # "overdue"
  /\ faults < MaxFaults
  /\ faults' = faults + 1
  /\ \E s \in Free :
       /\ First(s)
       /\ Fail(s, [fate EXCEPT ![Head(queue)] = "unavailable"], Tail(queue))
  /\ UNCHANGED <<source, starts, started, closing, pumping, posted>>

PumpEnds ==
  /\ pumping
  /\ queue = <<>> \/ Free = {}
  /\ pumping' = FALSE
  /\ UNCHANGED <<fate, source, queue, slot, starts, started, closing, posted,
                 faults>>

-----------------------------------------------------------------------------
(* What threads and timers call back with.                                   *)

(* Mutant: whatever a port delivers answers the present job.                  *)
TakesAny(s, g, j) == slot[s].state # "dead" /\ slot[s].job # NoJob

(* A slot takes an answer of its present thread and to its present job.       *)
Takes(s, g, j) ==
  slot[s].gen = g /\ slot[s].state # "dead" /\ slot[s].job = j

(* Mutant: one job too many before the thread is replaced.                    *)
WornLate(r) == r.count >= Recycle

Worn(r) == r.count + 1 >= Recycle
Finished(r) == [r EXCEPT !.job = NoJob, !.state = "idle", !.count = @ + 1]
Recycled(r) == [r EXCEPT !.job = NoJob, !.thread = FALSE, !.count = 0,
                         !.state = "restarting", !.stopping = TRUE,
                         !.term = "recycle"]

(* handleWorkerMessage and recycleSlot: an answer may be late, even that of a *)
(* thread that was replaced.                                                *)
Answer(s, g, j) ==
  /\ ~pumping
  /\ <<s, g, j>> \in posted
  /\ posted' = posted \ {<<s, g, j>>}
  /\ IF ~Takes(s, g, j)
     THEN UNCHANGED <<fate, source, slot, pumping>>
     ELSE /\ slot[s].job # NoJob
          /\ fate' = [fate EXCEPT ![slot[s].job] = "result"]
          /\ source' = [source EXCEPT ![slot[s].job] = j]
          /\ \/ /\ Worn(slot[s])
                /\ slot' = [slot EXCEPT ![s] = Recycled(slot[s])]
                /\ UNCHANGED pumping
             \/ /\ ~Worn(slot[s])
                /\ slot' = [slot EXCEPT ![s] = Finished(slot[s])]
                /\ pumping' = TRUE
  /\ UNCHANGED <<queue, starts, started, closing, faults>>

(* Mutant: an exit event is a failure, expected or not.                       *)
UnexpectedAlways(s) == slot[s] = slot[s]

(* The guard of handleWorkerFailure: a thread being ended does not fail.     *)
Unexpected(s) == ~slot[s].stopping

(* Mutant: the slot is cleared first, its job then looked for in vain.        *)
CrashedUnheard(s) == IF slot[s].job = NoJob THEN fate ELSE fate

(* The rejection of what a failing thread was doing.                          *)
Crashed(s) ==
  IF slot[s].job = NoJob THEN fate ELSE [fate EXCEPT ![slot[s].job] = "crashed"]

(* handleWorkerFailure: the 'error' or 'exit' event of a slot's thread.       *)
ThreadFails(s) ==
  /\ ~pumping
  /\ slot[s].thread \/ slot[s].term # "no"
  /\ Unexpected(s)
  /\ faults < MaxFaults
  /\ faults' = faults + 1
  /\ Fail(s, Crashed(s), queue)
  /\ UNCHANGED <<source, starts, started, closing, pumping, posted>>

(* handleActiveJobTimeout: the timer of the job a slot runs.                  *)
JobTimesOut(s) ==
  /\ ~pumping
  /\ slot[s].job # NoJob /\ fate[slot[s].job] = "overdue"
  /\ fate' = [fate EXCEPT ![slot[s].job] = "timeout"]
  /\ slot' = [slot EXCEPT ![s] = [@ EXCEPT !.job = NoJob, !.thread = FALSE,
                !.state = "restarting", !.stopping = TRUE, !.term = "timeout"]]
  /\ UNCHANGED <<source, queue, starts, started, closing, pumping, posted,
                 faults>>

(* Mutant: the slot of a timed-out job is never restarted.                    *)
TerminateDoneIdle(s) ==
  LET r == [slot[s] EXCEPT !.term = "no", !.stopping = FALSE]
  IN /\ ~pumping
     /\ slot[s].term # "no"
     /\ IF slot[s].term = "recycle" THEN StartSlot(s, r)
        ELSE /\ slot' = [slot EXCEPT ![s] = r]
             /\ UNCHANGED <<fate, queue, pumping, faults>>
     /\ UNCHANGED <<source, starts, started, closing, posted>>

(* terminate() settles: the recycled slot starts at once, the timed-out one   *)
(* by way of the restart timer.                                             *)
TerminateDone(s) ==
  LET r == [slot[s] EXCEPT !.term = "no"]
  IN /\ ~pumping
     /\ \/ /\ slot[s].term = "recycle"
           /\ StartSlot(s, [r EXCEPT !.stopping = FALSE])
        \/ /\ slot[s].term = "timeout"
           /\ ScheduleRestart(s, [r EXCEPT !.stopping = FALSE], fate, queue)
           /\ UNCHANGED <<pumping, faults>>
        \/ /\ slot[s].term = "shutdown"
           /\ slot' = [slot EXCEPT ![s] = r]
           /\ UNCHANGED <<fate, queue, pumping, faults>>
     /\ UNCHANGED <<source, starts, started, closing, posted>>

RestartTimer(s) ==
  /\ ~pumping
  /\ slot[s].timer
  /\ StartSlot(s, [slot[s] EXCEPT !.timer = FALSE])
  /\ UNCHANGED <<source, starts, started, closing, posted>>

TimePasses(j) ==
  /\ ~pumping
  /\ fate[j] = "waiting"
  /\ fate' = [fate EXCEPT ![j] = "overdue"]
  /\ UNCHANGED <<source, queue, slot, starts, started, closing, pumping, posted,
                 faults>>

-----------------------------------------------------------------------------
(* shutdown.                                                                 *)

Dropped(r) ==
  [r EXCEPT !.state = "dead", !.job = NoJob, !.thread = FALSE, !.timer = FALSE,
            !.stopping = TRUE, !.term = IF r.thread THEN "shutdown" ELSE r.term]

Running == {slot[s].job : s \in Current} \ {NoJob}

Shutdown ==
  /\ ~pumping
  /\ ~closing
  /\ closing' = TRUE
  /\ fate' = [j \in Jobs |-> IF j \in Queued(queue) \union Running
                             THEN "shutdown" ELSE fate[j]]
  /\ queue' = <<>>
  /\ slot' = [s \in Slots |-> IF s \in Current THEN Dropped(slot[s])
                              ELSE slot[s]]
  /\ UNCHANGED <<source, starts, started, pumping, posted, faults>>

(* The terminations shutdown itself asked for are over.                       *)
ShutdownEnds ==
  /\ ~pumping
  /\ closing
  /\ \A s \in Current : slot[s].term # "shutdown"
  /\ closing' = FALSE
  /\ started' = FALSE
  /\ UNCHANGED <<fate, source, queue, slot, starts, pumping, posted, faults>>

-----------------------------------------------------------------------------
Next ==
  \/ \E j \in Jobs : Dispatch(j) \/ TimePasses(j)
  \/ PumpTakes \/ PumpPostFails \/ PumpEnds
  \/ \E s \in Slots : ThreadFails(s) \/ JobTimesOut(s) \/ TerminateDone(s)
                                     \/ RestartTimer(s)
  \/ \E m \in posted : Answer(m[1], m[2], m[3])
  \/ Shutdown \/ ShutdownEnds

Spec == Init /\ [][Next]_vars

(* Time passes, a turn of the event loop ends, and terminate() settles.  No   *)
(* thread ever has to answer.                                               *)
Fairness ==
  /\ \A j \in Jobs : WF_vars(TimePasses(j))
  /\ WF_vars(PumpTakes \/ PumpPostFails \/ PumpEnds)
  /\ \A s \in Slots : /\ WF_vars(JobTimesOut(s))
                      /\ WF_vars(TerminateDone(s))
                      /\ WF_vars(RestartTimer(s))

FairSpec == Spec /\ Fairness

-----------------------------------------------------------------------------
(* Properties.                                                               *)

(* A job whose promise is open is in the queue or in one slot, and in one     *)
(* place only; a settled one is in none.  Nothing that removes a job from its *)
(* place (pump, an answer, a failing thread, a deadline, the last slot going, *)
(* shutdown) forgets to settle it, and none settles it and keeps it.          *)
JobsHeldOnce ==
  \A j \in Jobs :
    /\ fate[j] \in Open <=> \/ j \in Queued(queue)
                              \/ \E s \in Slots : slot[s].job = j
    /\ j \in Queued(queue) => \A s \in Slots : slot[s].job # j
    /\ \A s, o \in Slots : slot[s].job = j /\ slot[o].job = j => s = o
    /\ \A i, k \in DOMAIN queue : queue[i] = j /\ queue[k] = j => i = k

(* Between two turns a job never waits beside an idle thread, nor for a pool  *)
(* in which nothing is going to happen: some slot runs a job with a deadline, *)
(* or its restart timer or its terminate() is pending.                        *)
NeverWedged ==
  (~pumping /\ queue # <<>>) =>
    /\ Free = {}
    /\ \E s \in Current : \/ slot[s].state = "busy" /\ slot[s].job # NoJob
                          \/ slot[s].timer
                          \/ slot[s].term \in {"recycle", "timeout"}

(* A slot is never about to get a second thread: while one lives or is being  *)
(* terminated no restart timer is armed, and a thread that is being           *)
(* terminated is not in use.                                                *)
OneThreadPerSlot ==
  \A s \in Slots : /\ slot[s].timer => ~slot[s].thread /\ slot[s].term = "no"
                   /\ slot[s].thread => slot[s].term = "no"
                   /\ slot[s].job # NoJob => slot[s].thread

(* A promise is resolved with the answer to its own job, however late the     *)
(* answers of other jobs and of replaced threads come in: a reader never      *)
(* gets the contents of another file.                                       *)
AnswersAreOwn == \A j \in Jobs : fate[j] = "result" => source[j] = j

(* The pool keeps the promise of dispatch: every accepted job is settled,     *)
(* once, though no thread need ever answer.                                  *)
Promised == [j \in Jobs |-> IF fate[j] \in Open THEN "waiting" ELSE fate[j]]
Promise == INSTANCE PoolPromise WITH Jobs <- Jobs, Outcomes <- Outcomes,
                                     fate <- Promised
KeepsItsPromise == Promise!Spec
=============================================================================
