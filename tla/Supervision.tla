---------------------------- MODULE Supervision ----------------------------
(***************************************************************************)
(* The automation that supervises one transport session                     *)
(* (src/src/daemon/supervision-automation.ts), with the session that feeds   *)
(* it events and the P2P audit runs it launches.                             *)
(*                                                                         *)
(* At an idle boundary the automation asks the supervision broker whether    *)
(* the task is complete.  The answer arrives later, from an `await`; a       *)
(* completed task may go through an audit, launched after two more awaits    *)
(* and watched by a poller.  Between any two of these the user may send,     *)
(* undo, stop or change the settings, and the session's runtime may fail and *)
(* be replaced.  Each continuation re-reads the active run and recognises it *)
(* by its generation only; a send goes on with the settings it read before   *)
(* it waited for the session's mutex.                                        *)
(***************************************************************************)
EXTENDS Naturals, Sequences, FiniteSets, TLC

CONSTANTS
  Tasks,          \* the messages the user may send, each one once
  Jobs,           \* slots for evaluations in flight
  Audits,         \* slots for P2P audit runs
  Prompt,         \* a continue or rework prompt written by the automation
  None,
  MaxContinue,    \* maxAutoContinueTotal
  MaxStreak,      \* maxAutoContinueStreak
  MaxAuditLoops,  \* maxAuditLoops
  ResendCap,      \* MAX_RESEND_ENTRIES
  QueueCap        \* a bound on the messages that wait behind a turn

ASSUME SupervisionAssumption ==
  /\ Prompt \notin Tasks
  /\ None \notin Tasks \union Audits \union {Prompt}
  /\ {MaxContinue, MaxStreak, MaxAuditLoops, ResendCap} \subseteq Nat \ {0}
  /\ QueueCap \in Nat

VARIABLES
  mode,    \* is the session supervised, by the settings in its record
  late,    \* history: the sends that were under way, with supervision on in
           \* their snapshot, when the settings last switched it off
  sends,   \* where the handler of each message is
  life,    \* the session's runtime: in the map, being killed, or none
  turn,    \* the last state the session reported, and whether a turn runs
  queue,   \* the messages waiting for that turn to end
  active,  \* the messages of that turn
  resend,  \* the messages waiting for a new runtime
  lost,    \* history: the tasks dropped from one of these queues while
           \* their intents waited
  sup,     \* the maps of SupervisionAutomation, at this session
  audits   \* activeRuns of the P2P orchestrator, at the audit runs

settings == <<mode, late>>
runtime == <<life, turn, queue, active, resend, lost>>
vars == <<settings, sends, runtime, sup, audits>>

(* "on" is supervised and supervised_audit.                                  *)
Modes == {"off", "on"}
Messages == Tasks \union {Prompt}
Terminal == {"completed", "failed", "timed_out"}
AuditStatus == {"gone", "live", "cancelling"} \union Terminal

(* "off" and "on" wait for the mutex, with that snapshot; "orphaned" waits   *)
(* too, but the runtime it holds has been killed.                            *)
SendStage == {"unsent", "off", "on", "orphaned", "done"}
(* "other" is what is neither idle nor running: error, queued, started.      *)
Turns == {"idle", "running", "other"}
Running == turn = "running"
In(m, q) == \E i \in 1..Len(q) : q[i] = m

FreshRun(gen, task, phase) ==
  [gen |-> gen, task |-> task, phase |-> phase, evaluating |-> FALSE,
   saw |-> FALSE, loops |-> 0, streak |-> 0, reworks |-> 0, audit |-> None]
NoRun == FreshRun(0, None, "none")
NoPoller == [gen |-> 0, audit |-> None]
FreeJob == [stage |-> "none", gen |-> 0, own |-> FALSE]

(* own: the run this continuation started from is still the active one.      *)
JobType == [stage : {"none", "deciding", "baseline", "launching"},
            gen : Nat, own : BOOLEAN]
RunType == [gen : Nat, task : Messages \union {None},
            phase : {"none", "execution", "auditing"},
            evaluating : BOOLEAN, saw : BOOLEAN, loops : Nat, streak : Nat,
            reworks : Nat, audit : Audits \union {None}]
SupType == [run : RunType, pending : Tasks \union {None},
            candidate : Messages \union {None}, answered : BOOLEAN,
            poller : [gen : Nat, audit : Audits \union {None}],
            jobs : [Jobs -> JobType]]

TypeOK ==
  /\ mode \in Modes
  /\ late \subseteq Tasks
  /\ sends \in [Tasks -> SendStage]
  /\ life \in {"up", "ending", "none"}
  /\ turn \in Turns
  /\ queue \in Seq(Messages)
  /\ active \in Seq(Messages)
  /\ resend \in Seq(Messages)
  /\ lost \subseteq Tasks
  /\ sup \in SupType
  /\ audits \in [Audits -> AuditStatus]

Init ==
  /\ mode \in Modes
  /\ late = {} /\ lost = {}
  /\ sends = [t \in Tasks |-> "unsent"]
  /\ life = "up"
  /\ turn = "idle"
  /\ queue = <<>> /\ active = <<>> /\ resend = <<>>
  /\ sup = [run |-> NoRun, pending |-> None, candidate |-> None,
            answered |-> FALSE, poller |-> NoPoller,
            jobs |-> [j \in Jobs |-> FreeJob]]
  /\ audits = [a \in Audits |-> "gone"]

-----------------------------------------------------------------------------
(* What the methods of SupervisionAutomation do to its maps.                 *)

Active(s) == s.run # NoRun
Detached(jobs) == [j \in Jobs |-> [jobs[j] EXCEPT !.own = FALSE]]

(* activeRuns.delete and clearPoller. *)
DropRun(s) ==
  [s EXCEPT !.run = NoRun, !.poller = NoPoller, !.jobs = Detached(@)]
FinishRun(s) == IF Active(s) THEN DropRun(s) ELSE s

(* Mutant: the intent of a queued message survives.                          *)
CancelSessionOnly(s) == [DropRun(s) EXCEPT !.candidate = None, !.answered = FALSE]
CancelSession(s) ==
  [DropRun(s) EXCEPT !.pending = None, !.candidate = None, !.answered = FALSE]

(* removeQueuedTaskIntent; mutant: the message goes, its intent stays.       *)
WithIntent(s, m) == s
WithoutIntent(s, m) ==
  IF s.pending = m THEN [s EXCEPT !.pending = None] ELSE s

(* Mutant: a cancelled run stays in the table under its new status.          *)
AuditKept(s) ==
  [a \in Audits |-> IF a = s.run.audit THEN "cancelled" ELSE audits[a]]

(* cancelP2pRun of the run's audit: a run in progress is interrupted first   *)
(* and leaves the table later; a finished one leaves it at once.             *)
AuditCancelled(s) ==
  [a \in Audits |->
    IF a # s.run.audit THEN audits[a]
    ELSE CASE audits[a] = "live"      -> "cancelling"
           [] audits[a] \in Terminal  -> "gone"
           [] OTHER                   -> audits[a]]

RegisterTask(s, t) ==
  [s EXCEPT
    !.run = FreshRun(s.run.gen + 1, t, "execution"),
    !.poller = NoPoller, !.jobs = Detached(@),
    !.candidate = None, !.answered = FALSE]

Evaluate(s, j) ==
  [s EXCEPT !.run.evaluating = TRUE,
            !.jobs[j] = [stage |-> "deciding", gen |-> s.run.gen, own |-> TRUE]]

(* A session found idle without a run: pick up its latest task if it was     *)
(* answered, and otherwise give the task back to the user.                   *)
StartImplicitRun(s, j) ==
  IF s.candidate = None THEN s
  ELSE IF s.answered
    THEN Evaluate([RegisterTask(s, s.candidate) EXCEPT !.run.saw = TRUE], j)
    ELSE [s EXCEPT !.candidate = None]

(* Mutant: a turn without an answer is waited for, not given back.           *)
OnIdlePatient(s, j) ==
  IF ~Active(s) THEN IF mode = "off" THEN s ELSE StartImplicitRun(s, j)
  ELSE IF s.run.phase = "execution" /\ ~s.run.evaluating /\ s.run.saw
    THEN Evaluate(s, j) ELSE s
OnIdle(s, j) ==
  IF ~Active(s) THEN IF mode = "off" THEN s ELSE StartImplicitRun(s, j)
  ELSE IF s.run.phase # "execution" \/ s.run.evaluating THEN s
  ELSE IF s.run.saw THEN Evaluate(s, j) ELSE FinishRun(s)

OnBlocked(s) == IF s.run.phase = "execution" THEN FinishRun(s) ELSE s

OnAssistantText(s) ==
  LET t == [s EXCEPT !.answered = (s.candidate # None)]
  IN  IF Active(s) THEN [t EXCEPT !.run.saw = TRUE] ELSE t

(* The timeline's user.message events of the messages in q, in order.        *)
OnDelivered(s, q) ==
  LET last == q[Len(q)]
      r == RegisterTask([s EXCEPT !.pending = None], s.pending)
  IN  IF In(s.pending, q) /\ last = s.pending THEN r
      ELSE [(IF In(s.pending, q) THEN r ELSE s) EXCEPT !.candidate = last,
                                                       !.answered = FALSE]

Delivered(q) ==
  /\ sup' = OnDelivered(sup, q)
  /\ audits' = IF In(sup.pending, q) THEN AuditCancelled(sup) ELSE audits

-----------------------------------------------------------------------------
(* session.send.                                                             *)

(* Messages have no identity before they arrive: this one is the next.       *)
NextSent == CHOOSE t \in Tasks : sends[t] = "unsent"

(* The handler takes its snapshot and the runtime of the map, and waits for  *)
(* the session's mutex.                                                      *)
Arrive(t) ==
  /\ sends[t] = "unsent" /\ t = NextSent /\ life = "up"
  /\ sends' = [sends EXCEPT ![t] = mode]
  /\ UNCHANGED <<settings, runtime, sup, audits>>

(* The last ResendCap messages of q. *)
Capped(q) ==
  SubSeq(q, IF Len(q) > ResendCap THEN Len(q) - ResendCap + 1 ELSE 1, Len(q))
(* The task that p held while its intent waited, and q does not.             *)
Dropped(p, q) == {t \in Tasks : t = sup.pending /\ In(t, p) /\ ~In(t, q)}

(* queueTaskIntent. *)
QueueIntent(t) ==
  /\ sup' = [CancelSession(sup) EXCEPT !.pending = t]
  /\ audits' = AuditCancelled(sup)

(* No runtime: the message waits for the next one, and the state reported is *)
(* queued.  Nothing is awaited.                                              *)
ArriveUnready(t) ==
  /\ sends[t] = "unsent" /\ t = NextSent /\ life # "up"
  /\ sends' = [sends EXCEPT ![t] = "done"]
  /\ resend' = Capped(Append(resend, t))
  /\ lost' = lost \union Dropped(resend, resend')
  /\ turn' = IF Running THEN turn ELSE "other"
  /\ IF mode = "on" THEN QueueIntent(t) ELSE UNCHANGED <<sup, audits>>
  /\ UNCHANGED <<settings, life, queue, active>>

(* The mutex is free and the runtime not sending, be it dying: the task is   *)
(* registered under the snapshot, and the user.message event that follows    *)
(* makes it the recent candidate as well.                                    *)
SendNow(t) ==
  /\ sends[t] \in Modes /\ ~Running
  /\ sends' = [sends EXCEPT ![t] = "done"]
  /\ turn' = "running"
  /\ active' = <<t>>
  /\ LET s == IF sends[t] = "on" THEN RegisterTask(sup, t) ELSE sup
     IN  sup' = [s EXCEPT !.candidate = t, !.answered = FALSE]
  /\ audits' = IF sends[t] = "on" THEN AuditCancelled(sup) ELSE audits
  /\ UNCHANGED <<settings, life, queue, resend, lost>>

(* The same behind a turn: the intent waits with its message. *)
SendQueued(t) ==
  /\ sends[t] \in Modes /\ Running /\ Len(queue) < QueueCap
  /\ sends' = [sends EXCEPT ![t] = "done"]
  /\ queue' = Append(queue, t)
  /\ IF sends[t] = "on" THEN QueueIntent(t) ELSE UNCHANGED <<sup, audits>>
  /\ UNCHANGED <<settings, life, turn, active, resend, lost>>

(* An idle report from elsewhere than the turn. *)
ReportsIdle == turn' = IF Running THEN turn ELSE "idle"

(* The runtime was killed during the wait: send throws, and the handler      *)
(* reports the session idle.                                                 *)
SendThrows(t, j) ==
  /\ sends[t] = "orphaned"
  /\ sends' = [sends EXCEPT ![t] = "done"]
  /\ sup' = OnIdle(sup, j)
  /\ ReportsIdle
  /\ UNCHANGED <<settings, life, queue, active, resend, lost, audits>>

-----------------------------------------------------------------------------
(* The user's other commands, and the turn.                                  *)

(* The user takes back a queued message; the handler then reports the state  *)
(* of the session, which is an idle boundary when no turn is running.        *)
Undo(i, j) ==
  /\ i \in 1..Len(queue)
  /\ queue' = [k \in 1..(Len(queue) - 1) |->
                 IF k < i THEN queue[k] ELSE queue[k + 1]]
  /\ LET s == WithoutIntent(sup, queue[i])
     IN  sup' = IF Running THEN s ELSE OnIdle(s, j)
  /\ ReportsIdle
  /\ UNCHANGED <<settings, sends, life, active, resend, lost, audits>>

(* session.update_transport_config. *)
SaveSettings(m, j) ==
  /\ mode' = m
  /\ IF m = "off"
       THEN /\ sup' = CancelSession(sup) /\ audits' = AuditCancelled(sup)
            /\ late' = {t \in Tasks : sends[t] = "on"}
       ELSE /\ sup' = IF Active(sup) \/ turn # "idle" THEN sup
                      ELSE StartImplicitRun(sup, j)
            /\ late' = {}
            /\ UNCHANGED audits
  /\ UNCHANGED <<sends, runtime>>

(* The stop button clears the resend queue and reports idle; with a runtime  *)
(* in the map it also cancels the automation and then the turn, which itself *)
(* ends later.                                                               *)
Stop(j) ==
  /\ resend' = <<>>
  /\ lost' = lost \union Dropped(resend, <<>>)
  /\ LET s == OnIdle(sup, j)
     IN  IF life = "up"
           THEN /\ sup' = CancelSession(s) /\ audits' = AuditCancelled(s)
                /\ UNCHANGED turn
           ELSE sup' = s /\ ReportsIdle /\ UNCHANGED audits
  /\ UNCHANGED <<settings, sends, life, queue, active>>

AssistantText ==
  /\ Running /\ life = "up"
  /\ sup' = OnAssistantText(sup)
  /\ UNCHANGED <<settings, sends, runtime, audits>>

(* The turn completes or is cancelled: queued messages start the next turn   *)
(* at once, and only an empty queue makes the session idle.                  *)
TurnEnds(j) ==
  /\ Running /\ life = "up"
  /\ IF queue # <<>>
       THEN Delivered(queue) /\ UNCHANGED turn
       ELSE sup' = OnIdle(sup, j) /\ turn' = "idle" /\ UNCHANGED audits
  /\ active' = queue
  /\ queue' = <<>>
  /\ UNCHANGED <<settings, sends, life, resend, lost>>

-----------------------------------------------------------------------------
(* The runtime is replaced.                                                  *)

(* The status becomes error.  Unless too many restarts were spent, the       *)
(* failed turn's messages go to the resend queue and the runtime leaves the  *)
(* map, unsubscribed, to be killed.  A recoverable error has dropped its     *)
(* turn's messages, and comes here only with nothing queued.                 *)
TurnFails ==
  /\ life = "up" /\ turn # "other"
  /\ turn' = "other"
  /\ active' = <<>>
  /\ sup' = OnBlocked(sup)
  /\ \/ UNCHANGED <<life, resend>>
     \/ /\ life' = "ending"
        /\ resend' \in {Capped(resend \o active)}
                       \union (IF queue = <<>> THEN {resend} ELSE {})
  /\ UNCHANGED <<settings, sends, queue, lost, audits>>

(* A restart, or new runtime settings: the runtime is killed in mid-turn. *)
Relaunch ==
  /\ life = "up"
  /\ life' = "ending"
  /\ active' = <<>>
  /\ UNCHANGED <<settings, sends, turn, queue, resend, lost, sup, audits>>

(* endSession has returned: kill reports idle, unless that was the runtime's *)
(* status already, and empties the queue, whose intents stay.                *)
KillReturns(j) ==
  /\ life = "ending"
  /\ life' = "none"
  /\ \/ turn' = "idle" /\ sup' = OnIdle(sup, j)
     \/ ~Running /\ UNCHANGED <<turn, sup>>
  /\ queue' = <<>> /\ active' = <<>>
  /\ lost' = lost \union Dropped(queue, <<>>)
  /\ sends' = [t \in Tasks |-> IF sends[t] \in Modes THEN "orphaned" ELSE sends[t]]
  /\ UNCHANGED <<settings, resend, audits>>

(* A new runtime is in the map, and in the same step what has not expired in *)
(* the resend queue is sent to it: the first message starts a turn, the      *)
(* others wait behind it.                                                    *)
LaunchSucceeds ==
  /\ life = "none"
  /\ life' = "up"
  /\ \E expired \in 0..Len(resend) :
       LET fit == SubSeq(resend, expired + 1, Len(resend)) IN
       /\ lost' = lost \union Dropped(resend, fit)
       /\ IF fit = <<>>
            THEN /\ turn' = "other"
                 /\ UNCHANGED <<queue, active, sup, audits>>
            ELSE /\ turn' = "running"
                 /\ active' = <<Head(fit)>> /\ queue' = Tail(fit)
                 /\ Delivered(<<Head(fit)>>)
  /\ resend' = <<>>
  /\ UNCHANGED <<settings, sends>>

-----------------------------------------------------------------------------
(* The continuations of evaluateExecutionTurn and startAudit.                *)

Free(s, j) == [s EXCEPT !.jobs[j] = FreeJob]
SameGeneration(j) == Active(sup) /\ sup.run.gen = sup.jobs[j].gen
Current(j) == SameGeneration(j) /\ sup.run.phase = "execution"

(* send of an automation prompt, to the runtime of the map. *)
SendPrompt ==
  /\ life = "up"
  /\ Running => Len(queue) < QueueCap
  /\ turn' = "running"
  /\ queue' = IF Running THEN Append(queue, Prompt) ELSE queue
  /\ active' = IF Running THEN active ELSE <<Prompt>>
  /\ UNCHANGED <<life, resend, lost>>

DecideStale(j) ==
  /\ sup.jobs[j].stage = "deciding" /\ ~Current(j)
  /\ sup' = Free(sup, j)
  /\ UNCHANGED <<settings, sends, runtime, audits>>

(* Mutant: the warning is shown, the run is not finished.                    *)
HandedBackInWords(s, j) == [Free(s, j) EXCEPT !.run.evaluating = FALSE]
HandedBack(s, j) == FinishRun(Free(s, j))

(* ask_human, which also stands for an unavailable broker, a reached limit   *)
(* and a session that can no longer be sent to; or a complete task that      *)
(* needs no audit.                                                           *)
DecideHandBack(j) ==
  /\ sup.jobs[j].stage = "deciding" /\ Current(j)
  /\ sup' = HandedBack(sup, j)
  /\ UNCHANGED <<settings, sends, runtime, audits>>

(* continue: the same kind of continuation lengthens the streak. *)
DecideContinue(j) ==
  /\ sup.jobs[j].stage = "deciding" /\ Current(j)
  /\ sup.run.loops < MaxContinue
  /\ \E streak \in {1, sup.run.streak + 1} :
       /\ streak <= MaxStreak
       /\ sup' = [Free(sup, j) EXCEPT
                    !.run.evaluating = FALSE, !.run.saw = FALSE,
                    !.run.loops = @ + 1, !.run.streak = streak]
  /\ SendPrompt
  /\ UNCHANGED <<settings, sends, audits>>

(* complete, and the run's snapshot wants an audit: the baseline is          *)
(* collected first.                                                          *)
DecideAudit(j) ==
  /\ sup.jobs[j].stage = "deciding" /\ Current(j)
  /\ sup' = [sup EXCEPT !.run.evaluating = FALSE,
                        !.jobs[j].stage = "baseline", !.jobs[j].own = TRUE]
  /\ UNCHANGED <<settings, sends, runtime, audits>>

BaselineReady(j) ==
  /\ sup.jobs[j].stage = "baseline"
  /\ sup' = IF SameGeneration(j)
              THEN [sup EXCEPT !.run.phase = "auditing",
                               !.run.evaluating = FALSE,
                               !.jobs[j].stage = "launching",
                               !.jobs[j].own = TRUE]
              ELSE Free(sup, j)
  /\ UNCHANGED <<settings, sends, runtime, audits>>

BaselineFails(j) ==
  /\ sup.jobs[j].stage = "baseline"
  /\ sup' = FinishRun(Free(sup, j))
  /\ UNCHANGED <<settings, sends, runtime, audits>>

(* startP2pRun returns: the id goes to the run the continuation holds, the   *)
(* poller replaces whatever poller the session has.                          *)
Unused(a) == audits[a] = "gone" /\ a # sup.run.audit /\ a # sup.poller.audit
LaunchAudit(j, a) ==
  /\ sup.jobs[j].stage = "launching" /\ Unused(a)
  /\ audits' = [audits EXCEPT ![a] = "live"]
  /\ LET s == [Free(sup, j) EXCEPT
                 !.poller = [gen |-> sup.jobs[j].gen, audit |-> a]]
     IN  sup' = IF sup.jobs[j].own THEN [s EXCEPT !.run.audit = a] ELSE s
  /\ UNCHANGED <<settings, sends, runtime>>

(* The daemon stayed busy for three attempts, or the run could not start:    *)
(* whichever run the session has now is dropped.                             *)
LaunchFails(j) ==
  /\ sup.jobs[j].stage = "launching"
  /\ sup' = DropRun(Free(sup, j))
  /\ UNCHANGED <<settings, sends, runtime, audits>>

-----------------------------------------------------------------------------
(* The audit poller, once a second. *)

Watching ==
  /\ Active(sup) /\ sup.run.phase = "auditing"
  /\ sup.poller = [gen |-> sup.run.gen, audit |-> sup.run.audit]

PollStale ==
  /\ sup.poller # NoPoller /\ ~Watching
  /\ sup' = [sup EXCEPT !.poller = NoPoller]
  /\ UNCHANGED <<settings, sends, runtime, audits>>

(* PASS, no verdict, a failed audit, the rework limit, or a session that     *)
(* cannot be sent the brief.                                                 *)
PollSettles ==
  /\ sup.poller # NoPoller /\ Watching
  /\ audits[sup.poller.audit] \in {"completed", "failed"}
  /\ sup' = DropRun(sup)
  /\ UNCHANGED <<settings, sends, runtime, audits>>

PollRework ==
  /\ sup.poller # NoPoller /\ Watching
  /\ audits[sup.poller.audit] = "completed"
  /\ sup.run.reworks < MaxAuditLoops
  /\ sup' = [sup EXCEPT !.run.phase = "execution", !.run.audit = None,
                        !.run.evaluating = FALSE, !.run.saw = FALSE,
                        !.run.reworks = @ + 1, !.poller = NoPoller]
  /\ SendPrompt
  /\ UNCHANGED <<settings, sends, audits>>

Poll == PollStale \/ PollSettles \/ PollRework

-----------------------------------------------------------------------------
(* The audit runs, as the P2P orchestrator lists them. *)

AuditEnds(a, status) ==
  /\ audits[a] \in {"live", "cancelling"}
  /\ audits' = [audits EXCEPT ![a] = status]
  /\ UNCHANGED <<settings, sends, runtime, sup>>

(* The user cancels the run in its own view. *)
AuditCancelledByUser(a) ==
  /\ audits[a] = "live"
  /\ audits' = [audits EXCEPT ![a] = "cancelling"]
  /\ UNCHANGED <<settings, sends, runtime, sup>>

(* cancelP2pRun has interrupted the target and deletes the run; or the       *)
(* deferred cleanup does, a minute after the run ended, by when a poller     *)
(* that can act on the status has (it looks every second).                   *)
AuditLeavesTable(a) ==
  /\ \/ audits[a] = "cancelling"
     \/ audits[a] = "timed_out"
     \/ audits[a] \in {"completed", "failed"} /\ sup.poller.audit # a
  /\ audits' = [audits EXCEPT ![a] = "gone"]
  /\ UNCHANGED <<settings, sends, runtime, sup>>

-----------------------------------------------------------------------------
(* The events that may start an evaluation, in the slot j; which of the free *)
(* slots that is does not matter.                                            *)
FreeSlot == CHOOSE j \in Jobs : sup.jobs[j].stage = "none"

IdleBoundary(j) ==
  /\ sup.jobs[j].stage = "none" /\ j = FreeSlot
  /\ \/ \E t \in Tasks : SendThrows(t, j)
     \/ \E i \in 1..Len(queue) : Undo(i, j)
     \/ \E m \in Modes : SaveSettings(m, j)
     \/ Stop(j)
     \/ TurnEnds(j)
     \/ KillReturns(j)

Decide(j) ==
  DecideStale(j) \/ DecideHandBack(j) \/ DecideContinue(j) \/ DecideAudit(j)
Baseline(j) == BaselineReady(j) \/ BaselineFails(j)
Launch(j) == LaunchFails(j) \/ \E a \in Audits : LaunchAudit(j, a)

Next ==
  \/ \E t \in Tasks : Arrive(t) \/ ArriveUnready(t) \/ SendNow(t) \/ SendQueued(t)
  \/ AssistantText \/ TurnFails \/ Relaunch \/ LaunchSucceeds
  \/ \E j \in Jobs : IdleBoundary(j) \/ Decide(j) \/ Baseline(j) \/ Launch(j)
  \/ Poll
  \/ \E a \in Audits :
       \/ \E status \in Terminal : AuditEnds(a, status)
       \/ AuditCancelledByUser(a) \/ AuditLeavesTable(a)

Spec == Init /\ [][Next]_vars

(* The broker's answer and the audit's baseline come or fail: both awaits    *)
(* have time limits.                                                         *)
AnswersCome == \A j \in Jobs : WF_vars(Decide(j) \/ Baseline(j))

(* So does the launch of an audit; the poller's timer fires, a turn of the   *)
(* agent and a P2P run end: the user owes nothing, and neither does the      *)
(* launch of a runtime.                                                      *)
Fairness ==
  /\ AnswersCome
  /\ \A j \in Jobs : WF_vars(Launch(j))
  /\ WF_vars(\/ Running /\ TurnFails
             \/ \E j \in Jobs : /\ sup.jobs[j].stage = "none"
                               /\ (TurnEnds(j) \/ KillReturns(j)))
  /\ WF_vars(Poll)
  /\ \A a \in Audits :
       WF_vars((\E status \in Terminal : AuditEnds(a, status))
               \/ AuditLeavesTable(a))

AnsweringSpec == Spec /\ AnswersCome
FairSpec == Spec /\ Fairness

-----------------------------------------------------------------------------
(* While supervision is off the only automation is that of a send which had  *)
(* read the settings before they switched it off, and waited: no other run   *)
(* and no other intent that a late event could turn into one, whatever       *)
(* evaluations, redeliveries and drains are still to come.                   *)
OffMeansInert ==
  mode = "off" => /\ Active(sup) => sup.run.task \in late
                  /\ sup.pending # None => sup.pending \in late

(* An intent waits exactly as long as its message does: in the runtime's     *)
(* queue or for the next runtime, where a drain will find it.  It is left    *)
(* behind only by a message the session has dropped, never by an undone one  *)
(* nor by one that was sent.                                                 *)
IntentIsQueued ==
  sup.pending # None => \/ In(sup.pending, queue) \/ In(sup.pending, resend)
                        \/ sup.pending \in lost

(* A run in its execution phase is always being driven: by the turn of the   *)
(* session, or by an evaluation or a baseline of its own generation that     *)
(* will come back to it.  No event may be dropped because another one is     *)
(* believed to be on its way.                                                *)
RunIsDriven ==
  sup.run.phase = "execution" =>
    Running \/ \E j \in Jobs : /\ sup.jobs[j].stage \in {"deciding", "baseline"}
                            /\ sup.jobs[j].gen = sup.run.gen

(* A supervised task whose session went idle does not hang there: it is      *)
(* continued, audited or given back (README.md:90).                          *)
IdleTaskIsDecided ==
  (sup.run.phase = "execution" /\ ~Running) ~>
    (Running \/ sup.run.phase # "execution")

(* README.md:90, fail closed: a run under audit is eventually decided.       *)
AuditReturnsControl ==
  (sup.run.phase = "auditing") ~> (sup.run.phase # "auditing")
=============================================================================
