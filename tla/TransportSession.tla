-------------------------- MODULE TransportSession --------------------------
(***************************************************************************)
(* One transport session of the daemon: the chat messages a user sends to  *)
(* it, the runtime that turns them into provider turns, and the machinery  *)
(* that tears the runtime down and builds another when a turn fails.       *)
(*                                                                         *)
(*   TransportSessionRuntime    src/agent/transport-session-runtime.ts *)
(*   runtime map, recovery,     src/agent/session-manager.ts           *)
(*     launch, restore                                                     *)
(*   resend queue               src/daemon/transport-resend-queue.ts   *)
(*   session.send handler,      src/daemon/command-handler.ts          *)
(*     /stop, /clear, restart, relaunch lock                               *)
(*                                                                         *)
(* The daemon is one JavaScript thread, so everything between two awaits   *)
(* is one action.  Several runtimes of the same session can exist at once: *)
(* the one in the map, one whose kill() is awaiting endSession, and ones   *)
(* that handlers captured before an await.                                 *)
(***************************************************************************)
EXTENDS Naturals, Sequences, SequencesExt

CONSTANTS
  Commands,     \* commandIds of session.send, each sent by the user once
  Runtimes,     \* identities of the runtimes built in one daemon life
  None,         \* no runtime: the map has no entry for the session
  MaxRestarts,  \* MAX_RESTARTS, automatic recoveries per window
  ResendCap     \* MAX_RESEND_ENTRIES

ASSUME SessionAssumption ==
  /\ None \notin Runtimes
  /\ MaxRestarts \in Nat
  /\ ResendCap \in Nat \ {0}

VARIABLES
  rt,          \* the runtimes: Runtimes -> RuntimeState
  registered,  \* transportRuntimes.get(name)
  dispatches,  \* the async halves of _dispatchTurn still running
  turn,        \* provider side: the messages each provider session runs
  resend,      \* queues.get(name) of the resend queue
  launch,      \* the three code paths that stop and launch a runtime
  restarts,    \* transportErrorRecoveryTimestamps inside the window
  handler,     \* the handleSend call of each command
  told         \* history: drops the user was told of, or asked for

vars == <<rt, registered, dispatches, turn, resend, launch, restarts, handler, told>>

-----------------------------------------------------------------------------
(* The runtime object. "ending": kill() has unsubscribed from the provider  *)
(* and awaits endSession, providerSessionId still set; "dead": it is null.  *)
(* _activeTurn is set and cleared with _sending, so sending stands for both.*)
RuntimeState ==
  [life    : {"unborn", "live", "ending", "dead"},
   status  : {"idle", "thinking", "streaming", "error"},
   sending : BOOLEAN,
   active  : Seq(Commands),
   pending : Seq(Commands)]

Blank(l) == [life |-> l, status |-> "idle", sending |-> FALSE,
             active |-> <<>>, pending |-> <<>>]

(* recovery: transportErrorRecoveryInFlight; relaunch: the promise held in  *)
(* pendingSessionRelaunches; restore: restoreTransportSessions.             *)
Launchers == {"recovery", "relaunch", "restore"}

LaunchState ==
  [stage  : {"idle", "stopping", "launching"},
   victim : Runtimes \union {None},
   fresh  : BOOLEAN]

NoLaunch == [stage |-> "idle", victim |-> None, fresh |-> FALSE]

Dispatch == [rt : Runtimes, msgs : Seq(Commands), stage : {"preparing", "started"}]

HandlerState ==
  [phase  : {"new", "waiting", "captured", "admitted", "done"},
   target : Runtimes \union {None}]

TypeOK ==
  /\ rt \in [Runtimes -> RuntimeState]
  /\ registered \in Runtimes \union {None}
  /\ dispatches \in SUBSET Dispatch
  /\ turn \in [Runtimes -> Seq(Commands)]
  /\ resend \in Seq(Commands)
  /\ launch \in [Launchers -> LaunchState]
  /\ restarts \in Nat
  /\ handler \in [Commands -> HandlerState]
  /\ told \in SUBSET Commands

(* The daemon has just started: sessions are in the store, no runtime is    *)
(* built, and restoreTransportSessions is about to build the first.         *)
Init ==
  /\ rt = [r \in Runtimes |-> Blank("unborn")]
  /\ registered = None
  /\ dispatches = {}
  /\ turn = [r \in Runtimes |-> <<>>]
  /\ resend = <<>>
  /\ launch = [l \in Launchers |->
                 IF l = "restore" THEN [NoLaunch EXCEPT !.stage = "launching"]
                                  ELSE NoLaunch]
  /\ restarts = 0
  /\ handler = [c \in Commands |-> [phase |-> "new", target |-> None]]
  /\ told = {}

-----------------------------------------------------------------------------
(* Operators on the resend queue and on one runtime.                        *)

(* The newest entries that fit: enqueueResend makes room by dropping the     *)
(* oldest entry of a full queue.                                             *)
Newest(q) == IF Len(q) > ResendCap THEN SubSeq(q, Len(q) - ResendCap + 1, Len(q)) ELSE q

Enqueued(q, c) == Newest(Append(q, c))

(* The subsequence of msgs whose ids are not in q, as a singleton set.  It  *)
(* is picked by its index function, not computed by recursion, so that the  *)
(* provers can see it.                                                      *)
NotQueued(q, msgs) ==
  LET new == {i \in DOMAIN msgs : msgs[i] \notin ToSet(q)}
      picks == UNION {[1..n -> DOMAIN msgs] : n \in 0..Len(msgs)}
  IN {[k \in DOMAIN p |-> msgs[p[k]]] :
        p \in {f \in picks : /\ Range(f) = new
                            /\ \A i, j \in DOMAIN f : i < j => f[i] < f[j]}}

(* queueTransportErrorResendEntries: what the queue becomes, a singleton.   *)
Requeued(q, msgs) == {Newest(q \o s) : s \in NotQueued(q, msgs)}

(* Mutant: the payload of the turn is not recorded.                         *)
BeginTurnUnrecorded(x, msgs) == [x EXCEPT !.status = "thinking", !.sending = TRUE]

(* The synchronous half of _dispatchTurn, and the promise it leaves behind. *)
BeginTurn(x, msgs) == [x EXCEPT !.status = "thinking", !.sending = TRUE, !.active = msgs]
Begun(r, msgs) == [rt |-> r, msgs |-> msgs, stage |-> "preparing"]

(* send: queue behind the turn in flight, or dispatch.                      *)
Send(x, c) == IF x.sending THEN [x EXCEPT !.pending = Append(@, c)] ELSE BeginTurn(x, <<c>>)

(* Mutants: the queue behind the turn is forgotten; the queue is dispatched *)
(* as if it were one message.                                               *)
DrainedForgetful(x) == [x EXCEPT !.status = "idle", !.sending = FALSE, !.active = <<>>]
DrainedNested(x) ==
  IF x.pending = <<>> THEN DrainedForgetful(x)
                      ELSE [BeginTurn(x, <<x.pending>>) EXCEPT !.pending = <<>>]

(* onComplete, and onError when the error allows draining: the turn is      *)
(* over, every pending message is merged into the next one, or none is left.*)
Drained(x) ==
  IF x.pending = <<>>
  THEN [x EXCEPT !.status = "idle", !.sending = FALSE, !.active = <<>>]
  ELSE [BeginTurn(x, x.pending) EXCEPT !.pending = <<>>]

(* Mutant: the state says a turn runs, but the async half never starts.     *)
DrainDispatchNever(r) == {}

DrainDispatch(r) ==
  IF rt[r].pending = <<>> THEN {} ELSE {Begun(r, rt[r].pending)}

(* Mutant: the runtime is taken out of the map only after endSession.       *)
StopBeforeUnmapping(l, f, fresh) ==
  /\ registered # None
  /\ registered' = registered
  /\ rt' = [f EXCEPT ![registered].life = "ending"]
  /\ launch' = [launch EXCEPT ![l] = [stage |-> "stopping", victim |-> registered,
                                     fresh |-> fresh]]

(* The record in the map is handed to l to be stopped: it leaves the map    *)
(* and is unsubscribed at once, endSession is awaited.  f is what the       *)
(* runtimes are after the caller's own update.                              *)
StopAndLaunch(l, f, fresh) ==
  /\ registered' = None
  /\ IF registered = None
     THEN /\ rt' = f
          /\ launch' = [launch EXCEPT ![l] = [stage |-> "launching", victim |-> None,
                                              fresh |-> FALSE]]
     ELSE /\ rt' = [f EXCEPT ![registered].life = "ending"]
          /\ launch' = [launch EXCEPT ![l] = [stage |-> "stopping", victim |-> registered,
                                              fresh |-> fresh]]

(* Mutant: the payload is requeued, the runtime stays in service.           *)
FailTurnKeepRuntime(r, entries) ==
  /\ rt' = [rt EXCEPT ![r].sending = FALSE, ![r].status = "error", ![r].active = entries]
  /\ resend' \in Requeued(resend, entries)
  /\ restarts' = restarts + 1
  /\ UNCHANGED <<registered, launch, told>>

(* Runtime r reports status "error" keeping entries as its failed payload.  *)
(* The status callback starts a recovery, unless the status was "error"     *)
(* already, a recovery is in flight, or too many happened in the window.    *)
FailTurn(r, entries) ==
  LET failed == [rt EXCEPT ![r].sending = FALSE, ![r].status = "error",
                           ![r].active = entries]
      reported == rt[r].status # "error" /\ launch["recovery"].stage = "idle"
  IN IF reported /\ restarts < MaxRestarts
     THEN /\ restarts' = restarts + 1
          /\ resend' \in Requeued(resend, entries)
          /\ StopAndLaunch("recovery", failed, FALSE)
          /\ UNCHANGED told
     ELSE /\ rt' = failed
          /\ told' = IF reported THEN told \union ToSet(entries) ELSE told
          /\ UNCHANGED <<restarts, resend, registered, launch>>

-----------------------------------------------------------------------------
(* session.send.                                                            *)

(* The receipt is acknowledged before the first await; the handler then     *)
(* waits for a relaunch in progress and reads the runtime map.              *)
Receive(c) ==
  /\ handler[c].phase = "new"
  /\ handler' = [handler EXCEPT ![c] =
                   IF launch["relaunch"].stage = "idle"
                   THEN [phase |-> "captured", target |-> registered]
                   ELSE [phase |-> "waiting", target |-> None]]
  /\ UNCHANGED <<rt, registered, dispatches, turn, resend, launch, restarts, told>>

(* No runtime, or one whose provider session is gone: queue for resend and  *)
(* resume, unless a relaunch is already under way.                          *)
QueueAndResume(c) ==
  /\ handler[c].phase = "captured"
  /\ \/ handler[c].target = None
     \/ /\ handler[c].target # None
        /\ rt[handler[c].target].life = "dead"
  /\ resend' = Enqueued(resend, c)
  /\ told' = told \union (ToSet(resend) \ ToSet(resend'))
  /\ handler' = [handler EXCEPT ![c].phase = "done"]
  /\ IF launch["relaunch"].stage = "idle"
     THEN StopAndLaunch("relaunch", rt, FALSE)
     ELSE UNCHANGED <<rt, registered, launch>>
  /\ UNCHANGED <<dispatches, turn, restarts>>

(* A runtime with a provider session: the handler waits for the session's   *)
(* send mutex.                                                              *)
AwaitMutex(c) ==
  /\ handler[c].phase = "captured"
  /\ handler[c].target # None
  /\ rt[handler[c].target].life # "dead"
  /\ handler' = [handler EXCEPT ![c].phase = "admitted"]
  /\ UNCHANGED <<rt, registered, dispatches, turn, resend, launch, restarts, told>>

(* With the mutex held, the captured runtime is sent the message.  If its   *)
(* provider session has gone meanwhile, send() throws and the user is told. *)
SendToRuntime(c) ==
  LET r == handler[c].target IN
  /\ handler[c].phase = "admitted"
  /\ handler' = [handler EXCEPT ![c].phase = "done"]
  /\ IF rt[r].life = "dead"
     THEN told' = told \union {c} /\ UNCHANGED <<rt, dispatches>>
     ELSE /\ rt' = [rt EXCEPT ![r] = Send(@, c)]
          /\ dispatches' = IF rt[r].sending THEN dispatches
                                            ELSE dispatches \union {Begun(r, <<c>>)}
          /\ UNCHANGED told
  /\ UNCHANGED <<registered, turn, resend, launch, restarts>>

-----------------------------------------------------------------------------
(* The async half of _dispatchTurn, and the provider's callbacks.           *)

(* Context is ready and provider.send starts a turn.                        *)
ProviderStarts(d) ==
  /\ d \in dispatches
  /\ d.stage = "preparing"
  /\ rt[d.rt].life \in {"live", "ending"}
  /\ turn[d.rt] = <<>>
  /\ turn' = [turn EXCEPT ![d.rt] = d.msgs]
  /\ dispatches' = (dispatches \ {d}) \union {[d EXCEPT !.stage = "started"]}
  /\ UNCHANGED <<rt, registered, resend, launch, restarts, handler, told>>

DispatchResolves(d) ==
  /\ d \in dispatches
  /\ d.stage = "started"
  /\ dispatches' = dispatches \ {d}
  /\ UNCHANGED <<rt, registered, turn, resend, launch, restarts, handler, told>>

(* Preparation failed, the provider refused, or it did not answer in time:  *)
(* the turn in flight, whichever it is, is marked failed.                   *)
DispatchRejects(d) ==
  /\ d \in dispatches
  /\ dispatches' = dispatches \ {d}
  /\ IF rt[d.rt].sending
     THEN FailTurn(d.rt, rt[d.rt].active)
     ELSE UNCHANGED <<rt, registered, resend, launch, restarts, told>>
  /\ UNCHANGED <<turn, handler>>

ProviderDelta(r) ==
  /\ rt[r].life = "live"
  /\ turn[r] # <<>>
  /\ rt[r].status # "streaming"
  /\ rt' = [rt EXCEPT ![r].status = "streaming"]
  /\ UNCHANGED <<registered, dispatches, turn, resend, launch, restarts, handler, told>>

(* onComplete, and onError CANCELLED after a cancel of the running turn.    *)
ProviderComplete(r) ==
  /\ rt[r].life = "live"
  /\ turn[r] # <<>>
  /\ turn' = [turn EXCEPT ![r] = <<>>]
  /\ rt' = [rt EXCEPT ![r] = Drained(@)]
  /\ dispatches' = dispatches \union DrainDispatch(r)
  /\ UNCHANGED <<registered, resend, launch, restarts, handler, told>>

(* A recoverable error ends the running turn and drops its payload; the     *)
(* queue goes on, or the status becomes "error".                            *)
ProviderRecoverableError(r) ==
  /\ rt[r].life = "live"
  /\ turn[r] # <<>>
  /\ turn' = [turn EXCEPT ![r] = <<>>]
  /\ IF rt[r].pending # <<>>
     THEN /\ rt' = [rt EXCEPT ![r] = Drained(@)]
          /\ dispatches' = dispatches \union DrainDispatch(r)
          /\ UNCHANGED <<registered, resend, launch, restarts, told>>
     ELSE /\ FailTurn(r, <<>>)
          /\ UNCHANGED dispatches
  /\ UNCHANGED <<handler>>

(* An unrecoverable error: of the running turn, or of the connection, which *)
(* a provider reports to every session it has.                              *)
ProviderFatalError(r) ==
  /\ rt[r].life = "live"
  /\ turn' = [turn EXCEPT ![r] = <<>>]
  /\ FailTurn(r, rt[r].active)
  /\ UNCHANGED <<dispatches, handler>>

-----------------------------------------------------------------------------
(* Stopping and launching.                                                  *)

(* Handlers waiting for the relaunch lock read the map once it is released. *)
Released(l, r) ==
  IF l # "relaunch" THEN handler
  ELSE [c \in Commands |-> IF handler[c].phase = "waiting"
                           THEN [phase |-> "captured", target |-> r]
                           ELSE handler[c]]

(* endSession returned: kill() wipes the runtime, queue included.  A fresh  *)
(* launch then stops whatever another launcher has put in the map.          *)
KillReturns(l) ==
  LET wiped == [rt EXCEPT ![launch[l].victim] = Blank("dead")] IN
  /\ launch[l].stage = "stopping"
  /\ turn' = [turn EXCEPT ![launch[l].victim] = <<>>]
  /\ IF launch[l].fresh
     THEN StopAndLaunch(l, wiped, FALSE)
     ELSE /\ rt' = wiped
          /\ launch' = [launch EXCEPT ![l] = [NoLaunch EXCEPT !.stage = "launching"]]
          /\ UNCHANGED registered
  /\ UNCHANGED <<dispatches, resend, restarts, handler, told>>

(* endSession threw: nothing is wiped.  The error is swallowed and the      *)
(* launch goes on, except for a fresh launch, which fails with it.          *)
KillThrows(l) ==
  /\ launch[l].stage = "stopping"
  /\ IF launch[l].fresh
     THEN /\ launch' = [launch EXCEPT ![l] = NoLaunch]
          /\ handler' = Released(l, registered)
     ELSE /\ launch' = [launch EXCEPT ![l] = [NoLaunch EXCEPT !.stage = "launching"]]
          /\ UNCHANGED handler
  /\ UNCHANGED <<rt, registered, dispatches, turn, resend, restarts, told>>

(* A new runtime is initialised, put in the map, and sent what waits in the *)
(* resend queue; the oldest entries may have expired, which the user is     *)
(* told.  The first entry starts a turn, the others queue behind it.        *)
LaunchSucceeds(l) ==
  /\ launch[l].stage = "launching"
  /\ \E n \in Runtimes, expired \in 0..Len(resend) :
       LET fit == SubSeq(resend, expired + 1, Len(resend)) IN
       /\ rt[n].life = "unborn"
       /\ rt' = [rt EXCEPT ![n] =
                   IF fit = <<>> THEN Blank("live")
                   ELSE [BeginTurn(Blank("live"), <<Head(fit)>>) EXCEPT !.pending = Tail(fit)]]
       /\ dispatches' = IF fit = <<>> THEN dispatches
                        ELSE dispatches \union {Begun(n, <<Head(fit)>>)}
       /\ told' = told \union ToSet(SubSeq(resend, 1, expired))
       /\ registered' = n
       /\ handler' = Released(l, n)
  /\ resend' = <<>>
  /\ launch' = [launch EXCEPT ![l] = NoLaunch]
  /\ UNCHANGED <<turn, restarts>>

(* Mutant: a failed launch keeps the relaunch lock's waiters waiting.        *)
LaunchFailsLocked(l) ==
  /\ launch[l].stage = "launching"
  /\ launch' = [launch EXCEPT ![l] = NoLaunch]
  /\ UNCHANGED <<rt, registered, dispatches, turn, resend, restarts, handler, told>>

LaunchFails(l) ==
  /\ launch[l].stage = "launching"
  /\ launch' = [launch EXCEPT ![l] = NoLaunch]
  /\ handler' = Released(l, registered)
  /\ UNCHANGED <<rt, registered, dispatches, turn, resend, restarts, told>>

(* A provider (re)connects and the session has no runtime.                  *)
RestoreStarts ==
  /\ launch["restore"].stage = "idle"
  /\ registered = None
  /\ launch' = [launch EXCEPT !["restore"].stage = "launching"]
  /\ UNCHANGED <<rt, registered, dispatches, turn, resend, restarts, handler, told>>

(* session.restart, under the relaunch lock.                                *)
Restart ==
  /\ launch["relaunch"].stage = "idle"
  /\ StopAndLaunch("relaunch", rt, FALSE)
  /\ UNCHANGED <<dispatches, turn, resend, restarts, handler, told>>

(* /clear: the resend queue is dropped and a fresh conversation launched.   *)
Clear ==
  /\ registered # None
  /\ resend' = <<>>
  /\ told' = told \union ToSet(resend)
  /\ IF launch["relaunch"].stage = "idle"
     THEN StopAndLaunch("relaunch", rt, TRUE)
     ELSE UNCHANGED <<rt, registered, launch>>
  /\ UNCHANGED <<dispatches, turn, restarts, handler>>

(* /stop: the resend queue is dropped; a running turn is cancelled, which   *)
(* the provider reports later as CANCELLED.                                 *)
Stop ==
  /\ resend # <<>>
  /\ resend' = <<>>
  /\ told' = told \union ToSet(resend)
  /\ UNCHANGED <<rt, registered, dispatches, turn, launch, restarts, handler>>

(* The user withdraws a queued message from the runtime the handler found.  *)
Undo(r, i) ==
  /\ rt[r].life \in {"live", "ending"}
  /\ i \in DOMAIN rt[r].pending
  /\ rt' = [rt EXCEPT ![r].pending = RemoveAt(@, i)]
  /\ told' = told \union {rt[r].pending[i]}
  /\ UNCHANGED <<registered, dispatches, turn, resend, launch, restarts, handler>>

(* The oldest recoveries leave the window.                                  *)
WindowPasses ==
  /\ restarts > 0
  /\ restarts' = 0
  /\ UNCHANGED <<rt, registered, dispatches, turn, resend, launch, handler, told>>

-----------------------------------------------------------------------------
Next ==
  \/ \E c \in Commands :
       Receive(c) \/ QueueAndResume(c) \/ AwaitMutex(c) \/ SendToRuntime(c)
  \/ \E d \in dispatches :
       ProviderStarts(d) \/ DispatchResolves(d) \/ DispatchRejects(d)
  \/ \E r \in Runtimes :
       \/ ProviderDelta(r) \/ ProviderComplete(r)
       \/ ProviderRecoverableError(r) \/ ProviderFatalError(r)
       \/ \E i \in DOMAIN rt[r].pending : Undo(r, i)
  \/ \E l \in Launchers :
       KillReturns(l) \/ KillThrows(l) \/ LaunchSucceeds(l) \/ LaunchFails(l)
  \/ RestoreStarts \/ Restart \/ Clear \/ Stop \/ WindowPasses

Spec == Init /\ [][Next]_vars

(* The event loop resumes every handler whose await is over, endSession     *)
(* and initialize settle one way or the other.  Nothing is assumed of the   *)
(* provider's turns nor of the user.                                        *)
Fairness ==
  /\ \A c \in Commands : WF_vars(QueueAndResume(c) \/ AwaitMutex(c) \/ SendToRuntime(c))
  /\ \A l \in Launchers : WF_vars(KillReturns(l) \/ KillThrows(l))
  /\ \A l \in Launchers : WF_vars(LaunchSucceeds(l) \/ LaunchFails(l))

FairSpec == Spec /\ Fairness

-----------------------------------------------------------------------------
(* Status idle is what the clients show as "turn done, queue empty": a      *)
(* runtime in service that reports idle has no turn in flight and no queued *)
(* message left behind, in whatever order errors, cancels, sends and late   *)
(* provider events came.                                                    *)
IdleMeansDrained ==
  \A r \in Runtimes :
    rt[r].life = "live" /\ rt[r].status = "idle" => ~rt[r].sending /\ rt[r].pending = <<>>

(* A runtime in service that counts itself busy, and so queues every new    *)
(* message, has something that can still end its turn: a turn running at    *)
(* the provider, or a dispatch whose promise is not settled.  Otherwise the *)
(* session would be asleep for good.                                        *)
NotWedged ==
  \A r \in Runtimes :
    rt[r].life = "live" /\ rt[r].sending =>
      turn[r] # <<>> \/ \E d \in dispatches : d.rt = r /\ d.stage = "preparing"

(* The map never routes a message to a runtime that is being, or has been,  *)
(* killed: what is stopped has left the map before its first await.         *)
MapHoldsLive == registered # None => rt[registered].life = "live"

WithRegistered(c) ==
  registered # None /\ c \in ToSet(rt[registered].active) \union ToSet(rt[registered].pending)

(* A message that waits for resend is not also with the registered runtime: *)
(* it could be delivered a second time by the next launch.  Replays after   *)
(* an error, overlapping launches and stale handlers all feed both places.  *)
WaitsInOnePlace == \A c \in ToSet(resend) : ~WithRegistered(c)

(* A message leaves the resend queue into the runtime just registered, or   *)
(* the user is told it was dropped; only the requeue of a recovery may push *)
(* the oldest entry out of a full queue.                                    *)
ResendHandsOver ==
  [][\A c \in ToSet(resend) \ ToSet(resend') :
       \/ c \in told'
       \/ WithRegistered(c)'
       \/ restarts' > restarts /\ Len(resend') = ResendCap]_vars

(* A send that arrives while the session is being relaunched is not left    *)
(* waiting: its handler ends once the relaunch has, however it ended and    *)
(* whatever other launches overlap it.                                      *)
WaitingSendsSettle ==
  \A c \in Commands : handler[c].phase = "waiting" ~> handler[c].phase = "done"
=============================================================================
