------------------------------ MODULE CommandAck ------------------------------
(***************************************************************************)
(* How a session.send gets its command.ack: the bridge of one server, the  *)
(* WebSocket links its daemon opens to it one after the other, and the     *)
(* daemon's receipt of the command.                                        *)
(*                                                                         *)
(*   inflight commands, grace   server/src/ws/bridge.ts                    *)
(*     window, auth handshake                                              *)
(*   duplicate check, receipt   src/daemon/command-handler.ts              *)
(*   ack outbox                 src/daemon/ack-outbox.ts                   *)
(*   the daemon's socket        src/daemon/server-link.ts                  *)
(*                                                                         *)
(* Each side is one JavaScript thread: what stands between two awaits is   *)
(* one action.  Time is counted in ticks; no tick passes over a timer that *)
(* is due, while messages and database reads take as long as they like.    *)
(***************************************************************************)
EXTENDS Integers, Sequences, FiniteSets, SequencesExt

CONSTANTS
  Commands,     \* commandIds
  Links,        \* the WebSocket connections of the daemon, in no order
  Reuse,        \* bound: the links that, once dead, stand for a new connection
  None,         \* no link
  AckTimeout,   \* ACK_TIMEOUT_MS, in ticks
  RetryLimit,   \* ACK_TIMEOUT_RETRY_LIMIT
  Grace,        \* RECONNECT_GRACE_MS, in ticks
  AuthTimeout,  \* AUTH_TIMEOUT_MS, in ticks
  GcTtl,        \* INFLIGHT_GC_TTL_MS, in ticks
  SlowDb,       \* may time pass while an auth handler awaits the database?
  MaxSends,     \* bound: how often a user sends one command
  MaxLapses,    \* bound: how often the bridge forgets the acks of one command
  MaxForgets    \* bound: how often the daemon forgets a command without a restart

ASSUME AckAssumption ==
  /\ None \notin Links
  /\ IsFiniteSet(Commands)
  /\ {AckTimeout, Grace, AuthTimeout, GcTtl} \subseteq Nat \ {0}
  /\ RetryLimit \in Nat /\ MaxSends \in Nat /\ {MaxLapses, MaxForgets} \subseteq Nat
  /\ SlowDb \in BOOLEAN /\ Reuse \subseteq Links

VARIABLES
  link,      \* the connections, as the bridge has them
  bridge,    \* connection and grace state of the bridge
  inflight,  \* inflightCommands
  seen,      \* seenCommandAcks
  queue,     \* messages for a daemon that is not connected
  current,   \* the daemon's own socket
  down, up,  \* messages in flight to and from the daemon
  dedup,     \* sessionDedups of the daemon
  forgets,   \* how often it turned out to have let go of a command
  outbox,    \* AckOutbox.entries
  echoDue,   \* accepted commands whose user.message is still to be emitted
  user, sends, acks, lapses   \* CommandPromise: what the browser knows

promise == <<user, sends, acks, lapses>>
daemon  == <<current, dedup, forgets, outbox, echoDue>>
(* What the browser may be told, seen through the same four variables.      *)
Promise == INSTANCE CommandPromise WITH user <- user, sends <- sends, acks <- acks,
                                        lapses <- lapses

vars == <<link, bridge, inflight, seen, queue, down, up, daemon, promise>>

-----------------------------------------------------------------------------
Off == -1     \* a timer that is not armed; armed, it counts the ticks left

Timer(max) == Off..max

(* The auth handler of a link: its message is still to come, it awaits the  *)
(* token ("checking"), then the user's feature flags ("flags"), or is over. *)
LinkState == [phase : {"open", "closing", "closed"},
              auth  : {"none", "checking", "flags", "over"}]

(* evicted is a history: kickDaemon dropped the last socket.                *)
BridgeState == [ws : Links \union {None}, authed : BOOLEAN,
                authPromise : Links \union {None}, authTimer : Timer(AuthTimeout),
                grace : Timer(Grace), offline : BOOLEAN, evicted : BOOLEAN]

InflightState == [state : {"none", "buffered", "dispatched"}, attempts : Nat,
                  timer : Timer(AckTimeout), age : 0..GcTtl+1]

Request == [cmd : Commands, retry : BOOLEAN]
Reply   == [cmd : Commands, kind : {"accepted", "duplicate", "echo"}]

Entry(state, attempts, timer, age) ==
  [state |-> state, attempts |-> attempts, timer |-> timer, age |-> age]

Gone == Entry("none", 0, Off, 0)
Buffered == Entry("buffered", 0, Off, 0)

Pending == {c \in Commands : inflight[c].state # "none"}

TypeOK ==
  /\ link \in [Links -> LinkState]
  /\ bridge \in BridgeState
  /\ inflight \in [Commands -> InflightState]
  /\ seen \subseteq Commands /\ dedup \subseteq Commands /\ echoDue \subseteq Commands
  /\ current \in Links \union {None}
  /\ queue \in Seq(Request) /\ down \in Seq(Request)
  /\ up \in [Links -> Seq(Reply)]
  /\ outbox \in [Commands -> {"none", "accepted", "duplicate"}]
  /\ user \in [Commands -> Promise!Outcomes]
  /\ sends \in [Commands -> 0..MaxSends]
  /\ acks \in [Commands -> Nat]
  /\ lapses \in [Commands -> 0..MaxLapses] /\ forgets \in 0..MaxForgets

(* A server process that has just started, and a daemon not yet connected.  *)
Init ==
  /\ link = [l \in Links |-> [phase |-> "closed", auth |-> "none"]]
  /\ bridge = [ws |-> None, authed |-> FALSE, authPromise |-> None, authTimer |-> Off,
               grace |-> Off, offline |-> FALSE, evicted |-> FALSE]
  /\ inflight = [c \in Commands |-> Gone]
  /\ seen = {} /\ dedup = {} /\ echoDue = {}
  /\ current = None
  /\ queue = <<>> /\ down = <<>>
  /\ up = [l \in Links |-> <<>>]
  /\ outbox = [c \in Commands |-> "none"]
  /\ user = [c \in Commands |-> "unsent"]
  /\ sends = [c \in Commands |-> 0]
  /\ acks = [c \in Commands |-> 0]
  /\ lapses = [c \in Commands |-> 0] /\ forgets = 0

-----------------------------------------------------------------------------
Connected == bridge.ws # None /\ bridge.authed

(* What is written to a link reaches the daemon unless either end has given *)
(* the link up.                                                             *)
Written(l, ms) ==
  IF l = current /\ l # None /\ link[l].phase = "open" THEN down \o ms ELSE down

(* sendToDaemon; the cap of the queue, MAX_QUEUE_SIZE, is not reached.      *)
SendToDaemon(ms) ==
  IF Connected THEN down' = Written(bridge.ws, ms) /\ queue' = queue
               ELSE queue' = queue \o ms /\ down' = down

Closing(l) == IF l # None /\ link[l].phase = "open" THEN [link EXCEPT ![l].phase = "closing"]
                                                  ELSE link

(* attempts counts to the first one past the limit: no guard tells more.    *)
Attempt(n) == IF n > RetryLimit THEN n ELSE n + 1

(* Mutants: the grace period is armed instead of the ack timeout; nothing   *)
(* is armed.                                                                *)
DispatchedGrace(e) == Entry("dispatched", Attempt(e.attempts), Grace, e.age)
DispatchedUnarmed(e) == Entry("dispatched", Attempt(e.attempts), Off, e.age)

(* dispatchInflightToDaemon, the entry's side and the message's side; what  *)
(* onAckTimeout makes of an entry that waits for the reconnect.             *)
Dispatched(e) == Entry("dispatched", Attempt(e.attempts), AckTimeout, e.age)
Parked(e) == Entry("buffered", e.attempts, Off, e.age)
Payload(c, retry) == [cmd |-> c, retry |-> retry]

(* replayInflightToDaemon: oldest first, marked when already dispatched.    *)
ReplayOrders == {cs \in SetToSeqs(Pending) :
                   \A i, j \in DOMAIN cs : i < j => inflight[cs[i]].age >= inflight[cs[j]].age}
Replay(cs) == [i \in DOMAIN cs |-> Payload(cs[i], inflight[cs[i]].attempts > 0)]

Retries(c) == Connected /\ inflight[c].attempts <= RetryLimit

(* Mutant: parked although no grace window is open that could end the wait. *)
ParksAlways == ~Connected
Parks == ~Connected /\ bridge.grace # Off

(* Mutant: the offline announcement is not taken back.                      *)
OnlineQuietly(b) == [b EXCEPT !.authPromise = None, !.grace = Off]
Online(b) == [b EXCEPT !.authPromise = None, !.grace = Off, !.offline = FALSE]

(* emitCommandFailed: a browser whose socket is not open is not told.       *)
Reported(cs) == {u \in [Commands -> Promise!Outcomes] :
                   \A c \in Commands : u[c] = user[c] \/ (c \in cs /\ u[c] = "failed")}

-----------------------------------------------------------------------------
(* The bridge: commands from the browser.                                   *)

(* session.send from the browser, for the first time or again: after the    *)
(* command was reported failed, or when its user has waited long enough.    *)
Submit(c) ==
  /\ user[c] \in {"unsent", "waiting", "failed"} /\ sends[c] < MaxSends
  /\ sends' = [sends EXCEPT ![c] = @ + 1]
  /\ \/ /\ c \in Pending
        /\ user' = [user EXCEPT ![c] = "waiting"]
        /\ UNCHANGED <<inflight, down, queue>>
     \/ /\ c \notin Pending /\ Connected
        /\ inflight' = [inflight EXCEPT ![c] = Dispatched(Gone)]
        /\ SendToDaemon(<<Payload(c, FALSE)>>)
        /\ user' = [user EXCEPT ![c] = "waiting"]
     \/ /\ c \notin Pending /\ ~Connected
        /\ bridge.grace # Off \/ bridge.ws # None
        /\ inflight' = [inflight EXCEPT ![c] = Buffered]
        /\ user' = [user EXCEPT ![c] = "waiting"]
        /\ UNCHANGED <<down, queue>>
     \/ /\ c \notin Pending /\ ~Connected
        /\ bridge.grace = Off /\ bridge.ws = None
        /\ user' = [user EXCEPT ![c] = "failed"]
        /\ UNCHANGED <<inflight, down, queue>>
  /\ UNCHANGED <<link, bridge, seen, up, daemon, acks, lapses>>

(* onAckTimeout: retry, park for the reconnect, or give up.                 *)
AckTimeoutFires(c) ==
  /\ inflight[c].timer = 0
  /\ \/ /\ Retries(c)
        /\ inflight' = [inflight EXCEPT ![c] = Dispatched(@)]
        /\ SendToDaemon(<<Payload(c, TRUE)>>)
        /\ user' = user
     \/ /\ Parks
        /\ inflight' = [inflight EXCEPT ![c] = Parked(@)]
        /\ UNCHANGED <<down, queue, user>>
     \/ /\ ~Retries(c) /\ ~Parks
        /\ inflight' = [inflight EXCEPT ![c] = Gone]
        /\ user' \in Reported({c})
        /\ UNCHANGED <<down, queue>>
  /\ UNCHANGED <<link, bridge, seen, up, daemon, sends, acks, lapses>>

(* onReconnectGraceExpired: every command that waits is reported failed.    *)
GraceExpires ==
  /\ bridge.grace = 0
  /\ IF bridge.authed
     THEN /\ bridge' = [bridge EXCEPT !.grace = Off]
          /\ UNCHANGED <<inflight, user>>
     ELSE /\ bridge' = [bridge EXCEPT !.grace = Off, !.offline = TRUE]
          /\ inflight' = [c \in Commands |-> Gone]
          /\ user' \in Reported(Pending)
  /\ UNCHANGED <<link, seen, queue, down, up, daemon, sends, acks, lapses>>

(* ackHousekeepingSweep drops the old entries, and tells nobody, and        *)
(* forgets the acks older than ACK_DEDUP_TTL_MS.  Their age is not counted: *)
(* any of them may be old, also one that the outbox of the daemon, whose    *)
(* entries live twice as long, still holds.                                 *)
Old == {c \in Pending : inflight[c].age > GcTtl}

Sweep ==
  \E forgotten \in SUBSET {c \in seen : lapses[c] < MaxLapses} :
    /\ Old # {} \/ forgotten # {}
    /\ inflight' = [c \in Commands |-> IF c \in Old THEN Gone ELSE inflight[c]]
    /\ seen' = seen \ forgotten
    /\ lapses' = [c \in Commands |-> IF c \in forgotten THEN lapses[c] + 1 ELSE lapses[c]]
    /\ UNCHANGED <<link, bridge, queue, down, up, daemon, user, sends, acks>>

-----------------------------------------------------------------------------
(* The bridge: the daemon's connections.                                    *)

(* A new connection replaces the one the bridge holds, and is not           *)
(* authenticated.  The daemon's side of the link is up and sends its auth.  *)
(* l was never used, or stands for one whose auth handler is over.          *)
Connect(l) ==
  /\ current = None /\ link[l].phase = "closed"
  /\ link[l].auth = "none" \/ (l \in Reuse /\ link[l].auth = "over")
  /\ link' = [Closing(bridge.ws) EXCEPT ![l] = [phase |-> "open", auth |-> "none"]]
  /\ bridge' = [bridge EXCEPT !.ws = l, !.authed = FALSE, !.authPromise = None,
                              !.authTimer = AuthTimeout, !.evicted = FALSE]
  /\ current' = l
  /\ down' = <<>>
  /\ UNCHANGED <<inflight, seen, queue, up, dedup, forgets, outbox, echoDue, promise>>

(* The auth message of a link, which may no longer be the bridge's own: a   *)
(* bridge already authenticated takes it for any other message.  A promise  *)
(* held in authPromise makes it wait.                                       *)
AuthArrives(l) ==
  /\ link[l].phase \in {"open", "closing"} /\ link[l].auth = "none"
  /\ bridge.authPromise = None
  /\ IF bridge.authed
     THEN link' = [link EXCEPT ![l].auth = "over"] /\ bridge' = bridge
     ELSE /\ link' = [link EXCEPT ![l].auth = "checking"]
          /\ bridge' = [bridge EXCEPT !.authPromise = l, !.authTimer = Off]
  /\ UNCHANGED <<inflight, seen, queue, down, up, daemon, promise>>

(* The token is good.  Nothing asks whether l is still the bridge's link.   *)
AuthChecked(l) ==
  /\ link[l].auth = "checking"
  /\ link' = [link EXCEPT ![l].auth = "flags"]
  /\ bridge' = [bridge EXCEPT !.authed = TRUE]
  /\ UNCHANGED <<inflight, seen, queue, down, up, daemon, promise>>

(* The token does not match, or the database fails; in the second case the  *)
(* hello that waited for the promise finds itself not authenticated and     *)
(* closes the socket.                                                       *)
AuthRefused(l) ==
  /\ link[l].auth = "checking"
  /\ link' = [Closing(l) EXCEPT ![l].auth = "over"]
  /\ bridge' = [bridge EXCEPT !.authPromise = None]
  /\ UNCHANGED <<inflight, seen, queue, down, up, daemon, promise>>

(* The end of the auth handler: the queue goes out on l, the grace window   *)
(* is over, what is in flight is sent again on the bridge's link, daemon.   *)
(* online is announced.  None of it asks whether l is still that link.      *)
AuthFinishes(l) ==
  /\ link[l].auth = "flags"
  /\ link' = [link EXCEPT ![l].auth = "over"]
  /\ bridge' = Online(bridge)
  /\ \E cs \in ReplayOrders :
       IF Connected
       THEN /\ down' = Written(bridge.ws, (IF l = bridge.ws THEN queue ELSE <<>>) \o Replay(cs))
            /\ queue' = <<>>
       ELSE queue' = Replay(cs) /\ down' = down
  /\ inflight' = [c \in Commands |-> IF c \in Pending THEN Dispatched(inflight[c]) ELSE Gone]
  /\ UNCHANGED <<seen, up, daemon, promise>>

AuthTimeoutFires ==
  /\ bridge.authTimer = 0
  /\ bridge' = [bridge EXCEPT !.authTimer = Off]
  /\ link' = IF bridge.authed THEN link ELSE Closing(bridge.ws)
  /\ UNCHANGED <<inflight, seen, queue, down, up, daemon, promise>>

(* The close event of a socket; only the bridge's own opens a grace window. *)
(* An auth message not yet handled never will be.                           *)
Close(l) ==
  /\ link[l].phase \in {"open", "closing"}
  /\ link' = [link EXCEPT ![l] = [phase |-> "closed",
                                  auth |-> IF @.auth = "none" THEN "over" ELSE @.auth]]
  /\ up' = [up EXCEPT ![l] = <<>>]
  /\ bridge' = IF bridge.ws = l
               THEN [bridge EXCEPT !.ws = None, !.authed = FALSE, !.authPromise = None,
                                   !.grace = Grace]
               ELSE bridge
  /\ UNCHANGED <<inflight, seen, queue, down, daemon, promise>>

(* kickDaemon, after a token rotation.                                      *)
Kick ==
  /\ bridge.ws # None
  /\ link' = Closing(bridge.ws)
  /\ bridge' = [bridge EXCEPT !.ws = None, !.authed = FALSE, !.authPromise = None,
                              !.evicted = TRUE]
  /\ UNCHANGED <<inflight, seen, queue, down, up, daemon, promise>>

-----------------------------------------------------------------------------
(* The bridge: messages from the daemon.                                    *)

(* Mutant: every ack is relayed.                                            *)
RelayedAlways(c) == TRUE

(* The dedup of command.ack by seenCommandAcks.                             *)
Relayed(c) == c \notin seen \/ c \in Pending

(* The head of up[l] is handled: on a bridge that is not authenticated the  *)
(* socket is closed; a command.ack answers the command, once; the user      *)
(* message of the timeline clears it.                                       *)
MessageArrives(l) ==
  /\ up[l] # <<>> /\ link[l].auth # "none"
  /\ bridge.authPromise = None
  /\ up' = [up EXCEPT ![l] = Tail(@)]
  /\ LET m == Head(up[l]) IN
       \/ /\ ~bridge.authed
          /\ link' = Closing(l)
          /\ UNCHANGED <<inflight, seen, user, acks>>
       \/ /\ bridge.authed /\ m.kind = "echo"
          /\ inflight' = [inflight EXCEPT ![m.cmd] = Gone]
          /\ user' = [user EXCEPT ![m.cmd] = "acked"]
          /\ UNCHANGED <<link, seen, acks>>
       \/ /\ bridge.authed /\ m.kind # "echo" /\ Relayed(m.cmd)
          /\ inflight' = [inflight EXCEPT ![m.cmd] = Gone]
          /\ seen' = seen \union {m.cmd}
          /\ user' = [user EXCEPT ![m.cmd] = IF m.kind = "accepted" THEN "acked" ELSE "rejected"]
          /\ acks' = [acks EXCEPT ![m.cmd] = @ + 1]
          /\ link' = link
       \/ /\ bridge.authed /\ m.kind # "echo" /\ ~Relayed(m.cmd)
          /\ UNCHANGED <<link, inflight, seen, user, acks>>
  /\ UNCHANGED <<bridge, queue, down, daemon, sends, lapses>>

(* A message of a link that is not the bridge's is lost: it waited for an   *)
(* auth promise and its handler then found the link replaced.               *)
MessageBails(l) ==
  /\ up[l] # <<>> /\ bridge.ws # l
  /\ up' = [up EXCEPT ![l] = Tail(@)]
  /\ UNCHANGED <<link, bridge, inflight, seen, queue, down, daemon, promise>>

-----------------------------------------------------------------------------
(* The daemon.                                                              *)

(* trySend on the current socket; it is lost if the bridge is past it.      *)
Replied(c, kind) ==
  IF current # None /\ link[current].phase # "closed"
  THEN [up EXCEPT ![current] = Append(@, [cmd |-> c, kind |-> kind])] ELSE up

(* emitCommandAckReliable: into the outbox, and out of it once written to   *)
(* the socket; it stays there if the socket turns out not to be open.       *)
Acked(c, kind) ==
  \/ /\ up' = Replied(c, kind)
     /\ outbox' = [outbox EXCEPT ![c] = "none"]
  \/ /\ link[current].phase # "open"
     /\ up' = up
     /\ outbox' = [outbox EXCEPT ![c] = kind]

(* handleSend up to its receipt: a known command is a bridge retry, which   *)
(* is ignored, or a duplicate, which is rejected.  A command that came      *)
(* before may be unknown again: CommandDedup lets go of it after five       *)
(* minutes, or sooner when a hundred others have come.                      *)
DaemonReceives ==
  /\ down # <<>> /\ current # None
  /\ down' = Tail(down)
  /\ LET c == Head(down).cmd IN
       \/ /\ c \in dedup /\ Head(down).retry
          /\ UNCHANGED <<up, dedup, forgets, outbox, echoDue>>
       \/ /\ c \in dedup /\ ~Head(down).retry
          /\ Acked(c, "duplicate")
          /\ UNCHANGED <<dedup, forgets, echoDue>>
       \/ /\ c \in dedup => forgets < MaxForgets
          /\ forgets' = IF c \in dedup THEN forgets + 1 ELSE forgets
          /\ Acked(c, "accepted")
          /\ dedup' = dedup \union {c}
          /\ echoDue' = echoDue \union {c}
  /\ UNCHANGED <<link, bridge, inflight, seen, queue, current, promise>>

(* The message is emitted to the timeline; without a socket it is dropped.  *)
DaemonEchoes(c) ==
  /\ c \in echoDue
  /\ echoDue' = echoDue \ {c}
  /\ up' = Replied(c, "echo")
  /\ UNCHANGED <<link, bridge, inflight, seen, queue, current, down, dedup, forgets, outbox, promise>>

(* flushOnReconnect, one entry: started when the socket opens, before the   *)
(* bridge has authenticated it.                                             *)
DaemonFlushes(c) ==
  /\ current # None /\ outbox[c] # "none"
  /\ Acked(c, outbox[c])
  /\ UNCHANGED <<link, bridge, inflight, seen, queue, current, down, dedup, forgets, echoDue, promise>>

(* The daemon finds its socket closed or dead.                              *)
DaemonLoses ==
  /\ current # None
  /\ current' = None
  /\ down' = <<>>
  /\ UNCHANGED <<link, bridge, inflight, seen, queue, up, dedup, forgets, outbox, echoDue, promise>>

(* The process starts again with what reached the outbox file: an entry or  *)
(* its tombstone may not have been written yet.                             *)
DaemonRestarts ==
  /\ current' = None /\ down' = <<>>
  /\ dedup' = {} /\ echoDue' = {}
  /\ outbox' \in {o \in [Commands -> {"none", "accepted", "duplicate"}] :
                   \A c \in Commands : \/ o[c] \in {"none", outbox[c]}
                                       \/ o[c] = "accepted" /\ c \in dedup}
  /\ UNCHANGED <<link, bridge, inflight, seen, queue, up, forgets, promise>>

-----------------------------------------------------------------------------
Ticked(t) == IF t > 0 THEN t - 1 ELSE t

(* A tick passes when no timer is due.  Ages count up to the first one that *)
(* the sweep drops.                                                         *)
Tick ==
  /\ bridge.grace # 0 /\ bridge.authTimer # 0
  /\ \A c \in Commands : inflight[c].timer # 0
  /\ SlowDb \/ \A l \in Links : link[l].auth \notin {"checking", "flags"}
  /\ bridge' = [bridge EXCEPT !.grace = Ticked(@), !.authTimer = Ticked(@)]
  /\ inflight' = [c \in Commands |->
       IF c \in Pending
       THEN [inflight[c] EXCEPT !.timer = Ticked(@), !.age = IF @ > GcTtl THEN @ ELSE @ + 1]
       ELSE Gone]
  /\ UNCHANGED <<link, seen, queue, down, up, daemon, promise>>

Next ==
  \/ \E c \in Commands :
       Submit(c) \/ AckTimeoutFires(c) \/ DaemonEchoes(c) \/ DaemonFlushes(c)
  \/ \E l \in Links :
       \/ Connect(l) \/ Close(l) \/ AuthArrives(l) \/ AuthChecked(l) \/ AuthRefused(l)
       \/ AuthFinishes(l) \/ MessageArrives(l) \/ MessageBails(l)
  \/ GraceExpires \/ AuthTimeoutFires \/ Kick \/ Sweep
  \/ DaemonReceives \/ DaemonLoses \/ DaemonRestarts
  \/ Tick

Spec == Init /\ [][Next]_vars

(* Time passes, timers fire when due, and the database answers.  Nothing is *)
(* assumed of the daemon, of the network or of the user, nor of the sweep.  *)
Fairness ==
  /\ WF_vars(Tick) /\ WF_vars(GraceExpires) /\ WF_vars(AuthTimeoutFires)
  /\ \A c \in Commands : WF_vars(AckTimeoutFires(c))
  /\ \A l \in Links : WF_vars(AuthChecked(l) \/ AuthRefused(l)) /\ WF_vars(AuthFinishes(l))

FairSpec == Spec /\ Fairness

-----------------------------------------------------------------------------
(* A command the bridge keeps is always within reach of something that will *)
(* answer it: one that was dispatched has its ack timer running, one that   *)
(* is buffered waits for the grace window, for the handshake of the         *)
(* connected daemon or for the end of an auth handler.  Only kickDaemon     *)
(* during a handshake leaves buffered commands to the next connection.      *)
NoStranded ==
  \A c \in Pending :
    IF inflight[c].state = "dispatched" THEN inflight[c].timer # Off
    ELSE \/ bridge.grace # Off \/ bridge.ws # None \/ bridge.evicted
         \/ \E l \in Links : link[l].auth = "flags"

(* daemon.offline is taken back once the daemon is connected again: the     *)
(* clients are not left with an offline badge on a working daemon, whichever*)
(* auth handlers overlap.                                                   *)
OfflineIsTemporary ==
  bridge.offline /\ Connected => \E l \in Links : link[l].auth = "flags"

(* What the browser is told of its commands is what CommandPromise allows:  *)
(* nothing of a command it has not sent, no failure after an acceptance or  *)
(* a rejection, and not more acks than it was sent and the bridge forgot    *)
(* that it had acknowledged it, across replays, outbox flushes and daemon   *)
(* restarts.                                                                *)
PromiseKept == Promise!Spec

(* A dispatched command is acknowledged, rejected or reported failed,       *)
(* whatever the daemon and the network do and without the sweep, unless the *)
(* daemon opens one connection after the other for ever: a replay arms the  *)
(* ack timer anew, a close the grace window, and only the sweep ends that.  *)
CommandSettles ==
  \/ \A c \in Commands : inflight[c].state = "dispatched" ~> inflight[c].state = "none"
  \/ []<><<\E l \in Links : Connect(l)>>_vars
=============================================================================
