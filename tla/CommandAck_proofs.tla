-------------------------- MODULE CommandAck_proofs --------------------------
(***************************************************************************)
(* Proofs about CommandAck, for any finite set of commands, any number of  *)
(* connections and any timing constants.                                   *)
(***************************************************************************)
EXTENDS CommandAck, SequenceTheorems, FiniteSetTheorems, TLAPS

-----------------------------------------------------------------------------
(* The inductive invariant.                                                 *)

HandlerRuns == \E l \in Links : link[l].auth = "flags"

(* A bridge that counts itself authenticated without a daemon, and whose    *)
(* grace window is open, is about to be corrected: GraceExpires, which      *)
(* does nothing on an authenticated bridge, must not be the last to come.   *)
StaleAuthRuns ==
  bridge.authed /\ bridge.grace # Off => bridge.ws # None \/ HandlerRuns

(* OfflineIsTemporary, whether or not the daemon is still there: the ws     *)
(* that makes the bridge connected is set by a step that keeps authed.      *)
OfflineRuns == bridge.offline /\ bridge.authed => HandlerRuns

IInv == TypeOK /\ NoStranded /\ StaleAuthRuns /\ OfflineRuns

-----------------------------------------------------------------------------
(* Entries, messages and links.                                             *)

LEMMA TimerFacts ==
  /\ Off \in Int /\ Off < 0 /\ 0 # Off
  /\ AckTimeout \in Timer(AckTimeout) /\ Grace \in Timer(Grace)
  /\ AuthTimeout \in Timer(AuthTimeout)
  /\ AckTimeout # Off /\ Grace # Off
  /\ Off \in Timer(AckTimeout) /\ Off \in Timer(Grace) /\ Off \in Timer(AuthTimeout)
BY AckAssumption DEF Timer, Off

(* A timer that is not due keeps its range, and stays armed if it was.      *)
LEMMA TickedFacts ==
  ASSUME NEW max \in Nat, NEW t \in Timer(max)
  PROVE  /\ Ticked(t) \in Timer(max)
         /\ t # Off => Ticked(t) # Off
         /\ t = Off => Ticked(t) = Off
BY DEF Timer, Off, Ticked

LEMMA EntryFacts ==
  /\ Gone \in InflightState /\ Gone.state = "none"
  /\ Buffered \in InflightState /\ Buffered.state = "buffered"
  /\ \A e \in InflightState :
       /\ Dispatched(e) \in InflightState /\ Parked(e) \in InflightState
       /\ Dispatched(e).state = "dispatched" /\ Dispatched(e).timer # Off
       /\ Parked(e).state = "buffered"
<1>1. 0 \in 0..GcTtl+1 /\ 0 \in Nat
  BY AckAssumption
<1>2. /\ Gone \in InflightState /\ Gone.state = "none"
      /\ Buffered \in InflightState /\ Buffered.state = "buffered"
  BY <1>1, TimerFacts DEF Gone, Buffered, Entry, InflightState
<1>3. ASSUME NEW e \in InflightState
      PROVE  /\ Dispatched(e) \in InflightState /\ Parked(e) \in InflightState
             /\ Dispatched(e).state = "dispatched" /\ Dispatched(e).timer # Off
             /\ Parked(e).state = "buffered"
  <2>1. e.attempts \in Nat /\ Attempt(e.attempts) \in Nat /\ e.age \in 0..GcTtl+1
    BY AckAssumption DEF InflightState, Attempt
  <2> QED BY <2>1, TimerFacts DEF Dispatched, Parked, Entry, InflightState
<1> QED BY <1>2, <1>3

(* Only the entry of c changes, and into another entry.                     *)
LEMMA EntryChanges ==
  ASSUME TypeOK, NEW c \in Commands, NEW e \in InflightState,
         inflight' = [inflight EXCEPT ![c] = e]
  PROVE  /\ inflight' \in [Commands -> InflightState]
         /\ inflight'[c] = e
         /\ \A d \in Commands \ {c} : inflight'[d] = inflight[d]
<1>1. inflight \in [Commands -> InflightState]
  BY DEF TypeOK
<1> QED BY <1>1

LEMMA ClosingFacts ==
  ASSUME TypeOK, NEW l \in Links \union {None}
  PROVE  /\ Closing(l) \in [Links -> LinkState]
         /\ \A k \in Links : Closing(l)[k].auth = link[k].auth
BY AckAssumption DEF TypeOK, Closing, LinkState

(* The payloads of a replay are requests, in some order.                    *)
LEMMA ReplayFacts ==
  ASSUME NEW cs \in ReplayOrders
  PROVE  Replay(cs) \in Seq(Request)
<1>1. Pending \subseteq Commands /\ IsFiniteSet(Pending)
  BY AckAssumption, FS_Subset DEF Pending
<1>2. Cardinality(Pending) \in Nat
  BY <1>1, FS_CardinalityType
<1>3. cs \in [1..Cardinality(Pending) -> Pending]
  BY DEF ReplayOrders, SetToSeqs
<1>4. Replay(cs) \in [1..Cardinality(Pending) -> Request]
  BY <1>1, <1>3 DEF Replay, Payload, Request
<1> QED BY <1>2, <1>4, IsASeq

LEMMA WrittenFacts ==
  ASSUME TypeOK, NEW l, NEW ms \in Seq(Request)
  PROVE  Written(l, ms) \in Seq(Request)
BY ConcatProperties DEF TypeOK, Written

LEMMA SendFacts ==
  ASSUME TypeOK, NEW ms \in Seq(Request), SendToDaemon(ms)
  PROVE  down' \in Seq(Request) /\ queue' \in Seq(Request)
<1>1. Written(bridge.ws, ms) \in Seq(Request)
  BY WrittenFacts
<1>2. queue \in Seq(Request) /\ down \in Seq(Request)
  BY DEF TypeOK
<1>3. queue \o ms \in Seq(Request)
  BY <1>2, ConcatProperties
<1> QED BY <1>1, <1>2, <1>3 DEF SendToDaemon

LEMMA OneRequest ==
  ASSUME NEW c \in Commands, NEW retry \in BOOLEAN
  PROVE  <<Payload(c, retry)>> \in Seq(Request)
BY DEF Payload, Request

LEMMA RepliedFacts ==
  ASSUME TypeOK, NEW c \in Commands, NEW kind \in {"accepted", "duplicate", "echo"}
  PROVE  Replied(c, kind) \in [Links -> Seq(Reply)]
<1> DEFINE r == [cmd |-> c, kind |-> kind]
<1>1. r \in Reply
  BY DEF Reply
<1>2. CASE current # None /\ link[current].phase # "closed"
  <2>1. current \in Links /\ up[current] \in Seq(Reply)
    BY <1>2 DEF TypeOK
  <2>2. Append(up[current], r) \in Seq(Reply)
    BY <1>1, <2>1, AppendProperties
  <2>3. Replied(c, kind) = [up EXCEPT ![current] = Append(up[current], r)]
    BY <1>2 DEF Replied
  <2> HIDE DEF r
  <2> QED BY <2>1, <2>2, <2>3 DEF TypeOK
<1>3. CASE ~(current # None /\ link[current].phase # "closed")
  BY <1>3 DEF Replied, TypeOK
<1> QED BY <1>2, <1>3

LEMMA AckedFacts ==
  ASSUME TypeOK, NEW c \in Commands, NEW kind \in {"accepted", "duplicate"}, Acked(c, kind)
  PROVE  /\ up' \in [Links -> Seq(Reply)]
         /\ outbox' \in [Commands -> {"none", "accepted", "duplicate"}]
<1>1. /\ up \in [Links -> Seq(Reply)]
      /\ outbox \in [Commands -> {"none", "accepted", "duplicate"}]
  BY DEF TypeOK
<1>2. Replied(c, kind) \in [Links -> Seq(Reply)]
  BY RepliedFacts
<1>3. up' = up \/ up' = Replied(c, kind)
  BY DEF Acked
<1>4. outbox' = [outbox EXCEPT ![c] = "none"] \/ outbox' = [outbox EXCEPT ![c] = kind]
  BY DEF Acked
<1>5. up' \in [Links -> Seq(Reply)]
  BY <1>1, <1>2, <1>3
<1>6. outbox' \in [Commands -> {"none", "accepted", "duplicate"}]
  BY <1>1, <1>4
<1> QED BY <1>5, <1>6

(* A step that leaves the bridge and the auth handlers alone, and keeps the *)
(* entries or removes some, keeps the three parts that are not types.       *)
LEMMA Quiet ==
  ASSUME IInv, bridge' = bridge,
         \A l \in Links : link'[l].auth = "flags" <=> link[l].auth = "flags",
         \A c \in Commands : inflight'[c] = inflight[c] \/ inflight'[c] = Gone
  PROVE  NoStranded' /\ StaleAuthRuns' /\ OfflineRuns'
<1>1. HandlerRuns' = HandlerRuns
  BY DEF HandlerRuns
<1>2. NoStranded'
  BY <1>1, EntryFacts DEF IInv, NoStranded, Pending, HandlerRuns
<1> QED BY <1>1, <1>2 DEF IInv, StaleAuthRuns, OfflineRuns

-----------------------------------------------------------------------------
LEMMA InitInv == Init => IInv
<1> SUFFICES ASSUME Init PROVE IInv
  OBVIOUS
<1>1. TypeOK
  BY AckAssumption, EntryFacts, TimerFacts, EmptySeq
  DEF Init, TypeOK, LinkState, BridgeState, Request, Reply, Promise!Outcomes
<1>2. NoStranded /\ StaleAuthRuns /\ OfflineRuns
  BY EntryFacts DEF Init, NoStranded, StaleAuthRuns, OfflineRuns, Pending
<1> QED BY <1>1, <1>2 DEF IInv

LEMMA SubmitInv ==
  ASSUME IInv, NEW c \in Commands, Submit(c)
  PROVE  IInv'
<1> USE DEF IInv
<1> DEFINE Changed == \E e \in InflightState : inflight' = [inflight EXCEPT ![c] = e]
<1>1. /\ inflight' \in [Commands -> InflightState]
      /\ \A d \in Commands \ {c} : inflight'[d] = inflight[d]
  <2>1. inflight' = inflight \/ Changed
    <3>1. Dispatched(Gone) \in InflightState /\ Buffered \in InflightState
      BY EntryFacts
    <3> QED BY <3>1 DEF Submit
  <2>2. CASE inflight' = inflight
    BY <2>2 DEF TypeOK
  <2>3. CASE Changed
    <3>1. PICK e \in InflightState : inflight' = [inflight EXCEPT ![c] = e]
      BY <2>3
    <3> QED BY <3>1, EntryChanges
  <2> QED BY <2>1, <2>2, <2>3
<1>2. down' \in Seq(Request) /\ queue' \in Seq(Request)
  BY OneRequest, SendFacts DEF Submit, TypeOK
<1>3. sends' \in [Commands -> 0..MaxSends] /\ user' \in [Commands -> Promise!Outcomes]
  <2>1. sends \in [Commands -> 0..MaxSends] /\ user \in [Commands -> Promise!Outcomes]
    BY DEF TypeOK
  <2>2. sends' = [sends EXCEPT ![c] = @ + 1] /\ sends[c] < MaxSends
    BY DEF Submit
  <2>3. \E o \in {"waiting", "failed"} : user' = [user EXCEPT ![c] = o]
    BY DEF Submit
  <2>4. sends' \in [Commands -> 0..MaxSends]
    BY <2>1, <2>2, AckAssumption
  <2>5. user' \in [Commands -> Promise!Outcomes]
    BY <2>1, <2>3 DEF Promise!Outcomes
  <2> QED BY <2>4, <2>5
<1>4. TypeOK'
  BY <1>1, <1>2, <1>3 DEF Submit, TypeOK, daemon
<1>5. \/ inflight'[c] = inflight[c]
      \/ inflight'[c].state = "dispatched" /\ inflight'[c].timer # Off
      \/ inflight'[c].state = "buffered" /\ (bridge.grace # Off \/ bridge.ws # None)
  BY EntryFacts DEF Submit, TypeOK
<1>6. NoStranded'
  BY <1>1, <1>5 DEF Submit, NoStranded, Pending
<1>7. StaleAuthRuns' /\ OfflineRuns'
  BY DEF Submit, StaleAuthRuns, OfflineRuns, HandlerRuns
<1> QED BY <1>4, <1>6, <1>7

LEMMA AckTimeoutInv ==
  ASSUME IInv, NEW c \in Commands, AckTimeoutFires(c)
  PROVE  IInv'
<1> USE DEF IInv
<1>1. /\ inflight' \in [Commands -> InflightState]
      /\ \A d \in Commands \ {c} : inflight'[d] = inflight[d]
  <2>1. inflight[c] \in InflightState
    BY DEF TypeOK
  <2>2. {Dispatched(inflight[c]), Parked(inflight[c]), Gone} \subseteq InflightState
    BY <2>1, EntryFacts
  <2>3. PICK e \in InflightState : inflight' = [inflight EXCEPT ![c] = e]
    BY <2>2 DEF AckTimeoutFires
  <2> QED BY <2>3, EntryChanges
<1>2. down' \in Seq(Request) /\ queue' \in Seq(Request)
  BY OneRequest, SendFacts DEF AckTimeoutFires, TypeOK
<1>3. TypeOK'
  <2>1. user' \in [Commands -> Promise!Outcomes]
    BY DEF AckTimeoutFires, TypeOK, Reported
  <2> QED BY <1>1, <1>2, <2>1 DEF AckTimeoutFires, TypeOK, daemon
<1>4. \/ inflight'[c].state = "none"
      \/ inflight'[c].state = "dispatched" /\ inflight'[c].timer # Off
      \/ bridge.grace # Off /\ inflight'[c].state = "buffered"
  BY EntryFacts DEF AckTimeoutFires, TypeOK, Parks
<1>5. inflight[c] \in InflightState
  BY DEF TypeOK
<1>6. NoStranded'
  BY <1>1, <1>4, <1>5 DEF AckTimeoutFires, NoStranded, Pending, InflightState
<1>7. StaleAuthRuns' /\ OfflineRuns'
  BY DEF AckTimeoutFires, StaleAuthRuns, OfflineRuns, HandlerRuns
<1> QED BY <1>3, <1>6, <1>7

LEMMA GraceInv == ASSUME IInv, GraceExpires PROVE IInv'
<1> USE DEF IInv
<1>1. bridge \in BridgeState
  BY DEF TypeOK
<1>2. TypeOK'
  <2>1. user' \in [Commands -> Promise!Outcomes]
    BY DEF GraceExpires, Reported, TypeOK
  <2>2. inflight' \in [Commands -> InflightState]
    <3>1. inflight \in [Commands -> InflightState]
      BY DEF TypeOK
    <3> QED BY <3>1, EntryFacts DEF GraceExpires
  <2>3. bridge' \in BridgeState
    BY <1>1, TimerFacts DEF GraceExpires, BridgeState
  <2> QED BY <2>1, <2>2, <2>3 DEF GraceExpires, TypeOK, daemon
<1>3. CASE bridge.authed
  <2>1. bridge' = [bridge EXCEPT !.grace = Off] /\ inflight' = inflight /\ link' = link
    BY <1>3 DEF GraceExpires
  <2>2. bridge.ws # None \/ HandlerRuns
    BY <1>3, TimerFacts DEF GraceExpires, StaleAuthRuns
  <2> QED BY <1>1, <1>2, <2>1, <2>2
        DEF NoStranded, StaleAuthRuns, OfflineRuns, HandlerRuns, Pending, BridgeState
<1>4. CASE ~bridge.authed
  BY <1>1, <1>2, <1>4, EntryFacts
  DEF GraceExpires, NoStranded, StaleAuthRuns, OfflineRuns, Pending, BridgeState
<1> QED BY <1>3, <1>4

LEMMA SweepInv == ASSUME IInv, Sweep PROVE IInv'
<1>1. PICK forgotten \in SUBSET {c \in seen : lapses[c] < MaxLapses} :
        /\ inflight' = [c \in Commands |-> IF c \in Old THEN Gone ELSE inflight[c]]
        /\ seen' = seen \ forgotten
        /\ lapses' = [c \in Commands |->
                        IF c \in forgotten THEN lapses[c] + 1 ELSE lapses[c]]
        /\ UNCHANGED <<link, bridge, queue, down, up, daemon, user, sends, acks>>
  BY DEF Sweep
<1>2. inflight' \in [Commands -> InflightState] /\ seen' \subseteq Commands
  BY <1>1, EntryFacts DEF IInv, TypeOK
<1>3. lapses' \in [Commands -> 0..MaxLapses]
  <2>1. lapses \in [Commands -> 0..MaxLapses] /\ MaxLapses \in Nat
    BY AckAssumption DEF IInv, TypeOK
  <2>2. \A c \in Commands : lapses'[c] \in 0..MaxLapses
    BY <1>1, <2>1
  <2> QED BY <1>1, <2>2
<1>4. TypeOK'
  BY <1>1, <1>2, <1>3 DEF IInv, TypeOK, daemon
<1>5. \A d \in Commands : inflight'[d] = inflight[d] \/ inflight'[d] = Gone
  BY <1>1
<1> QED BY <1>1, <1>4, <1>5, Quiet DEF IInv

-----------------------------------------------------------------------------
LEMMA ConnectInv ==
  ASSUME IInv, NEW l \in Links, Connect(l)
  PROVE  IInv'
<1> USE DEF IInv
<1>1. bridge \in BridgeState /\ bridge.ws \in Links \union {None}
  BY DEF TypeOK, BridgeState
<1>2. link' \in [Links -> LinkState]
  <2> DEFINE old == Closing(bridge.ws)
  <2>1. old \in [Links -> LinkState] /\ \A k \in Links : old[k].auth = link[k].auth
    BY <1>1, ClosingFacts
  <2>2. link' = [old EXCEPT ![l] = [phase |-> "open", auth |-> "none"]]
    BY DEF Connect
  <2> HIDE DEF old
  <2> QED BY <2>1, <2>2 DEF LinkState
<1>3. /\ bridge' \in BridgeState
      /\ bridge'.ws = l /\ ~bridge'.authed
  BY <1>1, TimerFacts DEF Connect, BridgeState
<1>4. TypeOK'
  BY <1>2, <1>3, EmptySeq DEF Connect, TypeOK, promise
<1>5. l # None /\ inflight' = inflight
  BY AckAssumption DEF Connect
<1>6. NoStranded'
  BY <1>3, <1>5 DEF NoStranded, Pending
<1>7. StaleAuthRuns' /\ OfflineRuns'
  BY <1>3 DEF StaleAuthRuns, OfflineRuns
<1> QED BY <1>4, <1>6, <1>7

(* The auth handler of a link comes before the flags: no running handler is *)
(* taken away, and the bridge keeps what the invariant reads.               *)
LEMMA AuthArrivesInv ==
  ASSUME IInv, NEW l \in Links, AuthArrives(l)
  PROVE  IInv'
<1> USE DEF IInv
<1>1. /\ link' \in [Links -> LinkState]
      /\ \A k \in Links : link'[k].auth = "flags" <=> link[k].auth = "flags"
  <2>1. link[l].auth = "none"
    BY DEF AuthArrives
  <2>2. PICK a \in {"over", "checking"} : link' = [link EXCEPT ![l].auth = a]
    BY DEF AuthArrives
  <2> QED BY <2>1, <2>2 DEF TypeOK, LinkState
<1>2. /\ bridge' \in BridgeState /\ bridge'.ws = bridge.ws
      /\ bridge'.authed = bridge.authed /\ bridge'.grace = bridge.grace
      /\ bridge'.offline = bridge.offline /\ bridge'.evicted = bridge.evicted
  <2>1. bridge \in BridgeState
    BY DEF TypeOK
  <2>2. \/ bridge' = bridge
        \/ bridge' = [bridge EXCEPT !.authPromise = l, !.authTimer = Off]
    BY DEF AuthArrives
  <2> QED BY <2>1, <2>2, TimerFacts DEF BridgeState
<1>3. TypeOK' /\ inflight' = inflight
  BY <1>1, <1>2 DEF AuthArrives, TypeOK, daemon, promise
<1>4. HandlerRuns' = HandlerRuns
  BY <1>1 DEF HandlerRuns
<1>5. NoStranded'
  BY <1>1, <1>2, <1>3 DEF NoStranded, Pending
<1> QED BY <1>2, <1>3, <1>4, <1>5 DEF StaleAuthRuns, OfflineRuns

LEMMA AuthRefusedInv ==
  ASSUME IInv, NEW l \in Links, AuthRefused(l)
  PROVE  IInv'
<1> USE DEF IInv
<1>1. /\ link' \in [Links -> LinkState]
      /\ \A k \in Links : link'[k].auth = "flags" <=> link[k].auth = "flags"
  <2> DEFINE old == Closing(l)
  <2>1. old \in [Links -> LinkState] /\ \A k \in Links : old[k].auth = link[k].auth
    BY ClosingFacts
  <2>2. link' = [old EXCEPT ![l].auth = "over"] /\ link[l].auth = "checking"
    BY DEF AuthRefused
  <2> HIDE DEF old
  <2> QED BY <2>1, <2>2 DEF LinkState
<1>2. /\ bridge' \in BridgeState /\ bridge'.ws = bridge.ws
      /\ bridge'.authed = bridge.authed /\ bridge'.grace = bridge.grace
      /\ bridge'.offline = bridge.offline /\ bridge'.evicted = bridge.evicted
  BY DEF AuthRefused, TypeOK, BridgeState
<1>3. TypeOK' /\ inflight' = inflight
  BY <1>1, <1>2 DEF AuthRefused, TypeOK, daemon, promise
<1>4. HandlerRuns' = HandlerRuns
  BY <1>1 DEF HandlerRuns
<1>5. NoStranded'
  BY <1>1, <1>2, <1>3 DEF NoStranded, Pending
<1> QED BY <1>2, <1>3, <1>4, <1>5 DEF StaleAuthRuns, OfflineRuns

LEMMA AuthCheckedInv ==
  ASSUME IInv, NEW l \in Links, AuthChecked(l)
  PROVE  IInv'
<1> USE DEF IInv
<1>1. link' \in [Links -> LinkState] /\ HandlerRuns'
  BY DEF AuthChecked, TypeOK, LinkState, HandlerRuns
<1>2. bridge' \in BridgeState
  BY DEF AuthChecked, TypeOK, BridgeState
<1>3. TypeOK' /\ inflight' = inflight
  BY <1>1, <1>2 DEF AuthChecked, TypeOK, daemon, promise
<1>4. NoStranded'
  BY <1>1, <1>3 DEF NoStranded, Pending, HandlerRuns
<1> QED BY <1>1, <1>3, <1>4 DEF StaleAuthRuns, OfflineRuns

(* The replay dispatches every entry and the grace window is closed.        *)
LEMMA AuthFinishesInv ==
  ASSUME IInv, NEW l \in Links, AuthFinishes(l)
  PROVE  IInv'
<1> USE DEF IInv
<1>1. link' \in [Links -> LinkState]
  BY DEF AuthFinishes, TypeOK, LinkState
<1>2. bridge' \in BridgeState /\ bridge'.grace = Off /\ ~bridge'.offline
  BY TimerFacts DEF AuthFinishes, TypeOK, BridgeState, Online
<1>3. /\ inflight' \in [Commands -> InflightState]
      /\ \A c \in Commands : \/ inflight'[c].state = "none"
                             \/ inflight'[c].state = "dispatched" /\ inflight'[c].timer # Off
  BY EntryFacts DEF AuthFinishes, TypeOK
<1>4. down' \in Seq(Request) /\ queue' \in Seq(Request)
  <2>1. PICK cs \in ReplayOrders :
          IF Connected
          THEN /\ down' = Written(bridge.ws, (IF l = bridge.ws THEN queue ELSE <<>>) \o Replay(cs))
               /\ queue' = <<>>
          ELSE queue' = Replay(cs) /\ down' = down
    BY DEF AuthFinishes
  <2>2. Replay(cs) \in Seq(Request)
    BY ReplayFacts
  <2>3. (IF l = bridge.ws THEN queue ELSE <<>>) \in Seq(Request)
    BY EmptySeq DEF TypeOK
  <2>4. (IF l = bridge.ws THEN queue ELSE <<>>) \o Replay(cs) \in Seq(Request)
    BY <2>2, <2>3, ConcatProperties
  <2>5. Written(bridge.ws, (IF l = bridge.ws THEN queue ELSE <<>>) \o Replay(cs)) \in Seq(Request)
    BY <2>4, WrittenFacts
  <2>6. down \in Seq(Request) /\ <<>> \in Seq(Request)
    BY EmptySeq DEF TypeOK
  <2>7. CASE Connected
    BY <2>1, <2>5, <2>6, <2>7
  <2>8. CASE ~Connected
    BY <2>1, <2>2, <2>6, <2>8
  <2> QED BY <2>7, <2>8
<1>5. TypeOK'
  BY <1>1, <1>2, <1>3, <1>4 DEF AuthFinishes, TypeOK, daemon, promise
<1>6. NoStranded'
  BY <1>3 DEF NoStranded, Pending
<1> QED BY <1>2, <1>5, <1>6 DEF StaleAuthRuns, OfflineRuns

LEMMA AuthTimeoutInv == ASSUME IInv, AuthTimeoutFires PROVE IInv'
<1> USE DEF IInv
<1>1. bridge.ws \in Links \union {None}
  BY DEF TypeOK, BridgeState
<1>2. link' \in [Links -> LinkState] /\ \A k \in Links : link'[k].auth = link[k].auth
  BY <1>1, ClosingFacts DEF AuthTimeoutFires, TypeOK
<1>3. /\ bridge' \in BridgeState /\ bridge'.ws = bridge.ws
      /\ bridge'.authed = bridge.authed /\ bridge'.grace = bridge.grace
      /\ bridge'.offline = bridge.offline /\ bridge'.evicted = bridge.evicted
  BY TimerFacts DEF AuthTimeoutFires, TypeOK, BridgeState
<1>4. TypeOK' /\ inflight' = inflight
  BY <1>2, <1>3 DEF AuthTimeoutFires, TypeOK, daemon, promise
<1>5. HandlerRuns' = HandlerRuns
  BY <1>2 DEF HandlerRuns
<1>6. NoStranded'
  BY <1>2, <1>3, <1>4 DEF NoStranded, Pending
<1> QED BY <1>3, <1>4, <1>5, <1>6 DEF StaleAuthRuns, OfflineRuns

LEMMA CloseInv ==
  ASSUME IInv, NEW l \in Links, Close(l)
  PROVE  IInv'
<1> USE DEF IInv
<1>1. /\ link' \in [Links -> LinkState]
      /\ \A k \in Links : link'[k].auth = "flags" <=> link[k].auth = "flags"
  <2>1. PICK a \in {"none", "checking", "flags", "over"} :
          /\ link' = [link EXCEPT ![l] = [phase |-> "closed", auth |-> a]]
          /\ a = "flags" <=> link[l].auth = "flags"
    <3>1. link[l].auth \in {"none", "checking", "flags", "over"}
      BY DEF TypeOK, LinkState
    <3> QED BY <3>1 DEF Close
  <2> QED BY <2>1 DEF TypeOK, LinkState
<1>2. /\ bridge' \in BridgeState
      /\ bridge' = bridge \/ (~bridge'.authed /\ bridge'.grace # Off)
  <2>1. bridge \in BridgeState
    BY DEF TypeOK
  <2>2. CASE bridge.ws = l
    <3>1. bridge' = [bridge EXCEPT !.ws = None, !.authed = FALSE, !.authPromise = None,
                                   !.grace = Grace]
      BY <2>2 DEF Close
    <3> QED BY <2>1, <3>1, TimerFacts DEF BridgeState
  <2>3. CASE bridge.ws # l
    BY <2>1, <2>3 DEF Close
  <2> QED BY <2>2, <2>3
<1>3. TypeOK' /\ inflight' = inflight
  BY <1>1, <1>2, EmptySeq DEF Close, TypeOK, daemon, promise
<1>4. CASE bridge' = bridge
  BY <1>1, <1>3, <1>4, Quiet
<1>5. CASE ~bridge'.authed /\ bridge'.grace # Off
  BY <1>3, <1>5 DEF NoStranded, StaleAuthRuns, OfflineRuns, Pending
<1> QED BY <1>2, <1>4, <1>5

LEMMA KickInv == ASSUME IInv, Kick PROVE IInv'
<1> USE DEF IInv
<1>1. bridge.ws \in Links \union {None}
  BY DEF TypeOK, BridgeState
<1>2. link' \in [Links -> LinkState]
  BY <1>1, ClosingFacts DEF Kick
<1>3. bridge' \in BridgeState /\ ~bridge'.authed /\ bridge'.evicted
  BY DEF Kick, TypeOK, BridgeState
<1>4. TypeOK' /\ inflight' = inflight
  BY <1>2, <1>3 DEF Kick, TypeOK, daemon, promise
<1> QED BY <1>3, <1>4 DEF NoStranded, StaleAuthRuns, OfflineRuns, Pending

-----------------------------------------------------------------------------
LEMMA MessageInv ==
  ASSUME IInv, NEW l \in Links, MessageArrives(l) \/ MessageBails(l)
  PROVE  IInv'
<1> USE DEF IInv
<1>1. /\ up[l] \in Seq(Reply) /\ up[l] # <<>>
      /\ Head(up[l]) \in Reply /\ Tail(up[l]) \in Seq(Reply)
  BY HeadTailProperties DEF TypeOK, MessageArrives, MessageBails
<1>2. up' \in [Links -> Seq(Reply)]
  BY <1>1 DEF MessageArrives, MessageBails, TypeOK
<1>3. Head(up[l]).cmd \in Commands
  BY <1>1 DEF Reply
<1>4. /\ link' \in [Links -> LinkState]
      /\ \A k \in Links : link'[k].auth = link[k].auth
  BY ClosingFacts DEF MessageArrives, MessageBails, TypeOK
<1>5. /\ inflight' \in [Commands -> InflightState]
      /\ \A c \in Commands : inflight'[c] = inflight[c] \/ inflight'[c] = Gone
  BY <1>3, EntryFacts DEF MessageArrives, MessageBails, TypeOK
<1>6. seen' \subseteq Commands
  BY <1>3 DEF MessageArrives, MessageBails, TypeOK
<1>7. /\ bridge' = bridge /\ queue' = queue /\ down' = down /\ sends' = sends
      /\ UNCHANGED daemon /\ lapses' = lapses
  BY DEF MessageArrives, MessageBails, promise
<1>8. user' \in [Commands -> Promise!Outcomes] /\ acks' \in [Commands -> Nat]
  <2>1. user \in [Commands -> Promise!Outcomes] /\ acks \in [Commands -> Nat]
    BY DEF TypeOK
  <2>2. {"acked", "rejected"} \subseteq Promise!Outcomes
    BY DEF Promise!Outcomes
  <2> DEFINE c == Head(up[l]).cmd
  <2>3. user' = user \/ \E o \in {"acked", "rejected"} : user' = [user EXCEPT ![c] = o]
    BY DEF MessageArrives, MessageBails, promise
  <2>4. acks' = acks \/ acks' = [acks EXCEPT ![c] = @ + 1]
    BY DEF MessageArrives, MessageBails, promise
  <2>5. c \in Commands
    BY <1>3
  <2> HIDE DEF c
  <2>6. user' \in [Commands -> Promise!Outcomes]
    BY <2>1, <2>2, <2>3
  <2>7. acks' \in [Commands -> Nat]
    BY <2>1, <2>4, <2>5
  <2> QED BY <2>6, <2>7
<1>9. TypeOK'
  BY <1>2, <1>4, <1>5, <1>6, <1>7, <1>8 DEF TypeOK, daemon
<1> QED BY <1>4, <1>5, <1>7, <1>9, Quiet

LEMMA DaemonInv ==
  ASSUME IInv,
         \/ DaemonReceives \/ DaemonLoses \/ DaemonRestarts
         \/ \E c \in Commands : DaemonEchoes(c) \/ DaemonFlushes(c)
  PROVE  IInv'
<1> USE DEF IInv
<1>1. link' = link /\ bridge' = bridge /\ inflight' = inflight
  BY DEF DaemonReceives, DaemonLoses, DaemonRestarts, DaemonEchoes, DaemonFlushes
<1>2. NoStranded' /\ StaleAuthRuns' /\ OfflineRuns'
  BY <1>1, Quiet
<1>3. CASE DaemonReceives
  <2>1. Head(down) \in Request /\ Tail(down) \in Seq(Request)
    BY <1>3, HeadTailProperties DEF DaemonReceives, TypeOK
  <2>2. Head(down).cmd \in Commands
    BY <2>1 DEF Request
  <2>3. /\ up' \in [Links -> Seq(Reply)]
        /\ outbox' \in [Commands -> {"none", "accepted", "duplicate"}]
    BY <1>3, <2>2, AckedFacts DEF DaemonReceives, TypeOK
  <2>4. dedup' \subseteq Commands /\ echoDue' \subseteq Commands
    BY <1>3, <2>2 DEF DaemonReceives, TypeOK
  <2>5. forgets' \in 0..MaxForgets
    <3>1. forgets \in 0..MaxForgets /\ MaxForgets \in Nat
      BY AckAssumption DEF TypeOK
    <3>2. forgets' = forgets \/ (forgets' = forgets + 1 /\ forgets < MaxForgets)
      BY <1>3 DEF DaemonReceives
    <3> QED BY <3>1, <3>2
  <2> QED BY <2>5, <1>1, <1>2, <1>3, <2>1, <2>3, <2>4 DEF DaemonReceives, TypeOK, promise
<1>4. CASE DaemonLoses \/ DaemonRestarts
  BY <1>1, <1>2, <1>4, EmptySeq DEF DaemonLoses, DaemonRestarts, TypeOK, promise
<1>5. ASSUME NEW c \in Commands, DaemonEchoes(c) PROVE IInv'
  <2>1. up' \in [Links -> Seq(Reply)]
    BY <1>5, RepliedFacts DEF DaemonEchoes
  <2> QED BY <1>1, <1>2, <1>5, <2>1 DEF DaemonEchoes, TypeOK, promise
<1>6. ASSUME NEW c \in Commands, DaemonFlushes(c) PROVE IInv'
  <2>1. outbox[c] \in {"accepted", "duplicate"}
    BY <1>6 DEF DaemonFlushes, TypeOK
  <2>2. /\ up' \in [Links -> Seq(Reply)]
        /\ outbox' \in [Commands -> {"none", "accepted", "duplicate"}]
    BY <1>6, <2>1, AckedFacts DEF DaemonFlushes
  <2> QED BY <1>1, <1>2, <1>6, <2>2 DEF DaemonFlushes, TypeOK, promise
<1> QED BY <1>3, <1>4, <1>5, <1>6

LEMMA TickInv == ASSUME IInv, Tick PROVE IInv'
<1> USE DEF IInv
<1>1. AckTimeout \in Nat /\ Grace \in Nat /\ AuthTimeout \in Nat /\ GcTtl \in Nat
  BY AckAssumption
<1>2. /\ bridge' \in BridgeState /\ bridge'.ws = bridge.ws
      /\ bridge'.authed = bridge.authed /\ (bridge'.grace = Off <=> bridge.grace = Off)
      /\ bridge'.offline = bridge.offline /\ bridge'.evicted = bridge.evicted
  <2>1. bridge \in BridgeState /\ bridge.grace \in Timer(Grace)
        /\ bridge.authTimer \in Timer(AuthTimeout)
    BY DEF TypeOK, BridgeState
  <2>2. /\ Ticked(bridge.grace) \in Timer(Grace)
        /\ Ticked(bridge.grace) = Off <=> bridge.grace = Off
        /\ Ticked(bridge.authTimer) \in Timer(AuthTimeout)
    BY <1>1, <2>1, TickedFacts
  <2> QED BY <2>1, <2>2 DEF Tick, BridgeState
<1>3. ASSUME NEW c \in Commands
      PROVE  /\ inflight'[c] \in InflightState
             /\ inflight'[c].state = inflight[c].state
             /\ c \in Pending /\ inflight[c].timer # Off => inflight'[c].timer # Off
  <2>1. inflight[c] \in InflightState /\ inflight[c].timer \in Timer(AckTimeout)
        /\ inflight[c].age \in 0..GcTtl+1
    BY DEF TypeOK, InflightState
  <2>2. /\ Ticked(inflight[c].timer) \in Timer(AckTimeout)
        /\ inflight[c].timer # Off => Ticked(inflight[c].timer) # Off
    BY <1>1, <2>1, TickedFacts
  <2>3. (IF inflight[c].age > GcTtl THEN inflight[c].age ELSE inflight[c].age + 1) \in 0..GcTtl+1
    BY <1>1, <2>1
  <2>4. CASE c \in Pending
    <3>1. inflight'[c] = [inflight[c] EXCEPT
             !.timer = Ticked(inflight[c].timer),
             !.age = IF inflight[c].age > GcTtl THEN inflight[c].age ELSE inflight[c].age + 1]
      BY <2>4 DEF Tick
    <3> QED BY <2>1, <2>2, <2>3, <3>1 DEF InflightState
  <2>5. CASE c \notin Pending
    BY <2>5, EntryFacts DEF Tick, Pending
  <2> QED BY <2>4, <2>5
<1>4. link' = link /\ inflight' \in [Commands -> InflightState]
  BY <1>3 DEF Tick
<1>5. TypeOK'
  BY <1>2, <1>4 DEF Tick, TypeOK, daemon, promise
<1>6. NoStranded'
  BY <1>2, <1>3, <1>4 DEF NoStranded, Pending
<1> QED BY <1>2, <1>4, <1>5, <1>6 DEF StaleAuthRuns, OfflineRuns, HandlerRuns

-----------------------------------------------------------------------------
LEMMA StutterInv == ASSUME IInv, UNCHANGED vars PROVE IInv'
BY DEF IInv, TypeOK, NoStranded, StaleAuthRuns, OfflineRuns, HandlerRuns, Pending,
   vars, daemon, promise

LEMMA NextInv == IInv /\ [Next]_vars => IInv'
<1> SUFFICES ASSUME IInv, [Next]_vars PROVE IInv'
  OBVIOUS
<1>1. ASSUME NEW c \in Commands,
             Submit(c) \/ AckTimeoutFires(c) \/ DaemonEchoes(c) \/ DaemonFlushes(c)
      PROVE  IInv'
  BY <1>1, SubmitInv, AckTimeoutInv, DaemonInv
<1>2. ASSUME NEW l \in Links,
             \/ Connect(l) \/ Close(l) \/ AuthArrives(l) \/ AuthChecked(l) \/ AuthRefused(l)
             \/ AuthFinishes(l) \/ MessageArrives(l) \/ MessageBails(l)
      PROVE  IInv'
  BY <1>2, ConnectInv, CloseInv, AuthArrivesInv, AuthCheckedInv, AuthRefusedInv,
     AuthFinishesInv, MessageInv
<1>3. CASE GraceExpires \/ AuthTimeoutFires \/ Kick \/ Sweep
  BY <1>3, GraceInv, AuthTimeoutInv, KickInv, SweepInv
<1>4. CASE DaemonReceives \/ DaemonLoses \/ DaemonRestarts \/ Tick
  BY <1>4, DaemonInv, TickInv
<1>5. CASE UNCHANGED vars
  BY <1>5, StutterInv
<1> QED BY <1>1, <1>2, <1>3, <1>4, <1>5 DEF Next

LEMMA Invariance == Spec => []IInv
BY InitInv, NextInv, PTL DEF Spec

(* Every variable keeps its type: links, bridge, entries and messages in    *)
(* flight, for any timing constants and any number of connections.          *)
THEOREM TypeCorrect == Spec => []TypeOK
<1>1. IInv => TypeOK
  BY DEF IInv
<1> QED BY <1>1, Invariance, PTL

(* A dispatched command always has its ack timer running, and a buffered    *)
(* one a grace window, a connection or an auth handler that will end its    *)
(* wait, unless kickDaemon has left it to the next connection.              *)
THEOREM NothingStranded == Spec => []NoStranded
<1>1. IInv => NoStranded
  BY DEF IInv
<1> QED BY <1>1, Invariance, PTL

(* The offline announcement does not outlive the reconnect: on a connected  *)
(* bridge an auth handler is about to take it back.                         *)
THEOREM OfflineEnds == Spec => []OfflineIsTemporary
<1>1. IInv => OfflineIsTemporary
  BY DEF IInv, OfflineRuns, HandlerRuns, OfflineIsTemporary, Connected
<1> QED BY <1>1, Invariance, PTL
=============================================================================
