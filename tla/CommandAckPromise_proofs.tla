----------------------- MODULE CommandAckPromise_proofs -----------------------
(***************************************************************************)
(* CommandAck implements CommandPromise: whatever connections, retries,    *)
(* replays and restarts do, each step of the system is a step the promise  *)
(* allows, or is not seen by the browser.                                  *)
(***************************************************************************)
EXTENDS CommandAck_proofs

-----------------------------------------------------------------------------
(* The inductive invariant of the refinement, on top of IInv.               *)

(* The bridge keeps a command only while its user waits, and has relayed    *)
(* fewer acks than the promise allows: the failure or the ack that ends the *)
(* entry is one it has room for.                                            *)
WaitingAnswer ==
  \A c \in Commands :
    inflight[c].state # "none" => user[c] = "waiting" /\ acks[c] < sends[c] + lapses[c]

(* An entry that is gone has no timer left.                                 *)
TimersKept ==
  \A c \in Commands : inflight[c].state = "none" => inflight[c].timer = Off

(* What the bridge remembers was relayed; of a command it does not          *)
(* remember one more ack may be relayed.                                    *)
Counted(c) ==
  /\ acks[c] <= sends[c] + lapses[c]
  /\ c \in seen => acks[c] > 0
  /\ c \notin seen /\ user[c] # "unsent" => acks[c] < sends[c] + lapses[c]

AcksCounted == \A c \in Commands : Counted(c)

(* Nothing anywhere speaks of a command that no browser has sent.           *)
Known == {c \in Commands : user[c] # "unsent"}
KnownRequest == {r \in Request : r.cmd \in Known}
KnownReply == {r \in Reply : r.cmd \in Known}

KnownOnly ==
  /\ queue \in Seq(KnownRequest) /\ down \in Seq(KnownRequest)
  /\ up \in [Links -> Seq(KnownReply)]
  /\ dedup \subseteq Known /\ echoDue \subseteq Known
  /\ \A c \in Commands : outbox[c] # "none" => c \in Known

Story == WaitingAnswer /\ TimersKept /\ AcksCounted /\ KnownOnly

RInv == IInv /\ Story

-----------------------------------------------------------------------------
(* Messages about known commands.                                           *)

LEMMA SeqGrows ==
  ASSUME NEW S, NEW T, S \subseteq T, NEW s \in Seq(S)
  PROVE  s \in Seq(T)
OBVIOUS

LEMMA SendKnown ==
  ASSUME NEW S, queue \in Seq(S), down \in Seq(S), NEW ms \in Seq(S), SendToDaemon(ms)
  PROVE  queue' \in Seq(S) /\ down' \in Seq(S)
BY ConcatProperties DEF SendToDaemon, Written

LEMMA OneKnown ==
  ASSUME NEW c \in Known, NEW retry \in BOOLEAN
  PROVE  <<Payload(c, retry)>> \in Seq(KnownRequest)
BY DEF Known, KnownRequest, Payload, Request

LEMMA ReplayKnown ==
  ASSUME Pending \subseteq Known, NEW cs \in ReplayOrders
  PROVE  Replay(cs) \in Seq(KnownRequest)
<1>1. Pending \subseteq Commands /\ IsFiniteSet(Pending)
  BY AckAssumption, FS_Subset DEF Pending
<1>2. Cardinality(Pending) \in Nat
  BY <1>1, FS_CardinalityType
<1>3. cs \in [1..Cardinality(Pending) -> Pending]
  BY DEF ReplayOrders, SetToSeqs
<1>4. Replay(cs) \in [1..Cardinality(Pending) -> KnownRequest]
  BY <1>1, <1>3 DEF Replay, Payload, Request, KnownRequest
<1> QED BY <1>2, <1>4, IsASeq

LEMMA RepliedKnown ==
  ASSUME TypeOK, up \in [Links -> Seq(KnownReply)], NEW c \in Known,
         NEW kind \in {"accepted", "duplicate", "echo"}
  PROVE  Replied(c, kind) \in [Links -> Seq(KnownReply)]
<1> DEFINE r == [cmd |-> c, kind |-> kind]
<1>1. r \in KnownReply
  BY DEF Reply, KnownReply, Known
<1>2. CASE current # None /\ link[current].phase # "closed"
  <2>1. current \in Links /\ up[current] \in Seq(KnownReply)
    BY <1>2 DEF TypeOK
  <2>2. Append(up[current], r) \in Seq(KnownReply)
    BY <1>1, <2>1, AppendProperties
  <2>3. Replied(c, kind) = [up EXCEPT ![current] = Append(up[current], r)]
    BY <1>2 DEF Replied
  <2> HIDE DEF r
  <2> QED BY <2>1, <2>2, <2>3
<1>3. CASE ~(current # None /\ link[current].phase # "closed")
  BY <1>3 DEF Replied
<1> QED BY <1>2, <1>3

LEMMA AckedKnown ==
  ASSUME TypeOK, KnownOnly, NEW c \in Known, NEW kind \in {"accepted", "duplicate"},
         Acked(c, kind)
  PROVE  /\ up' \in [Links -> Seq(KnownReply)]
         /\ \A d \in Commands : outbox'[d] # "none" => d \in Known
<1>1. Replied(c, kind) \in [Links -> Seq(KnownReply)]
  BY RepliedKnown DEF KnownOnly
<1>2. outbox \in [Commands -> {"none", "accepted", "duplicate"}]
  BY DEF TypeOK
<1>3. up' = up \/ up' = Replied(c, kind)
  BY DEF Acked
<1>4. outbox' = [outbox EXCEPT ![c] = "none"] \/ outbox' = [outbox EXCEPT ![c] = kind]
  BY DEF Acked
<1>5. \A d \in Commands : outbox'[d] # "none" => d \in Known
  BY <1>2, <1>4 DEF KnownOnly
<1> QED BY <1>1, <1>3, <1>5 DEF KnownOnly

(* What is known stays known.                                               *)
LEMMA KnownGrows ==
  ASSUME KnownOnly, Known \subseteq Known'
  PROVE  /\ KnownRequest \subseteq KnownRequest' /\ KnownReply \subseteq KnownReply'
         /\ queue \in Seq(KnownRequest') /\ down \in Seq(KnownRequest')
         /\ up \in [Links -> Seq(KnownReply')]
<1>1. KnownRequest \subseteq KnownRequest' /\ KnownReply \subseteq KnownReply'
  BY DEF KnownRequest, KnownReply, Request, Reply
<1>2. queue \in Seq(KnownRequest') /\ down \in Seq(KnownRequest')
  BY <1>1, SeqGrows DEF KnownOnly
<1>3. up \in [Links -> Seq(KnownReply')]
  <2>1. up \in [Links -> Seq(KnownReply)]
    BY DEF KnownOnly
  <2>2. \A l \in Links : up[l] \in Seq(KnownReply')
    BY <1>1, <2>1, SeqGrows
  <2> QED BY <2>1, <2>2
<1> QED BY <1>1, <1>2, <1>3

-----------------------------------------------------------------------------
(* Steps the browser does not see.                                          *)

LEMMA Unseen ==
  ASSUME RInv, UNCHANGED promise, seen' = seen,
         \A c \in Commands : inflight'[c].state # "none" => inflight[c].state # "none",
         \A c \in Commands : inflight'[c].state = "none" => inflight'[c].timer = Off
  PROVE  /\ WaitingAnswer' /\ TimersKept' /\ AcksCounted'
         /\ Known' = Known /\ KnownRequest' = KnownRequest /\ KnownReply' = KnownReply
<1>1. Known' = Known
  BY DEF Known, promise
<1> QED BY <1>1
  DEF RInv, Story, WaitingAnswer, TimersKept, AcksCounted, Counted, KnownRequest, KnownReply, promise,
      Request, Reply

(* The entries stay, or go.                                                 *)
LEMMA Fewer ==
  ASSUME RInv, UNCHANGED promise, seen' = seen,
         \A c \in Commands : inflight'[c] = inflight[c] \/ inflight'[c] = Gone
  PROVE  /\ WaitingAnswer' /\ TimersKept' /\ AcksCounted'
         /\ Known' = Known /\ KnownRequest' = KnownRequest /\ KnownReply' = KnownReply
<1>1. Gone.state = "none" /\ Gone.timer = Off
  BY DEF Gone, Entry
<1>2. \A c \in Commands : inflight'[c].state # "none" => inflight[c].state # "none"
  BY <1>1
<1>3. \A c \in Commands : inflight'[c].state = "none" => inflight'[c].timer = Off
  BY <1>1 DEF RInv, Story, TimersKept
<1> HIDE DEF Gone
<1> QED BY <1>2, <1>3, Unseen

(* No message moves.                                                        *)
LEMMA Silent ==
  ASSUME RInv, UNCHANGED promise, UNCHANGED <<seen, queue, down, up, dedup, outbox, echoDue>>,
         \A c \in Commands : inflight'[c] = inflight[c] \/ inflight'[c] = Gone
  PROVE  Story'
<1>1. /\ WaitingAnswer' /\ TimersKept' /\ AcksCounted'
      /\ Known' = Known /\ KnownRequest' = KnownRequest /\ KnownReply' = KnownReply
  BY Fewer
<1> QED BY <1>1 DEF RInv, Story, KnownOnly

LEMMA SilentSteps ==
  ASSUME RInv,
         \/ AuthTimeoutFires \/ Kick \/ UNCHANGED vars
         \/ \E l \in Links : AuthArrives(l) \/ AuthChecked(l) \/ AuthRefused(l)
  PROVE  Story' /\ UNCHANGED promise
<1>1. /\ UNCHANGED promise /\ UNCHANGED <<seen, queue, down, up, dedup, outbox, echoDue>>
      /\ inflight' = inflight
  BY DEF AuthTimeoutFires, Kick, vars, AuthArrives, AuthChecked, AuthRefused, daemon, promise
<1> QED BY <1>1, Silent

LEMMA TickStory ==
  ASSUME RInv, Tick
  PROVE  Story' /\ UNCHANGED promise
<1>1. UNCHANGED promise /\ UNCHANGED <<seen, queue, down, up, dedup, outbox, echoDue>>
  BY DEF Tick, daemon, promise
<1>2. ASSUME NEW c \in Commands
      PROVE  /\ inflight'[c].state # "none" => inflight[c].state # "none"
             /\ inflight'[c].state = "none" => inflight'[c].timer = Off
  <2>1. inflight[c] \in InflightState
    BY DEF RInv, IInv, TypeOK
  <2>2. CASE c \in Pending
    <3>1. inflight'[c].state = inflight[c].state
      BY <2>1, <2>2 DEF Tick, InflightState
    <3> QED BY <2>2, <3>1 DEF Pending
  <2>3. CASE c \notin Pending
    BY <2>3 DEF Tick, Gone, Entry
  <2> QED BY <2>2, <2>3
<1>3. /\ WaitingAnswer' /\ TimersKept' /\ AcksCounted'
      /\ Known' = Known /\ KnownRequest' = KnownRequest /\ KnownReply' = KnownReply
  BY <1>1, <1>2, Unseen
<1> QED BY <1>1, <1>3 DEF RInv, Story, KnownOnly

LEMMA ConnectStory ==
  ASSUME RInv, NEW l \in Links, Connect(l) \/ Close(l) \/ MessageBails(l)
  PROVE  Story' /\ UNCHANGED promise
<1>1. UNCHANGED promise /\ UNCHANGED <<seen, queue, dedup, outbox, echoDue>> /\ inflight' = inflight
  BY DEF Connect, Close, MessageBails, daemon, promise
<1>2. /\ WaitingAnswer' /\ TimersKept' /\ AcksCounted'
      /\ Known' = Known /\ KnownRequest' = KnownRequest /\ KnownReply' = KnownReply
  BY <1>1, Fewer
<1>3. down' \in Seq(KnownRequest)
  <2>1. down' = down \/ down' = <<>>
    BY DEF Connect, Close, MessageBails
  <2> QED BY <2>1, EmptySeq DEF RInv, Story, KnownOnly
<1>4. up' \in [Links -> Seq(KnownReply)]
  <2>1. up \in [Links -> Seq(KnownReply)]
    BY DEF RInv, Story, KnownOnly
  <2>2. CASE up' = up
    BY <2>1, <2>2
  <2>3. CASE up' = [up EXCEPT ![l] = <<>>]
    BY <2>1, <2>3, EmptySeq
  <2>4. CASE up[l] # <<>> /\ up' = [up EXCEPT ![l] = Tail(@)]
    <3>1. Tail(up[l]) \in Seq(KnownReply)
      BY <2>1, <2>4, HeadTailProperties
    <3> QED BY <2>1, <2>4, <3>1
  <2> QED BY <2>2, <2>3, <2>4 DEF Connect, Close, MessageBails
<1> QED BY <1>1, <1>2, <1>3, <1>4 DEF RInv, Story, KnownOnly

LEMMA AuthFinishesStory ==
  ASSUME RInv, NEW l \in Links, AuthFinishes(l)
  PROVE  Story' /\ UNCHANGED promise
<1>1. UNCHANGED promise /\ UNCHANGED <<seen, up, dedup, outbox, echoDue>>
  BY DEF AuthFinishes, daemon, promise
<1>2. ASSUME NEW c \in Commands
      PROVE  /\ inflight'[c].state # "none" => inflight[c].state # "none"
             /\ inflight'[c].state = "none" => inflight'[c].timer = Off
  <2>1. CASE c \in Pending
    BY <2>1, EntryFacts DEF AuthFinishes, Pending, RInv, IInv, TypeOK
  <2>2. CASE c \notin Pending
    BY <2>2 DEF AuthFinishes, Gone, Entry
  <2> QED BY <2>1, <2>2
<1>3. /\ WaitingAnswer' /\ TimersKept' /\ AcksCounted'
      /\ Known' = Known /\ KnownRequest' = KnownRequest /\ KnownReply' = KnownReply
  BY <1>1, <1>2, Unseen
<1>4. queue \in Seq(KnownRequest) /\ down \in Seq(KnownRequest) /\ <<>> \in Seq(KnownRequest)
  BY EmptySeq DEF RInv, Story, KnownOnly
<1>5. PICK cs \in ReplayOrders :
        IF Connected
        THEN /\ down' = Written(bridge.ws, (IF l = bridge.ws THEN queue ELSE <<>>) \o Replay(cs))
             /\ queue' = <<>>
        ELSE queue' = Replay(cs) /\ down' = down
  BY DEF AuthFinishes
<1>6. Replay(cs) \in Seq(KnownRequest)
  BY ReplayKnown DEF RInv, Story, WaitingAnswer, Pending, Known
<1>7. down' \in Seq(KnownRequest) /\ queue' \in Seq(KnownRequest)
  <2>1. (IF l = bridge.ws THEN queue ELSE <<>>) \o Replay(cs) \in Seq(KnownRequest)
    BY <1>4, <1>6, ConcatProperties
  <2>2. Written(bridge.ws, (IF l = bridge.ws THEN queue ELSE <<>>) \o Replay(cs))
          \in Seq(KnownRequest)
    BY <1>4, <2>1, ConcatProperties DEF Written
  <2> QED BY <1>4, <1>5, <1>6, <2>2
<1> QED BY <1>1, <1>3, <1>7 DEF RInv, Story, KnownOnly

-----------------------------------------------------------------------------
(* The daemon.                                                              *)

LEMMA DaemonStory ==
  ASSUME RInv,
         \/ DaemonReceives \/ DaemonLoses \/ DaemonRestarts
         \/ \E c \in Commands : DaemonEchoes(c) \/ DaemonFlushes(c)
  PROVE  Story' /\ UNCHANGED promise
<1>1. UNCHANGED promise /\ seen' = seen /\ queue' = queue /\ inflight' = inflight
  BY DEF DaemonReceives, DaemonLoses, DaemonRestarts, DaemonEchoes, DaemonFlushes, promise
<1>2. /\ WaitingAnswer' /\ TimersKept' /\ AcksCounted'
      /\ Known' = Known /\ KnownRequest' = KnownRequest /\ KnownReply' = KnownReply
  BY <1>1, Fewer
<1>3. KnownOnly /\ TypeOK /\ Known \subseteq Commands
  BY DEF RInv, Story, IInv, Known
<1>4. CASE DaemonReceives
  <2>1. Head(down) \in KnownRequest /\ Tail(down) \in Seq(KnownRequest)
    BY <1>3, <1>4, HeadTailProperties DEF DaemonReceives, KnownOnly
  <2>2. Head(down).cmd \in Known
    BY <2>1 DEF KnownRequest
  <2>3. /\ up' \in [Links -> Seq(KnownReply)]
        /\ \A d \in Commands : outbox'[d] # "none" => d \in Known
    BY <1>3, <1>4, <2>2, AckedKnown DEF DaemonReceives, KnownOnly
  <2>4. dedup' \subseteq Known /\ echoDue' \subseteq Known
    BY <1>3, <1>4, <2>2 DEF DaemonReceives, KnownOnly
  <2>5. down' \in Seq(KnownRequest)
    BY <1>4, <2>1 DEF DaemonReceives
  <2> QED BY <1>1, <1>2, <1>3, <2>3, <2>4, <2>5 DEF Story, KnownOnly
<1>5. CASE DaemonLoses
  BY <1>1, <1>2, <1>3, <1>5, EmptySeq DEF DaemonLoses, Story, KnownOnly
<1>6. CASE DaemonRestarts
  <2>1. \A c \in Commands : outbox'[c] # "none" => c \in Known
    BY <1>3, <1>6 DEF DaemonRestarts, KnownOnly
  <2> QED BY <1>1, <1>2, <1>3, <1>6, <2>1, EmptySeq DEF DaemonRestarts, Story, KnownOnly
<1>7. ASSUME NEW c \in Commands, DaemonEchoes(c) PROVE Story'
  <2>1. c \in Known
    BY <1>3, <1>7 DEF DaemonEchoes, KnownOnly
  <2>2. up' \in [Links -> Seq(KnownReply)]
    BY <1>3, <1>7, <2>1, RepliedKnown DEF DaemonEchoes, KnownOnly
  <2> QED BY <1>1, <1>2, <1>3, <1>7, <2>2 DEF DaemonEchoes, Story, KnownOnly
<1>8. ASSUME NEW c \in Commands, DaemonFlushes(c) PROVE Story'
  <2>1. c \in Known
    BY <1>3, <1>8 DEF DaemonFlushes, KnownOnly
  <2>2. outbox[c] \in {"accepted", "duplicate"}
    BY <1>3, <1>8 DEF DaemonFlushes, TypeOK
  <2>3. /\ up' \in [Links -> Seq(KnownReply)]
        /\ \A d \in Commands : outbox'[d] # "none" => d \in Known
    BY <1>3, <1>8, <2>1, <2>2, AckedKnown DEF DaemonFlushes
  <2> QED BY <1>1, <1>2, <1>3, <1>8, <2>3 DEF DaemonFlushes, Story, KnownOnly
<1> QED BY <1>1, <1>4, <1>5, <1>6, <1>7, <1>8

-----------------------------------------------------------------------------
(* Steps the browser sees.                                                  *)

LEMMA PromiseTypes ==
  ASSUME RInv
  PROVE  /\ user \in [Commands -> Promise!Outcomes]
         /\ sends \in [Commands -> Nat] /\ acks \in [Commands -> Nat]
         /\ lapses \in [Commands -> Nat]
<1>1. sends \in [Commands -> 0..MaxSends] /\ lapses \in [Commands -> 0..MaxLapses]
  BY DEF RInv, IInv, TypeOK
<1>2. \A c \in Commands : sends[c] \in Nat /\ lapses[c] \in Nat
  BY <1>1, AckAssumption
<1> QED BY <1>1, <1>2 DEF RInv, IInv, TypeOK

(* The housekeeping: old entries go unanswered, old acks are forgotten.     *)
LEMMA SweepStory ==
  ASSUME RInv, Sweep
  PROVE  Story' /\ Promise!Next
<1>1. PICK forgotten \in SUBSET {c \in seen : lapses[c] < MaxLapses} :
        /\ inflight' = [c \in Commands |-> IF c \in Old THEN Gone ELSE inflight[c]]
        /\ seen' = seen \ forgotten
        /\ lapses' = [c \in Commands |->
                        IF c \in forgotten THEN lapses[c] + 1 ELSE lapses[c]]
        /\ UNCHANGED <<link, bridge, queue, down, up, daemon, user, sends, acks>>
  BY DEF Sweep
<1>2. Gone.state = "none" /\ Gone.timer = Off
  BY DEF Gone, Entry
<1> HIDE DEF Gone
<1>3. /\ user' = user /\ sends' = sends /\ acks' = acks
      /\ UNCHANGED <<queue, down, up, dedup, outbox, echoDue>>
  BY <1>1 DEF daemon
<1>4. ASSUME NEW c \in Commands
      PROVE  /\ Counted(c)' /\ acks'[c] <= sends'[c] + lapses'[c]
             /\ lapses'[c] >= lapses[c]
             /\ Promise!Forgets(c) \/ Promise!Idle(c)
  <2>1. /\ Counted(c)
        /\ acks[c] \in Nat /\ sends[c] \in Nat /\ lapses[c] \in Nat
    BY PromiseTypes DEF RInv, Story, AcksCounted
  <2>2. CASE c \in forgotten
    <3>1. lapses'[c] = lapses[c] + 1 /\ c \in seen
      BY <1>1, <2>2
    <3>2. c \notin seen'
      BY <1>1, <2>2
    <3> QED BY <1>3, <2>1, <3>1, <3>2 DEF Counted, Promise!Forgets
  <2>3. CASE c \notin forgotten
    <3>1. lapses'[c] = lapses[c] /\ (c \in seen' <=> c \in seen)
      BY <1>1, <2>3
    <3> QED BY <1>3, <2>1, <3>1 DEF Counted, Promise!Idle
  <2> QED BY <2>2, <2>3
<1>5. WaitingAnswer' /\ TimersKept'
  <2>1. \A c \in Commands : inflight'[c] = inflight[c] \/ inflight'[c] = Gone
    BY <1>1
  <2>2. ASSUME NEW c \in Commands, inflight'[c].state # "none"
        PROVE  user'[c] = "waiting" /\ acks'[c] < sends'[c] + lapses'[c]
    <3>1. user[c] = "waiting" /\ acks[c] < sends[c] + lapses[c]
      BY <1>2, <2>1, <2>2 DEF RInv, Story, WaitingAnswer
    <3>2. acks[c] \in Nat /\ sends[c] \in Nat /\ lapses[c] \in Nat /\ lapses'[c] \in Nat
      BY <1>1, PromiseTypes
    <3> QED BY <1>3, <1>4, <3>1, <3>2
  <2>3. TimersKept'
    BY <1>2, <2>1 DEF RInv, Story, TimersKept
  <2> QED BY <2>2, <2>3 DEF WaitingAnswer
<1>6. KnownOnly'
  BY <1>3 DEF RInv, Story, KnownOnly, KnownRequest, KnownReply, Known, Request, Reply
<1> QED BY <1>4, <1>5, <1>6 DEF Story, AcksCounted, Promise!Next

(* One command moves, and is known afterwards.                              *)
LEMMA OneMoves ==
  ASSUME RInv, NEW c \in Commands, NEW o \in Promise!Outcomes \ {"unsent"},
         user' = [user EXCEPT ![c] = o]
  PROVE  /\ user'[c] = o /\ \A d \in Commands \ {c} : user'[d] = user[d]
         /\ Known \subseteq Known' /\ c \in Known'
<1>1. user \in [Commands -> Promise!Outcomes]
  BY PromiseTypes
<1> QED BY <1>1 DEF Known

LEMMA SubmitStory ==
  ASSUME RInv, NEW c \in Commands, Submit(c)
  PROVE  Story' /\ Promise!Next
<1>1. PICK o \in {"waiting", "failed"} :
        /\ user' = [user EXCEPT ![c] = o]
        /\ o = "failed" => c \notin Pending /\ inflight' = inflight
  BY DEF Submit
<1>2. o \in Promise!Outcomes \ {"unsent"}
  BY DEF Promise!Outcomes
<1>3. /\ user'[c] = o /\ \A d \in Commands \ {c} : user'[d] = user[d]
      /\ Known \subseteq Known' /\ c \in Known'
  BY <1>1, <1>2, OneMoves
<1>4. /\ sends'[c] = sends[c] + 1 /\ acks' = acks /\ seen' = seen /\ lapses' = lapses
      /\ \A d \in Commands \ {c} : sends'[d] = sends[d]
  BY PromiseTypes DEF Submit
<1>5. AcksCounted'
  BY <1>3, <1>4, PromiseTypes DEF RInv, Story, AcksCounted, Counted
<1>6. Promise!Next
  <2>1. Promise!Sent(c)
    BY <1>3, <1>4 DEF Submit, Promise!Sent
  <2>2. \A d \in Commands \ {c} : Promise!Idle(d)
    BY <1>3, <1>4 DEF Promise!Idle
  <2>3. \A d \in Commands : acks'[d] <= sends'[d] + lapses'[d]
    BY <1>5 DEF AcksCounted, Counted
  <2> QED BY <2>1, <2>2, <2>3 DEF Promise!Next
<1>7. inflight \in [Commands -> InflightState]
  BY DEF RInv, IInv, TypeOK
<1>8. /\ Dispatched(Gone).state # "none" /\ Buffered.state # "none"
  BY EntryFacts
<1>9. \/ inflight' = inflight
      \/ inflight' = [inflight EXCEPT ![c] = Dispatched(Gone)]
      \/ inflight' = [inflight EXCEPT ![c] = Buffered]
  BY DEF Submit
<1>10. WaitingAnswer' /\ TimersKept'
  <2>1. \A d \in Commands \ {c} : inflight'[d] = inflight[d]
    BY <1>7, <1>9
  <2>2. inflight'[c].state = "none" => inflight'[c] = inflight[c]
    BY <1>7, <1>8, <1>9
  <2>3. TimersKept'
    BY <2>1, <2>2 DEF RInv, Story, TimersKept
  <2>4. inflight'[c].state # "none" => o = "waiting"
    BY <1>1 DEF Pending
  <2>5. acks'[c] < sends'[c] + lapses'[c]
    BY <1>4, PromiseTypes DEF RInv, Story, AcksCounted, Counted
  <2> QED BY <1>3, <1>4, <2>1, <2>3, <2>4, <2>5 DEF RInv, Story, WaitingAnswer
<1>11. KnownOnly'
  <2>1. queue' \in Seq(KnownRequest') /\ down' \in Seq(KnownRequest')
    <3>1. queue \in Seq(KnownRequest') /\ down \in Seq(KnownRequest')
      BY <1>3, KnownGrows DEF RInv, Story
    <3>2. <<Payload(c, FALSE)>> \in Seq(KnownRequest')
      BY <1>3 DEF Known, KnownRequest, Payload, Request
    <3>3. SendToDaemon(<<Payload(c, FALSE)>>) \/ (queue' = queue /\ down' = down)
      BY DEF Submit
    <3> QED BY <3>1, <3>2, <3>3, SendKnown
  <2>2. up' \in [Links -> Seq(KnownReply')]
    BY <1>3, KnownGrows DEF RInv, Story, Submit
  <2>3. UNCHANGED <<dedup, outbox, echoDue>>
    BY DEF Submit, daemon
  <2> QED BY <1>3, <2>1, <2>2, <2>3 DEF RInv, Story, KnownOnly
<1> QED BY <1>5, <1>6, <1>10, <1>11 DEF Story

LEMMA AckTimeoutStory ==
  ASSUME RInv, NEW c \in Commands, AckTimeoutFires(c)
  PROVE  Story' /\ [Promise!Next]_(Promise!promise)
<1>1. inflight \in [Commands -> InflightState]
  BY DEF RInv, IInv, TypeOK
<1>2. inflight[c].state # "none" /\ user[c] = "waiting"
      /\ acks[c] < sends[c] + lapses[c]
  BY TimerFacts DEF AckTimeoutFires, RInv, Story, TimersKept, WaitingAnswer
<1>3. /\ sends' = sends /\ acks' = acks /\ seen' = seen /\ lapses' = lapses
      /\ UNCHANGED <<up, dedup, outbox, echoDue>>
  BY DEF AckTimeoutFires, daemon
<1>4. /\ Dispatched(inflight[c]).state # "none" /\ Parked(inflight[c]).state # "none"
      /\ Gone.state = "none" /\ Gone.timer = Off
  BY <1>1, EntryFacts DEF Gone, Entry
<1>5. \/ /\ user' = user
         /\ \/ inflight' = [inflight EXCEPT ![c] = Dispatched(inflight[c])]
            \/ inflight' = [inflight EXCEPT ![c] = Parked(inflight[c])]
      \/ /\ user' \in Reported({c})
         /\ inflight' = [inflight EXCEPT ![c] = Gone]
  BY DEF AckTimeoutFires
<1>6. \A d \in Commands \ {c} : inflight'[d] = inflight[d] /\ user'[d] = user[d]
  BY <1>1, <1>5, PromiseTypes DEF Reported
<1>7. \/ user' = user /\ inflight'[c].state # "none"
      \/ user'[c] \in {user[c], "failed"} /\ inflight'[c] = Gone
  BY <1>1, <1>4, <1>5, PromiseTypes DEF Reported
<1>8. Known \subseteq Known' /\ c \in Known'
  BY <1>2, <1>6, <1>7 DEF Known
<1>9. WaitingAnswer' /\ TimersKept' /\ AcksCounted'
  <2>1. WaitingAnswer'
    BY <1>2, <1>3, <1>4, <1>6, <1>7 DEF RInv, Story, WaitingAnswer
  <2>2. TimersKept'
    BY <1>4, <1>6, <1>7 DEF RInv, Story, TimersKept
  <2>3. AcksCounted'
    BY <1>2, <1>3, <1>6, PromiseTypes DEF RInv, Story, AcksCounted, Counted
  <2> QED BY <2>1, <2>2, <2>3
<1>10. KnownOnly'
  <2>1. queue' \in Seq(KnownRequest') /\ down' \in Seq(KnownRequest')
    <3>1. queue \in Seq(KnownRequest') /\ down \in Seq(KnownRequest')
      BY <1>8, KnownGrows DEF RInv, Story
    <3>2. <<Payload(c, TRUE)>> \in Seq(KnownRequest')
      BY <1>8 DEF Known, KnownRequest, Payload, Request
    <3>3. SendToDaemon(<<Payload(c, TRUE)>>) \/ (queue' = queue /\ down' = down)
      BY DEF AckTimeoutFires
    <3> QED BY <3>1, <3>2, <3>3, SendKnown
  <2>2. up' \in [Links -> Seq(KnownReply')]
    BY <1>3, <1>8, KnownGrows DEF RInv, Story
  <2> QED BY <1>3, <1>8, <2>1, <2>2 DEF RInv, Story, KnownOnly
<1>11. Promise!Next
  <2>1. Promise!Failed(c) \/ Promise!Idle(c)
    BY <1>2, <1>3, <1>7 DEF Promise!Failed, Promise!Idle
  <2>2. \A d \in Commands \ {c} : Promise!Idle(d)
    BY <1>3, <1>6 DEF Promise!Idle
  <2> QED BY <1>9, <2>1, <2>2 DEF Promise!Next, AcksCounted, Counted
<1> QED BY <1>9, <1>10, <1>11 DEF Story

LEMMA GraceStory ==
  ASSUME RInv, GraceExpires
  PROVE  Story' /\ [Promise!Next]_(Promise!promise)
<1>1. /\ sends' = sends /\ acks' = acks /\ lapses' = lapses
      /\ UNCHANGED <<seen, queue, down, up, dedup, outbox, echoDue>>
  BY DEF GraceExpires, daemon
<1>2. CASE bridge.authed
  <2>1. UNCHANGED promise /\ inflight' = inflight
    BY <1>1, <1>2 DEF GraceExpires, promise
  <2>2. Story'
    BY <1>1, <2>1, Silent
  <2> QED BY <2>1, <2>2 DEF promise, Promise!promise
<1>3. CASE ~bridge.authed
  <2>1. inflight' = [c \in Commands |-> Gone] /\ user' \in Reported(Pending)
    BY <1>3 DEF GraceExpires
  <2>2. \A c \in Commands : \/ user'[c] = user[c]
                            \/ user[c] = "waiting" /\ user'[c] = "failed"
    BY <2>1 DEF Reported, Pending, RInv, Story, WaitingAnswer
  <2>3. Known \subseteq Known'
    BY <2>2 DEF Known
  <2>4. Gone.state = "none" /\ Gone.timer = Off
    BY DEF Gone, Entry
  <2>5. WaitingAnswer' /\ TimersKept'
    BY <2>1, <2>4 DEF WaitingAnswer, TimersKept
  <2>6. AcksCounted'
    BY <1>1, <2>2, PromiseTypes DEF RInv, Story, AcksCounted, Counted
  <2>7. KnownOnly'
    <3>1. /\ queue \in Seq(KnownRequest') /\ down \in Seq(KnownRequest')
          /\ up \in [Links -> Seq(KnownReply')]
      BY <2>3, KnownGrows DEF RInv, Story
    <3> QED BY <1>1, <2>3, <3>1 DEF RInv, Story, KnownOnly
  <2>8. Promise!Next
    <3>1. \A c \in Commands : Promise!Failed(c) \/ Promise!Idle(c)
      BY <1>1, <2>2 DEF Promise!Failed, Promise!Idle
    <3> QED BY <2>6, <3>1 DEF Promise!Next, AcksCounted, Counted
  <2> QED BY <2>5, <2>6, <2>7, <2>8 DEF Story
<1> QED BY <1>2, <1>3

(* What the bridge tells of the reply m: nothing, that the command is       *)
(* accepted, or the answer of the daemon, counted.                          *)
Tells(m) ==
  LET c == m.cmd IN
  \/ UNCHANGED <<inflight, seen, user, acks>>
  \/ /\ inflight' = [inflight EXCEPT ![c] = Gone]
     /\ user' = [user EXCEPT ![c] = "acked"]
     /\ UNCHANGED <<seen, acks>>
  \/ /\ Relayed(c)
     /\ inflight' = [inflight EXCEPT ![c] = Gone]
     /\ seen' = seen \union {c}
     /\ \E o \in {"acked", "rejected"} : user' = [user EXCEPT ![c] = o]
     /\ acks' = [acks EXCEPT ![c] = @ + 1]

LEMMA MessageStory ==
  ASSUME RInv, NEW l \in Links, MessageArrives(l)
  PROVE  Story' /\ [Promise!Next]_(Promise!promise)
<1>1. up[l] \in Seq(KnownReply) /\ up[l] # <<>>
  BY DEF RInv, Story, KnownOnly, MessageArrives
<1>2. Head(up[l]) \in KnownReply /\ Tail(up[l]) \in Seq(KnownReply)
  BY <1>1, HeadTailProperties
<1> DEFINE m == Head(up[l])
           c == m.cmd
<1>3. Tells(m) /\ sends' = sends /\ lapses' = lapses
  BY DEF MessageArrives, Tells
<1>4. c \in Known /\ c \in Commands
  BY <1>2 DEF KnownReply, Known
<1>5. up' = [up EXCEPT ![l] = Tail(@)] /\ UNCHANGED <<queue, down, dedup, outbox, echoDue>>
  BY DEF MessageArrives, daemon
<1> HIDE DEF m, c
<1>6. inflight \in [Commands -> InflightState]
  BY DEF RInv, IInv, TypeOK
<1>7. Gone.state = "none" /\ Gone.timer = Off
  BY DEF Gone, Entry
<1>8. \A d \in Commands \ {c} :
        inflight'[d] = inflight[d] /\ user'[d] = user[d] /\ acks'[d] = acks[d]
        /\ (d \in seen' <=> d \in seen)
  BY <1>3, <1>6, PromiseTypes DEF Tells, c
<1>9. Counted(c) /\ (Relayed(c) => acks[c] < sends[c] + lapses[c])
  BY <1>4 DEF RInv, Story, AcksCounted, Counted, WaitingAnswer, Known, Relayed, Pending
<1>10. \/ UNCHANGED <<inflight, seen, user, acks>>
       \/ /\ inflight'[c] = Gone /\ user'[c] = "acked" /\ acks'[c] = acks[c]
          /\ c \in seen' <=> c \in seen
       \/ /\ inflight'[c] = Gone /\ user'[c] \in {"acked", "rejected"}
          /\ Relayed(c) /\ acks'[c] = acks[c] + 1 /\ c \in seen'
  BY <1>3, <1>4, <1>6, PromiseTypes DEF Tells, c
<1>11. Known \subseteq Known'
  BY <1>8, <1>10 DEF Known
<1>12. WaitingAnswer' /\ TimersKept' /\ AcksCounted'
  <2>1. WaitingAnswer'
    BY <1>3, <1>7, <1>8, <1>10 DEF RInv, Story, WaitingAnswer
  <2>2. TimersKept'
    BY <1>7, <1>8, <1>10 DEF RInv, Story, TimersKept
  <2>3. ASSUME NEW d \in Commands \ {c} PROVE Counted(d)'
    BY <1>3, <1>8 DEF RInv, Story, AcksCounted, Counted
  <2>4. /\ acks'[c] <= sends'[c] + lapses'[c]
        /\ c \in seen' => acks'[c] > 0
        /\ c \notin seen' => acks'[c] < sends'[c] + lapses'[c]
    BY <1>3, <1>4, <1>9, <1>10, PromiseTypes DEF Counted, Known
  <2>5. ASSUME NEW d \in Commands PROVE Counted(d)'
    BY <2>3, <2>4 DEF Counted
  <2>6. AcksCounted'
    BY <2>5 DEF AcksCounted
  <2> QED BY <2>1, <2>2, <2>6
<1>13. KnownOnly'
  <2>1. /\ KnownReply \subseteq KnownReply'
        /\ queue \in Seq(KnownRequest') /\ down \in Seq(KnownRequest')
        /\ up \in [Links -> Seq(KnownReply')]
    BY <1>11, KnownGrows DEF RInv, Story
  <2>2. Tail(up[l]) \in Seq(KnownReply')
    BY <1>2, <2>1, SeqGrows
  <2>3. up' \in [Links -> Seq(KnownReply')]
    BY <1>5, <2>1, <2>2
  <2> QED BY <1>5, <1>11, <2>1, <2>3 DEF RInv, Story, KnownOnly
<1>14. [Promise!Next]_(Promise!promise)
  <2>1. CASE UNCHANGED <<inflight, seen, user, acks>>
    BY <1>3, <2>1 DEF Promise!promise
  <2>2. CASE ~UNCHANGED <<inflight, seen, user, acks>>
    <3>1. user[c] # "unsent"
      BY <1>4 DEF Known
    <3>2. Promise!Accepted(c) \/ Promise!Rejected(c)
      BY <1>3, <1>4, <1>10, <2>2, <3>1 DEF Promise!Accepted, Promise!Rejected
    <3>3. \A d \in Commands \ {c} : Promise!Idle(d)
      BY <1>3, <1>8 DEF Promise!Idle
    <3> QED BY <1>12, <3>2, <3>3 DEF Promise!Next, AcksCounted, Counted
  <2> QED BY <2>1, <2>2
<1> QED BY <1>12, <1>13, <1>14 DEF Story

-----------------------------------------------------------------------------
LEMMA InitStory == Init => RInv /\ Promise!Init
<1> SUFFICES ASSUME Init PROVE RInv /\ Promise!Init
  OBVIOUS
<1>1. Gone.state = "none" /\ Gone.timer = Off
  BY DEF Gone, Entry
<1>2. WaitingAnswer /\ TimersKept /\ AcksCounted
  BY <1>1 DEF Init, WaitingAnswer, TimersKept, AcksCounted, Counted
<1>3. KnownOnly
  BY EmptySeq DEF Init, KnownOnly
<1> QED BY <1>2, <1>3, InitInv DEF RInv, Story, Init, Promise!Init

LEMMA NextStory == RInv /\ [Next]_vars => RInv' /\ [Promise!Next]_(Promise!promise)
<1> SUFFICES ASSUME RInv, [Next]_vars
             PROVE  Story' /\ [Promise!Next]_(Promise!promise)
  BY NextInv DEF RInv
<1>1. ASSUME Story' /\ UNCHANGED promise
      PROVE  Story' /\ [Promise!Next]_(Promise!promise)
  BY <1>1 DEF promise, Promise!promise
<1>2. ASSUME NEW c \in Commands,
             Submit(c) \/ AckTimeoutFires(c) \/ DaemonEchoes(c) \/ DaemonFlushes(c)
      PROVE  Story' /\ [Promise!Next]_(Promise!promise)
  BY <1>1, <1>2, SubmitStory, AckTimeoutStory, DaemonStory
<1>3. ASSUME NEW l \in Links,
             \/ Connect(l) \/ Close(l) \/ AuthArrives(l) \/ AuthChecked(l) \/ AuthRefused(l)
             \/ AuthFinishes(l) \/ MessageArrives(l) \/ MessageBails(l)
      PROVE  Story' /\ [Promise!Next]_(Promise!promise)
  BY <1>1, <1>3, ConnectStory, SilentSteps, AuthFinishesStory, MessageStory
<1>4. CASE GraceExpires \/ Sweep
  BY <1>4, GraceStory, SweepStory
<1>5. CASE AuthTimeoutFires \/ Kick \/ UNCHANGED vars
  BY <1>1, <1>5, SilentSteps
<1>6. CASE DaemonReceives \/ DaemonLoses \/ DaemonRestarts \/ Tick
  BY <1>1, <1>6, DaemonStory, TickStory
<1> QED BY <1>2, <1>3, <1>4, <1>5, <1>6 DEF Next

(* The bridge, its overlapping connections, the daemon's receipt and outbox *)
(* implement the promise to the browser, for any number of commands, sends, *)
(* connections and any timing.                                              *)
THEOREM KeepsPromise == Spec => PromiseKept
<1>1. Init => RInv /\ Promise!Init
  BY InitStory
<1>2. RInv /\ [Next]_vars => RInv' /\ [Promise!Next]_(Promise!promise)
  BY NextStory
<1> QED BY <1>1, <1>2, PTL DEF Spec, PromiseKept, Promise!Spec
-----------------------------------------------------------------------------
(* How a command leaves the bridge, and why it is reported failed.          *)

Unanswered(c) == c \in Pending /\ c \notin Pending' /\ user'[c] = "waiting"
GivesUp(c) == user[c] = "waiting" /\ user'[c] = "failed"
HasCause(c) == ~Connected \/ (inflight[c].timer = 0 /\ inflight[c].attempts > RetryLimit)

(* What a step may do to command c.                                         *)
CommandStep(c) ==
  /\ Unanswered(c) => (Sweep /\ c \in Old) \/ HasCause(c)
  /\ GivesUp(c) => HasCause(c)

LEMMA SteadyCommand ==
  ASSUME NEW c \in Commands, user'[c] = user[c],
         inflight'[c].state = "none" => inflight[c].state = "none"
  PROVE  CommandStep(c)
BY DEF CommandStep, Unanswered, GivesUp, Pending

LEMMA SubmitCommand ==
  ASSUME RInv, NEW d \in Commands, Submit(d), NEW c \in Commands
  PROVE  CommandStep(c)
<1>1. inflight \in [Commands -> InflightState]
  BY DEF RInv, IInv, TypeOK
<1>2. Dispatched(Gone).state # "none" /\ Buffered.state # "none"
  BY EntryFacts
<1>3. \/ inflight' = inflight
      \/ inflight' = [inflight EXCEPT ![d] = Dispatched(Gone)]
      \/ inflight' = [inflight EXCEPT ![d] = Buffered]
  BY DEF Submit
<1>4. c \in Pending => c \in Pending'
  BY <1>1, <1>2, <1>3 DEF Pending
<1>5. user' = [user EXCEPT ![d] = "waiting"] \/ ~Connected
  BY DEF Submit
<1>6. GivesUp(c) => ~Connected
  BY <1>5, PromiseTypes DEF GivesUp
<1> QED BY <1>4, <1>6 DEF CommandStep, Unanswered, HasCause

LEMMA AckTimeoutCommand ==
  ASSUME RInv, NEW d \in Commands, AckTimeoutFires(d), NEW c \in Commands
  PROVE  CommandStep(c)
<1>1. inflight \in [Commands -> InflightState] /\ RetryLimit \in Nat
  BY AckAssumption DEF RInv, IInv, TypeOK
<1>2. inflight[d] \in InflightState /\ inflight[d].attempts \in Nat
  BY <1>1 DEF InflightState
<1>3. Dispatched(inflight[d]).state # "none" /\ Parked(inflight[d]).state # "none"
  BY <1>2, EntryFacts
<1>4. CASE /\ user' = user
           /\ \/ inflight' = [inflight EXCEPT ![d] = Dispatched(inflight[d])]
              \/ inflight' = [inflight EXCEPT ![d] = Parked(inflight[d])]
  <2>1. c \in Pending => c \in Pending'
    BY <1>1, <1>3, <1>4 DEF Pending
  <2> QED BY <1>4, <2>1 DEF CommandStep, Unanswered, GivesUp
<1>5. CASE /\ ~Retries(d)
           /\ inflight' = [inflight EXCEPT ![d] = Gone]
           /\ user' \in Reported({d})
  <2>1. HasCause(d)
    BY <1>1, <1>2, <1>5 DEF AckTimeoutFires, HasCause, Retries
  <2>2. c # d => inflight'[c] = inflight[c] /\ user'[c] = user[c]
    BY <1>1, <1>5 DEF Reported
  <2> QED BY <2>1, <2>2, SteadyCommand DEF CommandStep
<1> QED BY <1>4, <1>5 DEF AckTimeoutFires

LEMMA GraceCommand ==
  ASSUME RInv, GraceExpires, NEW c \in Commands
  PROVE  CommandStep(c)
<1>1. CASE bridge.authed
  BY <1>1, SteadyCommand DEF GraceExpires
<1>2. CASE ~bridge.authed
  BY <1>2 DEF CommandStep, HasCause, Connected
<1> QED BY <1>1, <1>2

LEMMA MessageCommand ==
  ASSUME RInv, NEW l \in Links, MessageArrives(l), NEW c \in Commands
  PROVE  CommandStep(c)
<1> DEFINE m == Head(up[l])
<1>1. inflight \in [Commands -> InflightState] /\ up[l] \in Seq(Reply) /\ up[l] # <<>>
  BY DEF RInv, IInv, TypeOK, MessageArrives
<1>2. m \in Reply /\ m.cmd \in Commands
  <2>1. Head(up[l]) \in Reply
    BY <1>1, HeadTailProperties
  <2> QED BY <2>1 DEF Reply
<1>3. \/ UNCHANGED <<inflight, user>>
      \/ /\ inflight' = [inflight EXCEPT ![m.cmd] = Gone]
         /\ \E o \in {"acked", "rejected"} : user' = [user EXCEPT ![m.cmd] = o]
  BY DEF MessageArrives
<1> HIDE DEF m
<1>4. CASE c = m.cmd /\ \E o \in {"acked", "rejected"} : user' = [user EXCEPT ![m.cmd] = o]
  <2>1. user'[c] \in {"acked", "rejected"}
    BY <1>2, <1>4, PromiseTypes
  <2> QED BY <2>1 DEF CommandStep, Unanswered, GivesUp
<1>5. CASE c # m.cmd \/ UNCHANGED <<inflight, user>>
  <2>1. inflight'[c] = inflight[c] /\ user'[c] = user[c]
    BY <1>1, <1>2, <1>3, <1>5, PromiseTypes
  <2> QED BY <2>1, SteadyCommand
<1> QED BY <1>3, <1>4, <1>5

LEMMA AuthFinishesCommand ==
  ASSUME RInv, NEW l \in Links, AuthFinishes(l), NEW c \in Commands
  PROVE  CommandStep(c)
<1>1. inflight[c] \in InflightState
  BY DEF RInv, IInv, TypeOK
<1>2. Dispatched(inflight[c]).state # "none"
  BY <1>1, EntryFacts
<1>3. inflight'[c] = IF c \in Pending THEN Dispatched(inflight[c]) ELSE Gone
  BY DEF AuthFinishes
<1>4. user' = user
  BY DEF AuthFinishes, promise
<1> QED BY <1>2, <1>3, <1>4, SteadyCommand DEF Pending

LEMMA TickCommand ==
  ASSUME RInv, Tick, NEW c \in Commands
  PROVE  CommandStep(c)
<1>1. inflight[c] \in InflightState
  BY DEF RInv, IInv, TypeOK
<1>2. inflight'[c].state = inflight[c].state
  BY <1>1, EntryFacts DEF Tick, Pending, InflightState
<1>3. user' = user
  BY DEF Tick, promise
<1> QED BY <1>2, <1>3, SteadyCommand

LEMMA SweepCommand ==
  ASSUME RInv, Sweep, NEW c \in Commands
  PROVE  CommandStep(c)
<1>1. user' = user /\ inflight'[c] = IF c \in Old THEN Gone ELSE inflight[c]
  BY DEF Sweep
<1>2. CASE c \in Old
  BY <1>1, <1>2 DEF CommandStep, GivesUp
<1>3. CASE c \notin Old
  BY <1>1, <1>3, SteadyCommand
<1> QED BY <1>2, <1>3

LEMMA NextCommand ==
  ASSUME RInv, [Next]_vars, NEW c \in Commands
  PROVE  CommandStep(c)
<1>1. ASSUME UNCHANGED <<inflight, user>> PROVE CommandStep(c)
  BY <1>1, SteadyCommand
<1>2. ASSUME NEW d \in Commands,
             Submit(d) \/ AckTimeoutFires(d) \/ DaemonEchoes(d) \/ DaemonFlushes(d)
      PROVE  CommandStep(c)
  <2>1. CASE DaemonEchoes(d) \/ DaemonFlushes(d)
    BY <1>1, <2>1 DEF DaemonEchoes, DaemonFlushes, promise
  <2> QED BY <1>2, <2>1, SubmitCommand, AckTimeoutCommand
<1>3. ASSUME NEW l \in Links,
             \/ Connect(l) \/ Close(l) \/ AuthArrives(l) \/ AuthChecked(l) \/ AuthRefused(l)
             \/ AuthFinishes(l) \/ MessageArrives(l) \/ MessageBails(l)
      PROVE  CommandStep(c)
  <2>1. CASE AuthFinishes(l) \/ MessageArrives(l)
    BY <2>1, AuthFinishesCommand, MessageCommand
  <2>2. CASE \/ Connect(l) \/ Close(l) \/ AuthArrives(l) \/ AuthChecked(l)
             \/ AuthRefused(l) \/ MessageBails(l)
    BY <1>1, <2>2 DEF Connect, Close, AuthArrives, AuthChecked, AuthRefused, MessageBails, promise
  <2> QED BY <1>3, <2>1, <2>2
<1>4. CASE GraceExpires
  BY <1>4, GraceCommand
<1>5. CASE Tick \/ Sweep
  BY <1>5, TickCommand, SweepCommand
<1>6. CASE \/ AuthTimeoutFires \/ Kick \/ DaemonReceives \/ DaemonLoses \/ DaemonRestarts
           \/ UNCHANGED vars
  BY <1>1, <1>6
  DEF AuthTimeoutFires, Kick, DaemonReceives, DaemonLoses, DaemonRestarts, vars, promise
<1> QED BY <1>2, <1>3, <1>4, <1>5, <1>6 DEF Next

LEMMA StoryInvariance == Spec => []RInv
BY InitStory, NextStory, PTL DEF Spec

(* A command leaves the bridge without its user told of an ack, a rejection *)
(* or a failure only in two ways: the sweep finds a very old entry, or the  *)
(* failure has a cause and its message found the browser's socket closed.   *)
NothingForgotten ==
  [][\A c \in Commands : Unanswered(c) => (Sweep /\ c \in Old) \/ HasCause(c)]_vars
THEOREM OnlyTheSweepForgets == Spec => NothingForgotten
<1>1. RInv /\ [Next]_vars =>
        [\A c \in Commands : Unanswered(c) => (Sweep /\ c \in Old) \/ HasCause(c)]_vars
  BY NextCommand DEF CommandStep
<1> QED BY <1>1, StoryInvariance, PTL DEF Spec, NothingForgotten

(* A waiting command is reported failed only while no daemon is connected   *)
(* and authenticated, or when the ack timer of an entry whose retries are   *)
(* used up fires: replays, sweeps and late acks never fail a command.       *)
FailsForACause == [][\A c \in Commands : GivesUp(c) => HasCause(c)]_vars
THEOREM FailuresHaveCauses == Spec => FailsForACause
<1>1. RInv /\ [Next]_vars => [\A c \in Commands : GivesUp(c) => HasCause(c)]_vars
  BY NextCommand DEF CommandStep
<1> QED BY <1>1, StoryInvariance, PTL DEF Spec, FailsForACause
=============================================================================
