---------------------- MODULE TransportSession_proofs ----------------------
(***************************************************************************)
(* Proofs about TransportSession, for any set of commands and runtimes and *)
(* any MaxRestarts and ResendCap.                                          *)
(***************************************************************************)
EXTENDS TransportSession, SequenceTheorems, TLAPS

-----------------------------------------------------------------------------
(* Sequences of commands: what the operators of the model return, and where *)
(* the elements of the result come from.                                    *)

(* Newest returns a sequence of commands, all of them from its argument, no *)
(* longer than the cap; it drops something only by filling the cap.         *)
LEMMA NewestFacts ==
  ASSUME NEW q \in Seq(Commands)
  PROVE  /\ Newest(q) \in Seq(Commands)
         /\ ToSet(Newest(q)) \subseteq ToSet(q)
         /\ Newest(q) = q \/ Len(Newest(q)) = ResendCap
<1> USE SessionAssumption DEF Newest
<1>1. CASE Len(q) <= ResendCap
  BY <1>1
<1>2. CASE Len(q) > ResendCap
  <2> DEFINE m == Len(q) - ResendCap + 1
  <2>1. /\ m \in Int /\ Len(q) \in Int
        /\ \A i \in m..Len(q) : i \in 1..Len(q) /\ q[i] \in Commands
    BY <1>2, LenProperties
  <2>2. /\ SubSeq(q, m, Len(q)) \in Seq(Commands)
        /\ Len(SubSeq(q, m, Len(q))) = ResendCap
        /\ \A i \in 1..ResendCap : SubSeq(q, m, Len(q))[i] = q[m + i - 1]
    BY <1>2, <2>1, SubSeqProperties, Len(q) - m + 1 = ResendCap, m <= Len(q)
  <2>3. \A i \in 1..ResendCap : m + i - 1 \in 1..Len(q)
    BY <1>2, LenProperties
  <2>4. ToSet(SubSeq(q, m, Len(q))) \subseteq ToSet(q)
    BY <2>2, <2>3, LenProperties DEF ToSet
  <2> QED BY <1>2, <2>2, <2>4
<1> QED BY <1>1, <1>2, LenProperties

(* ToSet and the sequence operators the actions use.                        *)
LEMMA ToSetConcat ==
  ASSUME NEW S, NEW s \in Seq(S), NEW t \in Seq(S)
  PROVE  s \o t \in Seq(S) /\ ToSet(s \o t) = ToSet(s) \union ToSet(t)
<1>1. s \o t \in Seq(S) /\ DOMAIN (s \o t) = 1..(Len(s) + Len(t))
  BY LenProperties, ConcatProperties
<1>2. \A i \in 1..Len(s) : i \in 1..(Len(s) + Len(t)) /\ (s \o t)[i] = s[i]
  BY LenProperties, ConcatProperties
<1>3. \A i \in 1..Len(t) : /\ i + Len(s) \in 1..(Len(s) + Len(t))
                           /\ (s \o t)[i + Len(s)] = t[i]
  BY LenProperties, ConcatProperties
<1>4. \A i \in 1..(Len(s) + Len(t)) :
        \/ i \in 1..Len(s)
        \/ i - Len(s) \in 1..Len(t) /\ (s \o t)[i] = t[i - Len(s)]
  BY LenProperties, ConcatProperties
<1>5. ToSet(s \o t) \subseteq ToSet(s) \union ToSet(t)
  BY <1>1, <1>2, <1>4, LenProperties DEF ToSet
<1>6. ToSet(s) \union ToSet(t) \subseteq ToSet(s \o t)
  BY <1>1, <1>2, <1>3, LenProperties DEF ToSet
<1> QED BY <1>1, <1>5, <1>6

LEMMA ToSetOne ==
  ASSUME NEW S, NEW c \in S
  PROVE  <<c>> \in Seq(S) /\ ToSet(<<c>>) = {c}
BY DEF ToSet

LEMMA ToSetEmpty == ASSUME NEW S PROVE <<>> \in Seq(S) /\ ToSet(<<>>) = {}
BY DEF ToSet

LEMMA ToSetAppend ==
  ASSUME NEW S, NEW s \in Seq(S), NEW c \in S
  PROVE  Append(s, c) \in Seq(S) /\ ToSet(Append(s, c)) = ToSet(s) \union {c}
<1>1. Append(s, c) = s \o <<c>>
  OBVIOUS
<1>2. <<c>> \in Seq(S) /\ ToSet(<<c>>) = {c}
  BY ToSetOne
<1>3. s \o <<c>> \in Seq(S) /\ ToSet(s \o <<c>>) = ToSet(s) \union ToSet(<<c>>)
  <2> DEFINE one == <<c>>
  <2>1. one \in Seq(S)
    BY <1>2
  <2> HIDE DEF one
  <2>2. s \o one \in Seq(S) /\ ToSet(s \o one) = ToSet(s) \union ToSet(one)
    BY <2>1, ToSetConcat
  <2> QED BY <2>2 DEF one
<1> QED BY <1>1, <1>2, <1>3

LEMMA ToSetSubSeq ==
  ASSUME NEW S, NEW s \in Seq(S), NEW m \in Nat \ {0}, NEW n \in Int, n <= Len(s)
  PROVE  SubSeq(s, m, n) \in Seq(S) /\ ToSet(SubSeq(s, m, n)) \subseteq ToSet(s)
<1>1. \A i \in m..n : i \in 1..Len(s) /\ s[i] \in S
  BY LenProperties
<1>2. /\ SubSeq(s, m, n) \in Seq(S)
      /\ Len(SubSeq(s, m, n)) = IF m <= n THEN n - m + 1 ELSE 0
      /\ \A i \in 1..(n - m + 1) : SubSeq(s, m, n)[i] = s[m + i - 1]
  BY <1>1, SubSeqProperties
<1>3. DOMAIN SubSeq(s, m, n) = 1..Len(SubSeq(s, m, n))
  BY <1>2, LenProperties
<1>4. \A i \in DOMAIN SubSeq(s, m, n) :
        i \in 1..(n - m + 1) /\ m + i - 1 \in 1..Len(s)
  BY <1>2, <1>3, LenProperties
<1>5. ToSet(SubSeq(s, m, n)) \subseteq ToSet(s)
  BY <1>2, <1>4, LenProperties DEF ToSet
<1> QED BY <1>2, <1>5

(* Splitting a sequence loses nothing.                                      *)
LEMMA ToSetSplit ==
  ASSUME NEW S, NEW s \in Seq(S), NEW k \in 0..Len(s)
  PROVE  ToSet(s) = ToSet(SubSeq(s, 1, k)) \union ToSet(SubSeq(s, k + 1, Len(s)))
<1>1. SubSeq(s, 1, k) \o SubSeq(s, k + 1, Len(s)) = SubSeq(s, 1, Len(s))
  <2>1. Len(s) \in Nat
    BY LenProperties
  <2>2. 1 \in 1..(Len(s) + 1) /\ k \in (1 - 1)..Len(s) /\ Len(s) \in k..Len(s)
    BY <2>1
  <2> QED BY <2>2, ConcatAdjacentSubSeq
<1>2. SubSeq(s, 1, Len(s)) = s
  BY SubSeqFull
<1>3. SubSeq(s, 1, k) \in Seq(S) /\ SubSeq(s, k + 1, Len(s)) \in Seq(S)
  BY LenProperties, ToSetSubSeq
<1>4. ToSet(SubSeq(s, 1, k) \o SubSeq(s, k + 1, Len(s)))
        = ToSet(SubSeq(s, 1, k)) \union ToSet(SubSeq(s, k + 1, Len(s)))
  <2> DEFINE a == SubSeq(s, 1, k)
             b == SubSeq(s, k + 1, Len(s))
  <2>1. a \in Seq(S) /\ b \in Seq(S)
    BY <1>3
  <2> HIDE DEF a, b
  <2>2. ToSet(a \o b) = ToSet(a) \union ToSet(b)
    BY <2>1, ToSetConcat
  <2> QED BY <2>2 DEF a, b
<1> QED BY <1>1, <1>2, <1>4

LEMMA ToSetHeadTail ==
  ASSUME NEW S, NEW s \in Seq(S), s # <<>>
  PROVE  /\ Head(s) \in S
         /\ Tail(s) \in Seq(S)
         /\ ToSet(s) = {Head(s)} \union ToSet(Tail(s))
<1>1. Head(s) \in S /\ Tail(s) \in Seq(S)
  BY HeadTailProperties
<1>2. <<Head(s)>> \in Seq(S) /\ ToSet(<<Head(s)>>) = {Head(s)}
  BY <1>1, ToSetOne
<1>3. s = <<Head(s)>> \o Tail(s)
  <2>1. Len(s) \in Nat \ {0}
    BY EmptySeq
  <2>2. SubSeq(s, 1, Len(s)) = <<s[1]>> \o SubSeq(s, 2, Len(s))
    BY <2>1, SubSeqRecursiveFirst
  <2>3. SubSeq(s, 1, Len(s)) = s /\ Tail(s) = SubSeq(s, 2, Len(s))
    BY SubSeqFull, TailIsSubSeq
  <2> QED BY <2>2, <2>3
<1>4. ToSet(<<Head(s)>> \o Tail(s)) = ToSet(<<Head(s)>>) \union ToSet(Tail(s))
  <2> DEFINE h == <<Head(s)>>
             t == Tail(s)
  <2>1. h \in Seq(S) /\ t \in Seq(S)
    BY <1>1, <1>2
  <2> HIDE DEF h, t
  <2>2. ToSet(h \o t) = ToSet(h) \union ToSet(t)
    BY <2>1, ToSetConcat
  <2> QED BY <2>2 DEF h, t
<1> QED BY <1>1, <1>2, <1>3, <1>4

LEMMA ToSetRemoveAt ==
  ASSUME NEW S, NEW s \in Seq(S), NEW i \in DOMAIN s
  PROVE  RemoveAt(s, i) \in Seq(S) /\ ToSet(RemoveAt(s, i)) \subseteq ToSet(s)
<1>1. i \in 1..Len(s) /\ Len(s) \in Nat
  BY LenProperties
<1>2. /\ SubSeq(s, 1, i - 1) \in Seq(S) /\ ToSet(SubSeq(s, 1, i - 1)) \subseteq ToSet(s)
      /\ SubSeq(s, i + 1, Len(s)) \in Seq(S)
      /\ ToSet(SubSeq(s, i + 1, Len(s))) \subseteq ToSet(s)
  BY <1>1, ToSetSubSeq
<1>3. /\ SubSeq(s, 1, i - 1) \o SubSeq(s, i + 1, Len(s)) \in Seq(S)
      /\ ToSet(SubSeq(s, 1, i - 1) \o SubSeq(s, i + 1, Len(s)))
           = ToSet(SubSeq(s, 1, i - 1)) \union ToSet(SubSeq(s, i + 1, Len(s)))
  <2> DEFINE a == SubSeq(s, 1, i - 1)
             b == SubSeq(s, i + 1, Len(s))
  <2>1. a \in Seq(S) /\ b \in Seq(S)
    BY <1>2
  <2> HIDE DEF a, b
  <2>2. a \o b \in Seq(S) /\ ToSet(a \o b) = ToSet(a) \union ToSet(b)
    BY <2>1, ToSetConcat
  <2> QED BY <2>2 DEF a, b
<1> QED BY <1>2, <1>3 DEF RemoveAt

(* The entries a recovery adds are those of the failed payload that were    *)
(* not queued.                                                              *)
LEMMA RequeuedFacts ==
  ASSUME NEW q \in Seq(Commands), NEW msgs \in Seq(Commands), NEW s \in Requeued(q, msgs)
  PROVE  /\ s \in Seq(Commands)
         /\ ToSet(s) \subseteq ToSet(q) \union ToSet(msgs)
         /\ ToSet(q) \subseteq ToSet(s) \/ Len(s) = ResendCap
<1>1. PICK t \in NotQueued(q, msgs) : s = Newest(q \o t)
  BY DEF Requeued
<1>2. PICK n \in 0..Len(msgs) : \E p \in [1..n -> DOMAIN msgs] :
        t = [k \in DOMAIN p |-> msgs[p[k]]]
  BY <1>1 DEF NotQueued
<1>7. PICK p \in [1..n -> DOMAIN msgs] : t = [k \in DOMAIN p |-> msgs[p[k]]]
  BY <1>2
<1>3. \A k \in 1..n : msgs[p[k]] \in Commands /\ msgs[p[k]] \in ToSet(msgs)
  BY LenProperties DEF ToSet
<1>4. t \in Seq(Commands) /\ DOMAIN t = 1..n
  BY <1>7, <1>3, LenProperties, SeqDef
<1>5. ToSet(t) \subseteq ToSet(msgs)
  BY <1>7, <1>3, <1>4 DEF ToSet
<1>6. q \o t \in Seq(Commands) /\ ToSet(q \o t) = ToSet(q) \union ToSet(t)
  BY <1>4, ToSetConcat
<1> QED BY <1>1, <1>5, <1>6, NewestFacts

-----------------------------------------------------------------------------
(* The inductive invariant.                                                 *)

(* A handler that waits for the send mutex has captured a runtime.          *)
HandlersAimed ==
  \A c \in Commands : handler[c].phase = "admitted" => handler[c].target \in Runtimes

(* No turn is dispatched for nothing.                                       *)
DispatchesCarry == \A d \in dispatches : d.msgs # <<>>

(* What a launcher waits to be stopped is a runtime in its ending, and each *)
(* launcher waits for its own.                                              *)
VictimsEnding ==
  \A l \in Launchers :
    launch[l].stage = "stopping" =>
      launch[l].victim \in Runtimes /\ rt[launch[l].victim].life = "ending"
VictimsApart ==
  \A l, m \in Launchers :
    launch[l].stage = "stopping" /\ launch[m].stage = "stopping" /\ l # m =>
      launch[l].victim # launch[m].victim

(* A message whose handler has not ended is nowhere yet.                    *)
Held(x) == ToSet(x.active) \union ToSet(x.pending)
UnsentIsNowhere ==
  \A c \in Commands :
    handler[c].phase # "done" =>
      c \notin ToSet(resend) /\ \A r \in Runtimes : c \notin Held(rt[r])

IInv ==
  /\ TypeOK
  /\ HandlersAimed
  /\ DispatchesCarry
  /\ VictimsEnding
  /\ VictimsApart
  /\ MapHoldsLive
  /\ IdleMeansDrained
  /\ NotWedged
  /\ UnsentIsNowhere
  /\ WaitsInOnePlace

-----------------------------------------------------------------------------
(* What the operators on one runtime do to its fields.                      *)

LEMMA BlankFacts ==
  ASSUME NEW l \in {"unborn", "live", "ending", "dead"}
  PROVE  /\ Blank(l) \in RuntimeState
         /\ Blank(l).life = l /\ Blank(l).status = "idle" /\ ~Blank(l).sending
         /\ Blank(l).pending = <<>> /\ Held(Blank(l)) = {}
<1>1. <<>> \in Seq(Commands) /\ ToSet(<<>>) = {}
  BY ToSetEmpty
<1> QED BY <1>1 DEF Blank, RuntimeState, Held

LEMMA BeginTurnFacts ==
  ASSUME NEW x \in RuntimeState, NEW msgs \in Seq(Commands)
  PROVE  LET y == BeginTurn(x, msgs) IN
         /\ y \in RuntimeState
         /\ y.life = x.life /\ y.status = "thinking" /\ y.sending
         /\ y.active = msgs /\ y.pending = x.pending
BY DEF BeginTurn, RuntimeState

(* The runtime a launch builds once the first entry is sent to it.          *)
LEMMA FirstTurnFacts ==
  ASSUME NEW msgs \in Seq(Commands)
  PROVE  LET b == BeginTurn(Blank("live"), msgs) IN
         /\ b \in RuntimeState
         /\ b.life = "live" /\ b.status = "thinking" /\ b.sending
         /\ b.active = msgs
<1> DEFINE x == Blank("live")
<1>1. x \in RuntimeState /\ x.life = "live"
  BY BlankFacts
<1> HIDE DEF x
<1>2. LET y == BeginTurn(x, msgs) IN
      /\ y \in RuntimeState
      /\ y.life = "live" /\ y.status = "thinking" /\ y.sending
      /\ y.active = msgs
  BY <1>1, BeginTurnFacts
<1> QED BY <1>2 DEF x

LEMMA SendFacts ==
  ASSUME NEW x \in RuntimeState, NEW c \in Commands
  PROVE  LET y == Send(x, c) IN
         /\ y \in RuntimeState
         /\ y.life = x.life /\ y.sending
         /\ y.status = IF x.sending THEN x.status ELSE "thinking"
         /\ Held(y) \subseteq Held(x) \union {c}
<1>1. CASE x.sending
  <2>1. /\ Append(x.pending, c) \in Seq(Commands)
        /\ ToSet(Append(x.pending, c)) = ToSet(x.pending) \union {c}
    BY ToSetAppend DEF RuntimeState
  <2> QED BY <1>1, <2>1 DEF Send, RuntimeState, Held
<1>2. CASE ~x.sending
  <2>1. <<c>> \in Seq(Commands) /\ ToSet(<<c>>) = {c}
    BY ToSetOne
  <2> QED BY <1>2, <2>1, BeginTurnFacts DEF Send, Held
<1> QED BY <1>1, <1>2

LEMMA DrainedFacts ==
  ASSUME NEW x \in RuntimeState
  PROVE  LET y == Drained(x) IN
         /\ y \in RuntimeState
         /\ y.life = x.life /\ y.pending = <<>>
         /\ y.sending <=> x.pending # <<>>
         /\ y.status = IF x.pending = <<>> THEN "idle" ELSE "thinking"
         /\ Held(y) \subseteq Held(x)
<1>1. <<>> \in Seq(Commands) /\ ToSet(<<>>) = {}
  BY ToSetEmpty
<1>2. CASE x.pending = <<>>
  BY <1>1, <1>2 DEF Drained, RuntimeState, Held
<1>3. CASE x.pending # <<>>
  <2>1. x.pending \in Seq(Commands)
    BY DEF RuntimeState
  <2> DEFINE b == BeginTurn(x, x.pending)
  <2>2. /\ b \in RuntimeState /\ b.life = x.life /\ b.status = "thinking" /\ b.sending
        /\ b.active = x.pending
    BY <2>1, BeginTurnFacts
  <2>3. Drained(x) = [b EXCEPT !.pending = <<>>]
    BY <1>3 DEF Drained
  <2> HIDE DEF b
  <2> QED BY <1>1, <1>3, <2>2, <2>3 DEF RuntimeState, Held
<1> QED BY <1>2, <1>3

-----------------------------------------------------------------------------
(* What StopAndLaunch and FailTurn do.                                      *)

LEMMA StopFacts ==
  ASSUME TypeOK, NEW l \in Launchers, NEW f \in [Runtimes -> RuntimeState],
         NEW fresh \in BOOLEAN, StopAndLaunch(l, f, fresh)
  PROVE  /\ rt' \in [Runtimes -> RuntimeState]
         /\ registered' = None
         /\ launch' \in [Launchers -> LaunchState]
         /\ \A r \in Runtimes :
              /\ rt'[r].life = IF r = registered THEN "ending" ELSE f[r].life
              /\ rt'[r].status = f[r].status /\ rt'[r].sending = f[r].sending
              /\ rt'[r].active = f[r].active /\ rt'[r].pending = f[r].pending
         /\ \A m \in Launchers \ {l} : launch'[m] = launch[m]
         /\ launch'[l].stage = "stopping" =>
              launch'[l].victim = registered /\ registered \in Runtimes
<1>1. launch \in [Launchers -> LaunchState] /\ registered' = None
  BY DEF TypeOK, StopAndLaunch
<1>2. CASE registered = None
  <2> DEFINE to == [stage |-> "launching", victim |-> None, fresh |-> FALSE]
  <2>1. rt' = f /\ launch' = [launch EXCEPT ![l] = to]
    BY <1>2 DEF StopAndLaunch
  <2>2. to \in LaunchState
    BY DEF LaunchState
  <2>3. \A r \in Runtimes : r # registered
    BY <1>2, SessionAssumption
  <2> QED BY <1>1, <2>1, <2>2, <2>3
<1>3. CASE registered # None
  <2> DEFINE to == [stage |-> "stopping", victim |-> registered, fresh |-> fresh]
  <2>1. registered \in Runtimes
    BY <1>3 DEF TypeOK
  <2>2. /\ rt' = [f EXCEPT ![registered].life = "ending"]
        /\ launch' = [launch EXCEPT ![l] = to]
    BY <1>3 DEF StopAndLaunch
  <2>3. to \in LaunchState
    BY <2>1 DEF LaunchState
  <2>4. /\ rt' \in [Runtimes -> RuntimeState]
        /\ \A r \in Runtimes :
             rt'[r] = IF r = registered THEN [f[r] EXCEPT !.life = "ending"] ELSE f[r]
    BY <2>1, <2>2 DEF RuntimeState
  <2>5. \A r \in Runtimes : f[r] \in RuntimeState
    OBVIOUS
  <2>6. \A r \in Runtimes :
          /\ rt'[r].life = IF r = registered THEN "ending" ELSE f[r].life
          /\ rt'[r].status = f[r].status /\ rt'[r].sending = f[r].sending
          /\ rt'[r].active = f[r].active /\ rt'[r].pending = f[r].pending
    BY <2>4, <2>5 DEF RuntimeState
  <2> QED BY <1>1, <2>1, <2>2, <2>3, <2>4, <2>6
<1> QED BY <1>2, <1>3

(* The parts of the invariant about runtimes and launchers survive a stop   *)
(* if the caller's own update f respects them.                              *)
LEMMA StopKeeps ==
  ASSUME TypeOK, MapHoldsLive, VictimsApart,
         NEW l \in Launchers, NEW f \in [Runtimes -> RuntimeState],
         NEW fresh \in BOOLEAN, StopAndLaunch(l, f, fresh),
         \A m \in Launchers \ {l} :
           launch[m].stage = "stopping" =>
             /\ launch[m].victim \in Runtimes
             /\ f[launch[m].victim].life = "ending"
             /\ launch[m].victim # registered,
         \A r \in Runtimes :
           f[r].life = "live" /\ f[r].status = "idle" => ~f[r].sending /\ f[r].pending = <<>>,
         \A r \in Runtimes :
           f[r].life = "live" /\ f[r].sending =>
             turn'[r] # <<>> \/ \E d \in dispatches' : d.rt = r /\ d.stage = "preparing"
  PROVE  /\ VictimsEnding' /\ VictimsApart' /\ MapHoldsLive'
         /\ IdleMeansDrained' /\ NotWedged' /\ WaitsInOnePlace'
         /\ \A r \in Runtimes : Held(rt'[r]) = Held(f[r])
<1> USE StopFacts
<1>1. VictimsEnding'
  BY DEF VictimsEnding
<1>2. VictimsApart'
  BY DEF VictimsApart
<1>3. MapHoldsLive' /\ WaitsInOnePlace'
  BY DEF MapHoldsLive, WaitsInOnePlace, WithRegistered
<1>4. IdleMeansDrained'
  BY DEF IdleMeansDrained
<1>5. NotWedged'
  BY DEF NotWedged
<1>6. \A r \in Runtimes : Held(rt'[r]) = Held(f[r])
  BY DEF Held
<1> QED BY <1>1, <1>2, <1>3, <1>4, <1>5, <1>6

(* A turn of r that fails, whatever ended it at the provider, keeps the     *)
(* invariant: with a recovery or without one.                               *)
LEMMA FailTurnKeeps ==
  ASSUME IInv, NEW r \in Runtimes, NEW entries \in Seq(Commands),
         ToSet(entries) \subseteq ToSet(rt[r].active),
         FailTurn(r, entries), handler' = handler,
         dispatches' \subseteq dispatches,
         \A d \in dispatches : d.rt # r => d \in dispatches',
         turn' \in [Runtimes -> Seq(Commands)],
         \A q \in Runtimes \ {r} : turn'[q] = turn[q]
  PROVE  IInv'
<1> DEFINE failed == [rt EXCEPT ![r].sending = FALSE, ![r].status = "error",
                               ![r].active = entries]
<1>1. TypeOK /\ MapHoldsLive /\ VictimsApart /\ VictimsEnding /\ IdleMeansDrained
      /\ NotWedged /\ UnsentIsNowhere /\ HandlersAimed /\ DispatchesCarry /\ WaitsInOnePlace
  BY DEF IInv
<1>2. /\ failed \in [Runtimes -> RuntimeState]
      /\ \A q \in Runtimes : failed[q].life = rt[q].life /\ failed[q].pending = rt[q].pending
      /\ \A q \in Runtimes \ {r} : failed[q] = rt[q]
      /\ failed[r].status = "error" /\ ~failed[r].sending /\ failed[r].active = entries
  <2>1. rt \in [Runtimes -> RuntimeState] /\ rt[r] \in RuntimeState
    BY <1>1 DEF TypeOK
  <2> DEFINE x == [[[rt[r] EXCEPT !.sending = FALSE] EXCEPT !.status = "error"]
                      EXCEPT !.active = entries]
  <2>2. failed = [rt EXCEPT ![r] = x]
    BY <2>1
  <2>3. x \in RuntimeState /\ x.life = rt[r].life /\ x.pending = rt[r].pending
        /\ x.status = "error" /\ ~x.sending /\ x.active = entries
    BY <2>1 DEF RuntimeState
  <2> HIDE DEF x, failed
  <2> QED BY <2>1, <2>2, <2>3
<1>3. \A q \in Runtimes : Held(failed[q]) \subseteq Held(rt[q])
  BY <1>2 DEF Held
<1>4. \A q \in Runtimes :
        failed[q].life = "live" /\ failed[q].status = "idle" =>
          ~failed[q].sending /\ failed[q].pending = <<>>
  BY <1>1, <1>2 DEF IdleMeansDrained
<1>5. \A q \in Runtimes :
        failed[q].life = "live" /\ failed[q].sending =>
          turn'[q] # <<>> \/ \E d \in dispatches' : d.rt = q /\ d.stage = "preparing"
  <2> HIDE DEF failed
  <2> SUFFICES ASSUME NEW q \in Runtimes, failed[q].life = "live", failed[q].sending
               PROVE  turn'[q] # <<>> \/ \E d \in dispatches' : d.rt = q /\ d.stage = "preparing"
    OBVIOUS
  <2>1. q # r
    BY <1>2
  <2>2. rt[q].life = "live" /\ rt[q].sending
    BY <1>2, <2>1
  <2>3. turn[q] # <<>> \/ \E d \in dispatches : d.rt = q /\ d.stage = "preparing"
    BY <1>1, <2>2 DEF NotWedged
  <2> QED BY <2>1, <2>3
<1>6. dispatches' \in SUBSET Dispatch /\ DispatchesCarry' /\ HandlersAimed'
  BY <1>1 DEF TypeOK, DispatchesCarry, HandlersAimed
<1>7. CASE /\ restarts' = restarts + 1
           /\ resend' \in Requeued(resend, entries)
           /\ StopAndLaunch("recovery", failed, FALSE)
           /\ told' = told
           /\ launch["recovery"].stage = "idle"
  <2>1. "recovery" \in Launchers /\ FALSE \in BOOLEAN
    BY DEF Launchers
  <2>2. \A m \in Launchers \ {"recovery"} :
          launch[m].stage = "stopping" =>
            /\ launch[m].victim \in Runtimes
            /\ failed[launch[m].victim].life = "ending"
            /\ launch[m].victim # registered
    <3> HIDE DEF failed
    <3> SUFFICES ASSUME NEW m \in Launchers, launch[m].stage = "stopping"
                 PROVE  /\ launch[m].victim \in Runtimes
                        /\ failed[launch[m].victim].life = "ending"
                        /\ launch[m].victim # registered
      OBVIOUS
    <3>1. launch[m].victim \in Runtimes /\ rt[launch[m].victim].life = "ending"
      BY <1>1 DEF VictimsEnding
    <3>2. launch[m].victim # registered
      BY <1>1, <3>1, SessionAssumption DEF MapHoldsLive
    <3> QED BY <1>2, <3>1, <3>2
  <2>3. /\ VictimsEnding' /\ VictimsApart' /\ MapHoldsLive'
        /\ IdleMeansDrained' /\ NotWedged' /\ WaitsInOnePlace'
        /\ \A q \in Runtimes : Held(rt'[q]) = Held(failed[q])
    <3> HIDE DEF failed
    <3> QED BY <1>1, <1>2, <1>4, <1>5, <1>7, <2>1, <2>2, StopKeeps
  <2>4. /\ rt' \in [Runtimes -> RuntimeState] /\ registered' = None
        /\ launch' \in [Launchers -> LaunchState]
    <3> HIDE DEF failed
    <3> QED BY <1>1, <1>2, <1>7, <2>1, StopFacts
  <2>5. resend \in Seq(Commands)
    BY <1>1 DEF TypeOK
  <2>6. /\ resend' \in Seq(Commands)
        /\ ToSet(resend') \subseteq ToSet(resend) \union ToSet(entries)
    BY <1>7, <2>5, RequeuedFacts
  <2>7. TypeOK'
    BY <1>1, <1>6, <1>7, <2>4, <2>6 DEF TypeOK
  <2>8. UnsentIsNowhere'
    <3> HIDE DEF failed
    <3>1. ToSet(entries) \subseteq Held(rt[r])
      BY DEF Held
    <3> QED BY <1>1, <1>3, <2>3, <2>6, <3>1 DEF UnsentIsNowhere
  <2> QED BY <1>6, <2>3, <2>7, <2>8 DEF IInv
<1>8. CASE /\ rt' = failed
           /\ UNCHANGED <<restarts, resend, registered, launch>>
           /\ told' \in {told \union ToSet(entries), told}
  <2> HIDE DEF failed
  <2>1. ToSet(entries) \subseteq Commands
    BY LenProperties DEF ToSet
  <2>2. TypeOK'
    BY <1>1, <1>2, <1>6, <1>8, <2>1 DEF TypeOK
  <2>3. VictimsEnding' /\ VictimsApart' /\ MapHoldsLive'
    BY <1>1, <1>2, <1>8 DEF VictimsEnding, VictimsApart, MapHoldsLive, TypeOK
  <2>4. IdleMeansDrained' /\ NotWedged'
    BY <1>4, <1>5, <1>8 DEF IdleMeansDrained, NotWedged
  <2>5. UnsentIsNowhere'
    BY <1>1, <1>3, <1>8 DEF UnsentIsNowhere
  <2>6. WaitsInOnePlace'
    BY <1>1, <1>3, <1>8 DEF WaitsInOnePlace, WithRegistered, TypeOK, Held
  <2> QED BY <1>6, <2>2, <2>3, <2>4, <2>5, <2>6 DEF IInv
<1>9. QED
  BY <1>7, <1>8 DEF FailTurn

-----------------------------------------------------------------------------
(* Every action keeps the invariant: session.send.                          *)

LEMMA ReceiveKeeps ==
  ASSUME IInv, NEW c \in Commands, Receive(c)
  PROVE  IInv'
<1>1. /\ UNCHANGED <<rt, registered, dispatches, turn, resend, launch, restarts, told>>
      /\ handler[c].phase = "new"
      /\ \A b \in Commands \ {c} : handler'[b] = handler[b]
      /\ handler'[c].phase # "admitted"
      /\ handler' \in [Commands -> HandlerState]
  BY DEF IInv, TypeOK, Receive, HandlerState
<1>2. TypeOK' /\ HandlersAimed' /\ UnsentIsNowhere'
  BY <1>1 DEF IInv, TypeOK, HandlersAimed, UnsentIsNowhere
<1> QED
  BY <1>1, <1>2 DEF IInv, DispatchesCarry, VictimsEnding, VictimsApart, MapHoldsLive,
     IdleMeansDrained, NotWedged, WaitsInOnePlace, WithRegistered

LEMMA AwaitMutexKeeps ==
  ASSUME IInv, NEW c \in Commands, AwaitMutex(c)
  PROVE  IInv'
<1>1. /\ UNCHANGED <<rt, registered, dispatches, turn, resend, launch, restarts, told>>
      /\ handler[c].phase = "captured"
      /\ \A b \in Commands \ {c} : handler'[b] = handler[b]
      /\ handler'[c].target \in Runtimes
      /\ handler' \in [Commands -> HandlerState]
  BY DEF IInv, TypeOK, AwaitMutex, HandlerState
<1>2. TypeOK' /\ HandlersAimed' /\ UnsentIsNowhere'
  BY <1>1 DEF IInv, TypeOK, HandlersAimed, UnsentIsNowhere
<1> QED
  BY <1>1, <1>2 DEF IInv, DispatchesCarry, VictimsEnding, VictimsApart, MapHoldsLive,
     IdleMeansDrained, NotWedged, WaitsInOnePlace, WithRegistered

(* A relaunch or a recovery that stops the registered runtime and touches   *)
(* no runtime otherwise.                                                    *)
LEMMA StopOnlyKeeps ==
  ASSUME IInv, NEW l \in Launchers, NEW fresh \in BOOLEAN, launch[l].stage = "idle",
         StopAndLaunch(l, rt, fresh), UNCHANGED <<dispatches, turn>>
  PROVE  /\ VictimsEnding' /\ VictimsApart' /\ MapHoldsLive'
         /\ IdleMeansDrained' /\ NotWedged' /\ WaitsInOnePlace' /\ DispatchesCarry'
         /\ rt' \in [Runtimes -> RuntimeState] /\ registered' = None
         /\ launch' \in [Launchers -> LaunchState]
         /\ \A r \in Runtimes : Held(rt'[r]) = Held(rt[r])
<1>1. TypeOK /\ MapHoldsLive /\ VictimsApart /\ VictimsEnding /\ IdleMeansDrained
      /\ NotWedged /\ DispatchesCarry /\ rt \in [Runtimes -> RuntimeState]
  BY DEF IInv, TypeOK
<1>2. \A m \in Launchers \ {l} :
        launch[m].stage = "stopping" =>
          /\ launch[m].victim \in Runtimes
          /\ rt[launch[m].victim].life = "ending"
          /\ launch[m].victim # registered
  <2> SUFFICES ASSUME NEW m \in Launchers, launch[m].stage = "stopping"
               PROVE  /\ launch[m].victim \in Runtimes
                      /\ rt[launch[m].victim].life = "ending"
                      /\ launch[m].victim # registered
    OBVIOUS
  <2>1. launch[m].victim \in Runtimes /\ rt[launch[m].victim].life = "ending"
    BY <1>1 DEF VictimsEnding
  <2> QED BY <1>1, <2>1, SessionAssumption DEF MapHoldsLive
<1>3. \A r \in Runtimes :
        rt[r].life = "live" /\ rt[r].status = "idle" => ~rt[r].sending /\ rt[r].pending = <<>>
  BY <1>1 DEF IdleMeansDrained
<1>4. \A r \in Runtimes :
        rt[r].life = "live" /\ rt[r].sending =>
          turn'[r] # <<>> \/ \E d \in dispatches' : d.rt = r /\ d.stage = "preparing"
  BY <1>1 DEF NotWedged
<1>5. DispatchesCarry'
  BY <1>1 DEF DispatchesCarry
<1> QED BY <1>1, <1>2, <1>3, <1>4, <1>5, StopKeeps, StopFacts

LEMMA QueueAndResumeKeeps ==
  ASSUME IInv, NEW c \in Commands, QueueAndResume(c)
  PROVE  IInv'
<1>1. TypeOK /\ UnsentIsNowhere /\ HandlersAimed /\ WaitsInOnePlace
  BY DEF IInv
<1>2. /\ resend' = Enqueued(resend, c)
      /\ told' = told \union (ToSet(resend) \ ToSet(resend'))
      /\ handler' = [handler EXCEPT ![c].phase = "done"]
      /\ handler[c].phase = "captured"
      /\ UNCHANGED <<dispatches, turn, restarts>>
  BY DEF QueueAndResume
<1>3. /\ resend' \in Seq(Commands)
      /\ ToSet(resend') \subseteq ToSet(resend) \union {c}
      /\ ToSet(resend) \subseteq Commands
  <2>1. Append(resend, c) \in Seq(Commands)
        /\ ToSet(Append(resend, c)) = ToSet(resend) \union {c}
    BY <1>1, ToSetAppend DEF TypeOK
  <2>2. ToSet(resend) \subseteq Commands
    BY <1>1, LenProperties DEF TypeOK, ToSet
  <2> QED BY <1>2, <2>1, <2>2, NewestFacts DEF Enqueued
<1>4. /\ handler' \in [Commands -> HandlerState]
      /\ \A b \in Commands \ {c} : handler'[b] = handler[b]
      /\ handler'[c].phase = "done"
  BY <1>1, <1>2 DEF TypeOK, HandlerState
<1>5. HandlersAimed'
  BY <1>1, <1>4 DEF HandlersAimed
<1>6. CASE launch["relaunch"].stage = "idle"
  <2>1. "relaunch" \in Launchers /\ FALSE \in BOOLEAN /\ StopAndLaunch("relaunch", rt, FALSE)
    BY <1>6 DEF Launchers, QueueAndResume
  <2>2. /\ VictimsEnding' /\ VictimsApart' /\ MapHoldsLive'
        /\ IdleMeansDrained' /\ NotWedged' /\ WaitsInOnePlace' /\ DispatchesCarry'
        /\ rt' \in [Runtimes -> RuntimeState] /\ registered' = None
        /\ launch' \in [Launchers -> LaunchState]
        /\ \A r \in Runtimes : Held(rt'[r]) = Held(rt[r])
    BY <1>2, <1>6, <2>1, StopOnlyKeeps
  <2>3. TypeOK'
    BY <1>1, <1>2, <1>3, <1>4, <2>2 DEF TypeOK
  <2>4. UnsentIsNowhere'
    BY <1>1, <1>3, <1>4, <2>2 DEF UnsentIsNowhere
  <2> QED BY <1>5, <2>2, <2>3, <2>4 DEF IInv
<1>7. CASE launch["relaunch"].stage # "idle"
  <2>1. UNCHANGED <<rt, registered, launch>>
    BY <1>7 DEF QueueAndResume
  <2>2. TypeOK' /\ UnsentIsNowhere'
    BY <1>1, <1>2, <1>3, <1>4, <2>1 DEF TypeOK, UnsentIsNowhere
  <2>3. WaitsInOnePlace'
    <3>1. registered # None => c \notin Held(rt[registered])
      BY <1>1, <1>2 DEF UnsentIsNowhere, TypeOK
    <3> QED BY <1>1, <1>3, <2>1, <3>1 DEF WaitsInOnePlace, WithRegistered, Held
  <2> QED
    BY <1>2, <1>5, <2>1, <2>2, <2>3 DEF IInv, DispatchesCarry, VictimsEnding, VictimsApart,
       MapHoldsLive, IdleMeansDrained, NotWedged
<1> QED BY <1>6, <1>7

LEMMA SendToRuntimeKeeps ==
  ASSUME IInv, NEW c \in Commands, SendToRuntime(c)
  PROVE  IInv'
<1> DEFINE r == handler[c].target
<1>1. TypeOK /\ UnsentIsNowhere /\ HandlersAimed /\ WaitsInOnePlace /\ VictimsEnding
      /\ VictimsApart /\ MapHoldsLive /\ IdleMeansDrained /\ NotWedged /\ DispatchesCarry
  BY DEF IInv
<1>2. /\ handler[c].phase = "admitted"
      /\ handler' = [handler EXCEPT ![c].phase = "done"]
      /\ UNCHANGED <<registered, turn, resend, launch, restarts>>
      /\ r \in Runtimes
  BY <1>1 DEF SendToRuntime, HandlersAimed
<1>3. /\ handler' \in [Commands -> HandlerState]
      /\ \A b \in Commands \ {c} : handler'[b] = handler[b]
      /\ handler'[c].phase = "done"
  BY <1>1, <1>2 DEF TypeOK, HandlerState
<1>4. HandlersAimed'
  BY <1>1, <1>3 DEF HandlersAimed
<1>5. CASE rt[r].life = "dead"
  <2>1. told' = told \union {c} /\ UNCHANGED <<rt, dispatches>>
    BY <1>5 DEF SendToRuntime
  <2>2. TypeOK' /\ UnsentIsNowhere'
    BY <1>1, <1>2, <1>3, <2>1 DEF TypeOK, UnsentIsNowhere
  <2> QED
    BY <1>1, <1>2, <1>4, <2>1, <2>2 DEF IInv, DispatchesCarry, VictimsEnding, VictimsApart,
       MapHoldsLive, IdleMeansDrained, NotWedged, WaitsInOnePlace, WithRegistered
<1>6. CASE rt[r].life # "dead"
  <2>1. /\ rt' = [rt EXCEPT ![r] = Send(rt[r], c)]
        /\ dispatches' = IF rt[r].sending THEN dispatches
                                          ELSE dispatches \union {Begun(r, <<c>>)}
        /\ told' = told
    BY <1>6 DEF SendToRuntime
  <2>2. rt[r] \in RuntimeState /\ rt \in [Runtimes -> RuntimeState]
    BY <1>1, <1>2 DEF TypeOK
  <2>3. /\ rt' \in [Runtimes -> RuntimeState]
        /\ \A q \in Runtimes \ {r} : rt'[q] = rt[q]
        /\ rt'[r].life = rt[r].life /\ rt'[r].sending
        /\ rt'[r].status = IF rt[r].sending THEN rt[r].status ELSE "thinking"
        /\ Held(rt'[r]) \subseteq Held(rt[r]) \union {c}
    <3> HIDE DEF r
    <3> QED BY <1>2, <2>1, <2>2, SendFacts
  <2>4. <<c>> \in Seq(Commands) /\ <<c>> # <<>>
    BY ToSetOne
  <2>5. /\ Begun(r, <<c>>) \in Dispatch /\ Begun(r, <<c>>).rt = r
        /\ Begun(r, <<c>>).msgs # <<>> /\ Begun(r, <<c>>).stage = "preparing"
    BY <1>2, <2>4 DEF Begun, Dispatch
  <2> HIDE DEF r
  <2>6. TypeOK'
    BY <1>1, <1>2, <1>3, <2>1, <2>3, <2>5 DEF TypeOK
  <2>7. DispatchesCarry'
    BY <1>1, <2>1, <2>5 DEF DispatchesCarry
  <2>8. VictimsEnding' /\ VictimsApart' /\ MapHoldsLive'
    <3>1. \A q \in Runtimes : rt'[q].life = rt[q].life
      BY <2>3
    <3> QED BY <1>1, <1>2, <3>1 DEF VictimsEnding, VictimsApart, MapHoldsLive, TypeOK
  <2>9. IdleMeansDrained'
    BY <1>1, <1>2, <2>3 DEF IdleMeansDrained
  <2>10. NotWedged'
    <3>1. CASE rt[r].sending
      BY <1>1, <1>2, <2>1, <2>3, <3>1 DEF NotWedged
    <3>2. CASE ~rt[r].sending
      BY <1>1, <1>2, <2>1, <2>3, <2>5, <3>2 DEF NotWedged
    <3> QED BY <3>1, <3>2
  <2>11. UnsentIsNowhere'
    BY <1>1, <1>2, <1>3, <2>3 DEF UnsentIsNowhere
  <2>12. WaitsInOnePlace'
    <3>1. c \notin ToSet(resend)
      BY <1>1, <1>2 DEF UnsentIsNowhere
    <3>2. \A q \in Runtimes : Held(rt'[q]) \subseteq Held(rt[q]) \union {c}
      BY <2>3
    <3> QED BY <1>1, <1>2, <3>1, <3>2 DEF WaitsInOnePlace, WithRegistered, Held, TypeOK
  <2> QED BY <1>4, <2>6, <2>7, <2>8, <2>9, <2>10, <2>11, <2>12 DEF IInv
<1> QED BY <1>5, <1>6

-----------------------------------------------------------------------------
(* Every action keeps the invariant: dispatches and provider callbacks.     *)

LEMMA ProviderStartsKeeps ==
  ASSUME IInv, NEW d \in dispatches, ProviderStarts(d)
  PROVE  IInv'
<1> DEFINE e == [d EXCEPT !.stage = "started"]
<1>1. /\ TypeOK /\ DispatchesCarry /\ NotWedged
      /\ UNCHANGED <<rt, registered, resend, launch, restarts, handler, told>>
      /\ dispatches' = (dispatches \ {d}) \union {e}
      /\ turn' = [turn EXCEPT ![d.rt] = d.msgs]
  BY DEF IInv, ProviderStarts
<1>2. d \in Dispatch /\ d.rt \in Runtimes /\ d.msgs \in Seq(Commands) /\ d.msgs # <<>>
  BY <1>1 DEF TypeOK, DispatchesCarry, Dispatch
<1>3. e \in Dispatch /\ e.rt = d.rt /\ e.msgs = d.msgs
  BY <1>2 DEF Dispatch
<1> HIDE DEF e
<1>4. TypeOK' /\ DispatchesCarry'
  BY <1>1, <1>2, <1>3 DEF TypeOK, DispatchesCarry
<1>5. turn'[d.rt] # <<>> /\ \A q \in Runtimes \ {d.rt} : turn'[q] = turn[q]
  BY <1>1, <1>2 DEF TypeOK
<1>6. NotWedged'
  BY <1>1, <1>5 DEF NotWedged
<1> QED
  BY <1>1, <1>4, <1>6 DEF IInv, HandlersAimed, VictimsEnding, VictimsApart, MapHoldsLive,
     IdleMeansDrained, UnsentIsNowhere, WaitsInOnePlace, WithRegistered

LEMMA DispatchResolvesKeeps ==
  ASSUME IInv, NEW d \in dispatches, DispatchResolves(d)
  PROVE  IInv'
<1>1. /\ TypeOK /\ DispatchesCarry /\ NotWedged /\ d.stage = "started"
      /\ UNCHANGED <<rt, registered, turn, resend, launch, restarts, handler, told>>
      /\ dispatches' = dispatches \ {d}
  BY DEF IInv, DispatchResolves
<1>2. TypeOK' /\ DispatchesCarry'
  BY <1>1 DEF TypeOK, DispatchesCarry
<1>3. NotWedged'
  BY <1>1 DEF NotWedged
<1> QED
  BY <1>1, <1>2, <1>3 DEF IInv, HandlersAimed, VictimsEnding, VictimsApart, MapHoldsLive,
     IdleMeansDrained, UnsentIsNowhere, WaitsInOnePlace, WithRegistered

LEMMA DispatchRejectsKeeps ==
  ASSUME IInv, NEW d \in dispatches, DispatchRejects(d)
  PROVE  IInv'
<1>1. TypeOK /\ DispatchesCarry /\ NotWedged
      /\ dispatches' = dispatches \ {d} /\ UNCHANGED <<turn, handler>>
  BY DEF IInv, DispatchRejects
<1>2. d.rt \in Runtimes /\ rt[d.rt].active \in Seq(Commands)
  BY <1>1 DEF TypeOK, Dispatch, RuntimeState
<1>3. CASE rt[d.rt].sending
  <2>1. FailTurn(d.rt, rt[d.rt].active)
    BY <1>3 DEF DispatchRejects
  <2>2. turn' \in [Runtimes -> Seq(Commands)]
    BY <1>1 DEF TypeOK
  <2>3. /\ dispatches' \subseteq dispatches
        /\ \A x \in dispatches : x.rt # d.rt => x \in dispatches'
        /\ \A q \in Runtimes \ {d.rt} : turn'[q] = turn[q]
        /\ ToSet(rt[d.rt].active) \subseteq ToSet(rt[d.rt].active)
    BY <1>1
  <2> QED BY <1>1, <1>2, <2>1, <2>2, <2>3, FailTurnKeeps
<1>4. CASE ~rt[d.rt].sending
  <2>1. UNCHANGED <<rt, registered, resend, launch, restarts, told>>
    BY <1>4 DEF DispatchRejects
  <2>2. TypeOK' /\ DispatchesCarry'
    BY <1>1, <2>1 DEF TypeOK, DispatchesCarry
  <2>3. NotWedged'
    BY <1>1, <1>4, <2>1 DEF NotWedged
  <2> QED
    BY <1>1, <2>1, <2>2, <2>3 DEF IInv, HandlersAimed, VictimsEnding, VictimsApart,
       MapHoldsLive, IdleMeansDrained, UnsentIsNowhere, WaitsInOnePlace, WithRegistered
<1> QED BY <1>3, <1>4

(* A runtime whose life stays as it is, that is not left idle with work, is *)
(* not left asleep, and holds no more than before.                          *)
LEMMA TurnStepKeeps ==
  ASSUME IInv, NEW r \in Runtimes, NEW x \in RuntimeState,
         rt' = [rt EXCEPT ![r] = x],
         x.life = rt[r].life,
         x.life = "live" /\ x.status = "idle" => ~x.sending /\ x.pending = <<>>,
         Held(x) \subseteq Held(rt[r]),
         \A q \in Runtimes \ {r} : turn'[q] = turn[q],
         turn' \in [Runtimes -> Seq(Commands)],
         dispatches \subseteq dispatches',
         dispatches' \in SUBSET Dispatch, DispatchesCarry',
         x.life = "live" /\ x.sending =>
           turn'[r] # <<>> \/ \E d \in dispatches' : d.rt = r /\ d.stage = "preparing",
         UNCHANGED <<registered, resend, launch, restarts, handler>>,
         told' \in SUBSET Commands
  PROVE  IInv'
<1>1. TypeOK /\ UnsentIsNowhere /\ HandlersAimed /\ WaitsInOnePlace /\ VictimsEnding
      /\ VictimsApart /\ MapHoldsLive /\ IdleMeansDrained /\ NotWedged
  BY DEF IInv
<1>2. /\ rt' \in [Runtimes -> RuntimeState] /\ rt'[r] = x
      /\ \A q \in Runtimes \ {r} : rt'[q] = rt[q]
      /\ \A q \in Runtimes : rt'[q].life = rt[q].life /\ Held(rt'[q]) \subseteq Held(rt[q])
  BY <1>1 DEF TypeOK
<1>3. TypeOK'
  BY <1>1, <1>2 DEF TypeOK
<1>4. VictimsEnding' /\ VictimsApart' /\ MapHoldsLive' /\ HandlersAimed'
  BY <1>1, <1>2 DEF VictimsEnding, VictimsApart, MapHoldsLive, HandlersAimed, TypeOK
<1>5. IdleMeansDrained'
  BY <1>1, <1>2 DEF IdleMeansDrained
<1>6. NotWedged'
  <2> SUFFICES ASSUME NEW q \in Runtimes, rt'[q].life = "live", rt'[q].sending
               PROVE  turn'[q] # <<>> \/ \E d \in dispatches' : d.rt = q /\ d.stage = "preparing"
    BY DEF NotWedged
  <2>1. CASE q = r
    BY <1>2, <2>1
  <2>2. CASE q # r
    <3>1. rt[q].life = "live" /\ rt[q].sending /\ turn'[q] = turn[q]
      BY <1>2, <2>2
    <3> QED BY <1>1, <3>1 DEF NotWedged
  <2> QED BY <2>1, <2>2
<1>7. UnsentIsNowhere'
  BY <1>1, <1>2 DEF UnsentIsNowhere
<1>8. WaitsInOnePlace'
  BY <1>1, <1>2 DEF WaitsInOnePlace, WithRegistered, Held, TypeOK
<1> QED BY <1>3, <1>4, <1>5, <1>6, <1>7, <1>8 DEF IInv

LEMMA ProviderDeltaKeeps ==
  ASSUME IInv, NEW r \in Runtimes, ProviderDelta(r)
  PROVE  IInv'
<1> DEFINE x == [rt[r] EXCEPT !.status = "streaming"]
<1>1. TypeOK /\ DispatchesCarry /\ turn[r] # <<>>
      /\ UNCHANGED <<registered, dispatches, turn, resend, launch, restarts, handler, told>>
      /\ rt' = [rt EXCEPT ![r] = x]
  BY DEF IInv, ProviderDelta
<1>2. rt[r] \in RuntimeState
  BY <1>1 DEF TypeOK
<1>3. /\ x \in RuntimeState /\ x.life = rt[r].life /\ x.status = "streaming"
      /\ Held(x) = Held(rt[r])
  BY <1>2 DEF RuntimeState, Held
<1> HIDE DEF x
<1>4. /\ turn' \in [Runtimes -> Seq(Commands)] /\ \A q \in Runtimes \ {r} : turn'[q] = turn[q]
      /\ dispatches' \in SUBSET Dispatch /\ dispatches \subseteq dispatches'
      /\ told' \in SUBSET Commands /\ DispatchesCarry' /\ turn'[r] # <<>>
  BY <1>1 DEF TypeOK, DispatchesCarry
<1> QED BY <1>1, <1>3, <1>4, TurnStepKeeps

(* A turn of r has ended and the queue behind it goes on.                   *)
LEMMA DrainKeeps ==
  ASSUME IInv, NEW r \in Runtimes,
         turn' = [turn EXCEPT ![r] = <<>>],
         rt' = [rt EXCEPT ![r] = Drained(rt[r])],
         dispatches' = dispatches \union DrainDispatch(r),
         UNCHANGED <<registered, resend, launch, restarts, handler, told>>
  PROVE  IInv'
<1> DEFINE x == Drained(rt[r])
<1>1. TypeOK /\ DispatchesCarry
  BY DEF IInv
<1>2. rt[r] \in RuntimeState /\ rt[r].pending \in Seq(Commands)
  BY <1>1 DEF TypeOK, RuntimeState
<1>3. /\ x \in RuntimeState /\ x.life = rt[r].life /\ x.pending = <<>>
      /\ x.sending <=> rt[r].pending # <<>>
      /\ x.status = IF rt[r].pending = <<>> THEN "idle" ELSE "thinking"
      /\ Held(x) \subseteq Held(rt[r])
  BY <1>2, DrainedFacts
<1>4. rt' = [rt EXCEPT ![r] = x]
  OBVIOUS
<1> HIDE DEF x
<1>5. <<>> \in Seq(Commands)
  BY ToSetEmpty
<1>6. turn' \in [Runtimes -> Seq(Commands)] /\ \A q \in Runtimes \ {r} : turn'[q] = turn[q]
  BY <1>1, <1>5 DEF TypeOK
<1>7. \A d \in DrainDispatch(r) :
        /\ d \in Dispatch /\ d.rt = r /\ d.msgs # <<>> /\ d.stage = "preparing"
        /\ rt[r].pending # <<>>
  BY <1>2 DEF DrainDispatch, Begun, Dispatch
<1>8. rt[r].pending # <<>> => \E d \in DrainDispatch(r) : TRUE
  BY DEF DrainDispatch
<1>9. /\ dispatches' \in SUBSET Dispatch /\ dispatches \subseteq dispatches'
      /\ DispatchesCarry' /\ told' \in SUBSET Commands
  BY <1>1, <1>7 DEF TypeOK, DispatchesCarry
<1>10. x.sending => \E d \in dispatches' : d.rt = r /\ d.stage = "preparing"
  BY <1>3, <1>7, <1>8
<1>11. x.status = "idle" => ~x.sending /\ x.pending = <<>>
  BY <1>3
<1> QED BY <1>3, <1>4, <1>6, <1>9, <1>10, <1>11, TurnStepKeeps

LEMMA ProviderCompleteKeeps ==
  ASSUME IInv, NEW r \in Runtimes, ProviderComplete(r)
  PROVE  IInv'
BY DrainKeeps DEF ProviderComplete

LEMMA ProviderRecoverableErrorKeeps ==
  ASSUME IInv, NEW r \in Runtimes, ProviderRecoverableError(r)
  PROVE  IInv'
<1>1. CASE rt[r].pending # <<>>
  BY <1>1, DrainKeeps DEF ProviderRecoverableError
<1>2. CASE rt[r].pending = <<>>
  <2>1. /\ FailTurn(r, <<>>) /\ UNCHANGED <<dispatches, handler>>
        /\ turn' = [turn EXCEPT ![r] = <<>>] /\ turn \in [Runtimes -> Seq(Commands)]
    BY <1>2 DEF ProviderRecoverableError, IInv, TypeOK
  <2>2. <<>> \in Seq(Commands) /\ ToSet(<<>>) = {}
    BY ToSetEmpty
  <2>3. turn' \in [Runtimes -> Seq(Commands)] /\ \A q \in Runtimes \ {r} : turn'[q] = turn[q]
    BY <2>1, <2>2
  <2> QED BY <2>1, <2>2, <2>3, FailTurnKeeps
<1> QED BY <1>1, <1>2

LEMMA ProviderFatalErrorKeeps ==
  ASSUME IInv, NEW r \in Runtimes, ProviderFatalError(r)
  PROVE  IInv'
<1>1. /\ FailTurn(r, rt[r].active) /\ UNCHANGED <<dispatches, handler>>
      /\ turn' = [turn EXCEPT ![r] = <<>>] /\ turn \in [Runtimes -> Seq(Commands)]
      /\ rt[r].active \in Seq(Commands)
  BY DEF ProviderFatalError, IInv, TypeOK, RuntimeState
<1>2. <<>> \in Seq(Commands)
  BY ToSetEmpty
<1>3. turn' \in [Runtimes -> Seq(Commands)] /\ \A q \in Runtimes \ {r} : turn'[q] = turn[q]
  BY <1>1, <1>2
<1> QED BY <1>1, <1>3, FailTurnKeeps

LEMMA UndoKeeps ==
  ASSUME IInv, NEW r \in Runtimes, NEW i \in DOMAIN rt[r].pending, Undo(r, i)
  PROVE  IInv'
<1> DEFINE x == [rt[r] EXCEPT !.pending = RemoveAt(rt[r].pending, i)]
<1>1. TypeOK /\ DispatchesCarry /\ IdleMeansDrained /\ NotWedged
      /\ UNCHANGED <<registered, dispatches, turn, resend, launch, restarts, handler>>
      /\ rt' = [rt EXCEPT ![r] = x]
      /\ told' = told \union {rt[r].pending[i]}
  BY DEF IInv, Undo
<1>2. rt[r] \in RuntimeState /\ rt[r].pending \in Seq(Commands)
  BY <1>1 DEF TypeOK, RuntimeState
<1>3. /\ RemoveAt(rt[r].pending, i) \in Seq(Commands)
      /\ ToSet(RemoveAt(rt[r].pending, i)) \subseteq ToSet(rt[r].pending)
      /\ rt[r].pending[i] \in Commands
  BY <1>2, ToSetRemoveAt, LenProperties
<1>4. /\ x \in RuntimeState /\ x.life = rt[r].life /\ x.status = rt[r].status
      /\ x.sending = rt[r].sending /\ Held(x) \subseteq Held(rt[r])
  BY <1>2, <1>3 DEF RuntimeState, Held
<1> HIDE DEF x
<1>5. /\ turn' \in [Runtimes -> Seq(Commands)] /\ \A q \in Runtimes \ {r} : turn'[q] = turn[q]
      /\ dispatches' \in SUBSET Dispatch /\ dispatches \subseteq dispatches'
      /\ told' \in SUBSET Commands /\ DispatchesCarry'
  BY <1>1, <1>3 DEF TypeOK, DispatchesCarry
<1>6. x.life = "live" /\ x.sending =>
        turn'[r] # <<>> \/ \E d \in dispatches' : d.rt = r /\ d.stage = "preparing"
  BY <1>1, <1>4 DEF NotWedged
<1>7. ~(x.life = "live" /\ x.status = "idle")
  <2>1. rt[r].pending # <<>>
    BY <1>2
  <2> QED BY <1>1, <1>4, <2>1 DEF IdleMeansDrained
<1> QED BY <1>1, <1>4, <1>5, <1>6, <1>7, TurnStepKeeps

-----------------------------------------------------------------------------
(* Every action keeps the invariant: stopping and launching.                *)

LEMMA ReleasedFacts ==
  ASSUME IInv, NEW l \in Launchers, NEW r \in Runtimes \union {None},
         handler' = Released(l, r)
  PROVE  /\ handler' \in [Commands -> HandlerState]
         /\ \A c \in Commands :
              /\ handler'[c].phase = "done" <=> handler[c].phase = "done"
              /\ handler'[c].phase = "admitted" => handler'[c] = handler[c]
         /\ HandlersAimed'
<1>1. handler \in [Commands -> HandlerState] /\ HandlersAimed
  BY DEF IInv, TypeOK
<1>2. CASE l # "relaunch"
  BY <1>1, <1>2 DEF Released, HandlersAimed
<1>3. CASE l = "relaunch"
  <2>1. handler' = [c \in Commands |-> IF handler[c].phase = "waiting"
                                       THEN [phase |-> "captured", target |-> r]
                                       ELSE handler[c]]
    BY <1>3 DEF Released
  <2>2. [phase |-> "captured", target |-> r] \in HandlerState
    BY DEF HandlerState
  <2>3. handler' \in [Commands -> HandlerState]
    BY <1>1, <2>1, <2>2
  <2>4. \A c \in Commands :
          /\ handler'[c].phase = "done" <=> handler[c].phase = "done"
          /\ handler'[c].phase = "admitted" => handler'[c] = handler[c]
    BY <2>1
  <2> QED BY <1>1, <2>3, <2>4 DEF HandlersAimed
<1> QED BY <1>2, <1>3

(* A launch that ends without a runtime.                                    *)
LEMMA LaunchEndKeeps ==
  ASSUME IInv, NEW l \in Launchers, NEW to \in LaunchState, to.stage # "stopping",
         launch' = [launch EXCEPT ![l] = to],
         handler' = Released(l, registered) \/ handler' = handler,
         UNCHANGED <<rt, registered, dispatches, turn, resend, restarts, told>>
  PROVE  IInv'
<1>1. TypeOK /\ UnsentIsNowhere /\ VictimsEnding /\ VictimsApart /\ HandlersAimed
  BY DEF IInv
<1>2. /\ handler' \in [Commands -> HandlerState]
      /\ \A c \in Commands : handler'[c].phase = "done" <=> handler[c].phase = "done"
      /\ HandlersAimed'
  <2>1. CASE handler' = handler
    BY <1>1, <2>1 DEF TypeOK, HandlersAimed
  <2>2. CASE handler' = Released(l, registered)
    BY <1>1, <2>2, ReleasedFacts DEF TypeOK
  <2> QED BY <2>1, <2>2
<1>3. /\ launch' \in [Launchers -> LaunchState] /\ launch'[l].stage # "stopping"
      /\ \A m \in Launchers \ {l} : launch'[m] = launch[m]
  BY <1>1 DEF TypeOK
<1>4. TypeOK' /\ UnsentIsNowhere'
  BY <1>1, <1>2, <1>3 DEF TypeOK, UnsentIsNowhere
<1>5. VictimsEnding' /\ VictimsApart'
  BY <1>1, <1>3 DEF VictimsEnding, VictimsApart
<1> QED
  BY <1>2, <1>4, <1>5 DEF IInv, DispatchesCarry, MapHoldsLive, IdleMeansDrained, NotWedged,
     WaitsInOnePlace, WithRegistered

LEMMA LaunchFailsKeeps ==
  ASSUME IInv, NEW l \in Launchers, LaunchFails(l)
  PROVE  IInv'
<1>1. NoLaunch \in LaunchState /\ NoLaunch.stage # "stopping"
  BY DEF NoLaunch, LaunchState
<1> QED BY <1>1, LaunchEndKeeps DEF LaunchFails

LEMMA KillThrowsKeeps ==
  ASSUME IInv, NEW l \in Launchers, KillThrows(l)
  PROVE  IInv'
<1> DEFINE going == [NoLaunch EXCEPT !.stage = "launching"]
<1>1. NoLaunch \in LaunchState /\ NoLaunch.stage # "stopping"
      /\ going \in LaunchState /\ going.stage # "stopping"
  BY DEF NoLaunch, LaunchState
<1>2. UNCHANGED <<rt, registered, dispatches, turn, resend, restarts, told>>
  BY DEF KillThrows
<1>3. \/ launch' = [launch EXCEPT ![l] = NoLaunch] /\ handler' = Released(l, registered)
      \/ launch' = [launch EXCEPT ![l] = going] /\ handler' = handler
  BY DEF KillThrows
<1> HIDE DEF going
<1> QED BY <1>1, <1>2, <1>3, LaunchEndKeeps

LEMMA RestoreStartsKeeps ==
  ASSUME IInv, RestoreStarts
  PROVE  IInv'
<1> DEFINE to == [launch["restore"] EXCEPT !.stage = "launching"]
<1>1. /\ launch["restore"] \in LaunchState /\ "restore" \in Launchers
      /\ launch' = [launch EXCEPT !["restore"] = to] /\ handler' = handler
      /\ UNCHANGED <<rt, registered, dispatches, turn, resend, restarts, told>>
  BY DEF IInv, TypeOK, Launchers, RestoreStarts
<1>2. to \in LaunchState /\ to.stage # "stopping"
  BY <1>1 DEF LaunchState
<1> HIDE DEF to
<1> QED BY <1>1, <1>2, LaunchEndKeeps

LEMMA KillReturnsKeeps ==
  ASSUME IInv, NEW l \in Launchers, KillReturns(l)
  PROVE  IInv'
<1> DEFINE v == launch[l].victim
           wiped == [rt EXCEPT ![v] = Blank("dead")]
<1>1. TypeOK /\ UnsentIsNowhere /\ HandlersAimed /\ WaitsInOnePlace /\ VictimsEnding
      /\ VictimsApart /\ MapHoldsLive /\ IdleMeansDrained /\ NotWedged /\ DispatchesCarry
  BY DEF IInv
<1>2. /\ launch[l].stage = "stopping"
      /\ turn' = [turn EXCEPT ![v] = <<>>]
      /\ UNCHANGED <<dispatches, resend, restarts, handler, told>>
      /\ v \in Runtimes /\ rt[v].life = "ending"
      /\ launch[l].fresh \in BOOLEAN
  BY <1>1 DEF KillReturns, VictimsEnding, TypeOK, LaunchState
<1>3. v # registered
  BY <1>1, <1>2, SessionAssumption DEF MapHoldsLive
<1>4. /\ wiped \in [Runtimes -> RuntimeState]
      /\ wiped[v].life = "dead" /\ Held(wiped[v]) = {}
      /\ \A q \in Runtimes \ {v} : wiped[q] = rt[q]
  <2>1. Blank("dead") \in RuntimeState /\ Blank("dead").life = "dead" /\ Held(Blank("dead")) = {}
    BY BlankFacts
  <2> QED BY <1>1, <1>2, <2>1 DEF TypeOK
<1>5. launch[l].fresh => StopAndLaunch(l, wiped, FALSE)
  BY DEF KillReturns
<1>6. ~launch[l].fresh =>
        /\ rt' = wiped
        /\ launch' = [launch EXCEPT ![l] = [NoLaunch EXCEPT !.stage = "launching"]]
        /\ UNCHANGED registered
  BY DEF KillReturns
<1> HIDE DEF wiped, v
<1>7. /\ turn' \in [Runtimes -> Seq(Commands)]
      /\ \A q \in Runtimes \ {v} : turn'[q] = turn[q]
  BY <1>1, <1>2, ToSetEmpty DEF TypeOK
<1>8. \A m \in Launchers \ {l} :
        launch[m].stage = "stopping" =>
          /\ launch[m].victim \in Runtimes
          /\ wiped[launch[m].victim].life = "ending"
          /\ launch[m].victim # registered
  <2> SUFFICES ASSUME NEW m \in Launchers \ {l}, launch[m].stage = "stopping"
               PROVE  /\ launch[m].victim \in Runtimes
                      /\ wiped[launch[m].victim].life = "ending"
                      /\ launch[m].victim # registered
    OBVIOUS
  <2>1. launch[m].victim \in Runtimes /\ rt[launch[m].victim].life = "ending"
    BY <1>1 DEF VictimsEnding
  <2>2. launch[m].victim # v
    BY <1>1, <1>2 DEF VictimsApart, v
  <2>3. launch[m].victim # registered
    BY <1>1, <2>1, SessionAssumption DEF MapHoldsLive
  <2> QED BY <1>4, <2>1, <2>2, <2>3
<1>9. \A q \in Runtimes :
        wiped[q].life = "live" /\ wiped[q].status = "idle" =>
          ~wiped[q].sending /\ wiped[q].pending = <<>>
  BY <1>1, <1>4 DEF IdleMeansDrained
<1>10. \A q \in Runtimes :
         wiped[q].life = "live" /\ wiped[q].sending =>
           turn'[q] # <<>> \/ \E d \in dispatches' : d.rt = q /\ d.stage = "preparing"
  <2> SUFFICES ASSUME NEW q \in Runtimes, wiped[q].life = "live", wiped[q].sending
               PROVE  turn'[q] # <<>> \/ \E d \in dispatches' : d.rt = q /\ d.stage = "preparing"
    OBVIOUS
  <2>1. q # v /\ rt[q].life = "live" /\ rt[q].sending /\ turn'[q] = turn[q]
    BY <1>4, <1>7
  <2> QED BY <1>1, <1>2, <2>1 DEF NotWedged
<1>11. \A q \in Runtimes : Held(wiped[q]) \subseteq Held(rt[q])
  BY <1>4
<1>12. HandlersAimed' /\ DispatchesCarry'
  BY <1>1, <1>2 DEF HandlersAimed, DispatchesCarry
<1>13. CASE launch[l].fresh
  <2>1. /\ rt' \in [Runtimes -> RuntimeState] /\ registered' = None
        /\ launch' \in [Launchers -> LaunchState]
    BY <1>1, <1>4, <1>5, <1>13, StopFacts
  <2>2. /\ VictimsEnding' /\ VictimsApart' /\ MapHoldsLive'
        /\ IdleMeansDrained' /\ NotWedged' /\ WaitsInOnePlace'
        /\ \A q \in Runtimes : Held(rt'[q]) = Held(wiped[q])
    BY <1>1, <1>4, <1>5, <1>8, <1>9, <1>10, <1>13, StopKeeps
  <2>3. TypeOK'
    BY <1>1, <1>2, <1>7, <2>1 DEF TypeOK
  <2>4. UnsentIsNowhere'
    BY <1>1, <1>2, <1>11, <2>2 DEF UnsentIsNowhere
  <2> QED BY <1>12, <2>2, <2>3, <2>4 DEF IInv
<1>14. CASE ~launch[l].fresh
  <2> DEFINE going == [NoLaunch EXCEPT !.stage = "launching"]
  <2>1. rt' = wiped /\ registered' = registered /\ launch' = [launch EXCEPT ![l] = going]
    BY <1>6, <1>14
  <2>2. going \in LaunchState /\ going.stage # "stopping"
    BY DEF NoLaunch, LaunchState
  <2> HIDE DEF going
  <2>3. /\ launch' \in [Launchers -> LaunchState] /\ launch'[l].stage # "stopping"
        /\ \A m \in Launchers \ {l} : launch'[m] = launch[m]
    BY <1>1, <2>1, <2>2 DEF TypeOK
  <2>4. TypeOK'
    BY <1>1, <1>2, <1>4, <1>7, <2>1, <2>3 DEF TypeOK
  <2>5. VictimsEnding'
    BY <1>8, <2>1, <2>3 DEF VictimsEnding
  <2>6. VictimsApart'
    BY <1>1, <2>3 DEF VictimsApart
  <2>7. registered # None => registered \in Runtimes /\ rt'[registered] = rt[registered]
    BY <1>1, <1>3, <1>4, <2>1 DEF TypeOK
  <2>8. MapHoldsLive' /\ WaitsInOnePlace'
    BY <1>1, <1>2, <2>1, <2>7 DEF MapHoldsLive, WaitsInOnePlace, WithRegistered
  <2>9. IdleMeansDrained' /\ NotWedged'
    BY <1>9, <1>10, <2>1 DEF IdleMeansDrained, NotWedged
  <2>10. UnsentIsNowhere'
    BY <1>1, <1>2, <1>11, <2>1 DEF UnsentIsNowhere
  <2> QED BY <1>12, <2>4, <2>5, <2>6, <2>8, <2>9, <2>10 DEF IInv
<1> QED BY <1>2, <1>13, <1>14

LEMMA LaunchSucceedsKeeps ==
  ASSUME IInv, NEW l \in Launchers, LaunchSucceeds(l)
  PROVE  IInv'
<1>1. TypeOK /\ UnsentIsNowhere /\ VictimsEnding /\ VictimsApart /\ IdleMeansDrained
      /\ NotWedged /\ DispatchesCarry
  BY DEF IInv
<1>2. PICK n \in Runtimes, expired \in 0..Len(resend) :
        LET fit == SubSeq(resend, expired + 1, Len(resend)) IN
        /\ rt[n].life = "unborn"
        /\ rt' = [rt EXCEPT ![n] =
                    IF fit = <<>> THEN Blank("live")
                    ELSE [BeginTurn(Blank("live"), <<Head(fit)>>) EXCEPT !.pending = Tail(fit)]]
        /\ dispatches' = IF fit = <<>> THEN dispatches
                         ELSE dispatches \union {Begun(n, <<Head(fit)>>)}
        /\ told' = told \union ToSet(SubSeq(resend, 1, expired))
        /\ registered' = n
        /\ handler' = Released(l, n)
  BY DEF LaunchSucceeds
<1>3. /\ launch[l].stage = "launching"
      /\ resend' = <<>>
      /\ launch' = [launch EXCEPT ![l] = NoLaunch]
      /\ UNCHANGED <<turn, restarts>>
  BY DEF LaunchSucceeds
<1> DEFINE fit == SubSeq(resend, expired + 1, Len(resend))
           x == IF fit = <<>> THEN Blank("live")
                ELSE [BeginTurn(Blank("live"), <<Head(fit)>>) EXCEPT !.pending = Tail(fit)]
<1>4. /\ resend \in Seq(Commands) /\ Len(resend) \in Nat /\ expired \in Nat
      /\ fit \in Seq(Commands) /\ ToSet(fit) \subseteq ToSet(resend)
      /\ ToSet(SubSeq(resend, 1, expired)) \subseteq Commands
  <2>1. resend \in Seq(Commands) /\ Len(resend) \in Nat /\ expired \in Nat
    BY <1>1, LenProperties DEF TypeOK
  <2>2. ToSet(resend) \subseteq Commands
    BY <2>1, LenProperties DEF ToSet
  <2> QED BY <2>1, <2>2, ToSetSubSeq
<1>5. rt' = [rt EXCEPT ![n] = x] /\ rt[n].life = "unborn"
  BY <1>2
<1> HIDE DEF fit
<1>6. /\ x \in RuntimeState /\ x.life = "live" /\ Held(x) \subseteq ToSet(resend)
      /\ x.status = "idle" <=> fit = <<>>
      /\ x.sending <=> fit # <<>>
      /\ fit = <<>> => x.pending = <<>>
  <2>1. CASE fit = <<>>
    BY <2>1, BlankFacts
  <2>2. CASE fit # <<>>
    <3>1. /\ Head(fit) \in Commands /\ Tail(fit) \in Seq(Commands)
          /\ ToSet(fit) = {Head(fit)} \union ToSet(Tail(fit))
      BY <1>4, <2>2, ToSetHeadTail
    <3>2. <<Head(fit)>> \in Seq(Commands) /\ ToSet(<<Head(fit)>>) = {Head(fit)}
      BY <3>1, ToSetOne
    <3> DEFINE b == BeginTurn(Blank("live"), <<Head(fit)>>)
    <3>3. /\ b \in RuntimeState /\ b.life = "live" /\ b.status = "thinking" /\ b.sending
          /\ b.active = <<Head(fit)>>
      BY <3>2, FirstTurnFacts
    <3>4. x = [b EXCEPT !.pending = Tail(fit)]
      BY <2>2
    <3> HIDE DEF b, x
    <3> QED BY <1>4, <2>2, <3>1, <3>2, <3>3, <3>4 DEF RuntimeState, Held
  <2> QED BY <2>1, <2>2
<1> HIDE DEF x
<1>7. /\ rt' \in [Runtimes -> RuntimeState] /\ rt'[n] = x
      /\ \A q \in Runtimes \ {n} : rt'[q] = rt[q]
  BY <1>1, <1>5, <1>6 DEF TypeOK
<1>8. /\ dispatches' \in SUBSET Dispatch /\ dispatches \subseteq dispatches' /\ DispatchesCarry'
      /\ fit # <<>> => \E d \in dispatches' : d.rt = n /\ d.stage = "preparing"
  <2>1. CASE fit = <<>>
    BY <1>1, <1>2, <2>1 DEF fit, TypeOK, DispatchesCarry
  <2>2. CASE fit # <<>>
    <3>1. dispatches' = dispatches \union {Begun(n, <<Head(fit)>>)}
      BY <1>2, <2>2 DEF fit
    <3>2. Head(fit) \in Commands
      BY <1>4, <2>2, ToSetHeadTail
    <3>3. <<Head(fit)>> \in Seq(Commands)
      BY <3>2, ToSetOne
    <3>4. /\ Begun(n, <<Head(fit)>>) \in Dispatch /\ Begun(n, <<Head(fit)>>).rt = n
          /\ Begun(n, <<Head(fit)>>).msgs # <<>>
          /\ Begun(n, <<Head(fit)>>).stage = "preparing"
      BY <3>3 DEF Begun, Dispatch
    <3> QED BY <1>1, <3>1, <3>4 DEF TypeOK, DispatchesCarry
  <2> QED BY <2>1, <2>2
<1>9. /\ handler' \in [Commands -> HandlerState] /\ HandlersAimed'
      /\ \A c \in Commands : handler'[c].phase = "done" <=> handler[c].phase = "done"
  BY <1>2, ReleasedFacts
<1>10. /\ launch' \in [Launchers -> LaunchState] /\ launch'[l].stage # "stopping"
       /\ \A m \in Launchers \ {l} : launch'[m] = launch[m]
  BY <1>1, <1>3 DEF TypeOK, NoLaunch, LaunchState
<1>11. resend' \in Seq(Commands) /\ ToSet(resend') = {}
  BY <1>3, ToSetEmpty
<1>12. TypeOK'
  BY <1>1, <1>2, <1>3, <1>4, <1>7, <1>8, <1>9, <1>10, <1>11 DEF TypeOK
<1>13. VictimsEnding'
  <2> SUFFICES ASSUME NEW m \in Launchers, launch'[m].stage = "stopping"
               PROVE  launch'[m].victim \in Runtimes /\ rt'[launch'[m].victim].life = "ending"
    BY DEF VictimsEnding
  <2>1. m # l /\ launch'[m] = launch[m]
    BY <1>10
  <2>2. launch[m].victim \in Runtimes /\ rt[launch[m].victim].life = "ending"
    BY <1>1, <2>1 DEF VictimsEnding
  <2>3. launch[m].victim # n
    BY <1>5, <2>2
  <2> QED BY <1>7, <2>1, <2>2, <2>3
<1>14. VictimsApart'
  BY <1>1, <1>10 DEF VictimsApart
<1>15. MapHoldsLive' /\ WaitsInOnePlace'
  BY <1>2, <1>6, <1>7, <1>11 DEF MapHoldsLive, WaitsInOnePlace
<1>16. IdleMeansDrained'
  BY <1>1, <1>6, <1>7 DEF IdleMeansDrained
<1>17. NotWedged'
  <2> SUFFICES ASSUME NEW q \in Runtimes, rt'[q].life = "live", rt'[q].sending
               PROVE  turn'[q] # <<>> \/ \E d \in dispatches' : d.rt = q /\ d.stage = "preparing"
    BY DEF NotWedged
  <2>1. CASE q = n
    BY <1>6, <1>7, <1>8, <2>1
  <2>2. CASE q # n
    <3>1. rt[q].life = "live" /\ rt[q].sending /\ turn'[q] = turn[q]
      BY <1>3, <1>7, <2>2
    <3> QED BY <1>1, <1>8, <3>1 DEF NotWedged
  <2> QED BY <2>1, <2>2
<1>18. UnsentIsNowhere'
  <2> SUFFICES ASSUME NEW c \in Commands, handler'[c].phase # "done"
               PROVE  c \notin ToSet(resend') /\ \A r \in Runtimes : c \notin Held(rt'[r])
    BY DEF UnsentIsNowhere
  <2>1. c \notin ToSet(resend) /\ \A r \in Runtimes : c \notin Held(rt[r])
    BY <1>1, <1>9 DEF UnsentIsNowhere
  <2> QED BY <1>6, <1>7, <1>11, <2>1
<1> QED BY <1>8, <1>9, <1>12, <1>13, <1>14, <1>15, <1>16, <1>17, <1>18 DEF IInv

LEMMA RestartKeeps ==
  ASSUME IInv, Restart
  PROVE  IInv'
<1>1. /\ "relaunch" \in Launchers /\ FALSE \in BOOLEAN /\ launch["relaunch"].stage = "idle"
      /\ StopAndLaunch("relaunch", rt, FALSE)
      /\ UNCHANGED <<dispatches, turn, resend, restarts, handler, told>>
      /\ TypeOK /\ HandlersAimed /\ UnsentIsNowhere
  BY DEF IInv, Launchers, Restart
<1>2. /\ VictimsEnding' /\ VictimsApart' /\ MapHoldsLive'
      /\ IdleMeansDrained' /\ NotWedged' /\ WaitsInOnePlace' /\ DispatchesCarry'
      /\ rt' \in [Runtimes -> RuntimeState] /\ registered' = None
      /\ launch' \in [Launchers -> LaunchState]
      /\ \A r \in Runtimes : Held(rt'[r]) = Held(rt[r])
  BY <1>1, StopOnlyKeeps
<1>3. TypeOK' /\ HandlersAimed' /\ UnsentIsNowhere'
  BY <1>1, <1>2 DEF TypeOK, HandlersAimed, UnsentIsNowhere
<1> QED BY <1>2, <1>3 DEF IInv

LEMMA ClearKeeps ==
  ASSUME IInv, Clear
  PROVE  IInv'
<1>1. /\ resend' = <<>> /\ told' = told \union ToSet(resend)
      /\ UNCHANGED <<dispatches, turn, restarts, handler>>
      /\ TypeOK /\ HandlersAimed /\ UnsentIsNowhere
  BY DEF IInv, Clear
<1>2. resend' \in Seq(Commands) /\ ToSet(resend') = {} /\ told' \in SUBSET Commands
  BY <1>1, ToSetEmpty, LenProperties DEF TypeOK, ToSet
<1>3. HandlersAimed'
  BY <1>1 DEF HandlersAimed
<1>4. CASE launch["relaunch"].stage = "idle"
  <2>1. "relaunch" \in Launchers /\ TRUE \in BOOLEAN /\ StopAndLaunch("relaunch", rt, TRUE)
    BY <1>4 DEF Launchers, Clear
  <2>2. /\ VictimsEnding' /\ VictimsApart' /\ MapHoldsLive'
        /\ IdleMeansDrained' /\ NotWedged' /\ WaitsInOnePlace' /\ DispatchesCarry'
        /\ rt' \in [Runtimes -> RuntimeState] /\ registered' = None
        /\ launch' \in [Launchers -> LaunchState]
        /\ \A r \in Runtimes : Held(rt'[r]) = Held(rt[r])
    BY <1>1, <1>4, <2>1, StopOnlyKeeps
  <2>3. TypeOK' /\ UnsentIsNowhere'
    BY <1>1, <1>2, <2>2 DEF TypeOK, UnsentIsNowhere
  <2> QED BY <1>3, <2>2, <2>3 DEF IInv
<1>5. CASE launch["relaunch"].stage # "idle"
  <2>1. UNCHANGED <<rt, registered, launch>>
    BY <1>5 DEF Clear
  <2>2. TypeOK' /\ UnsentIsNowhere' /\ WaitsInOnePlace'
    BY <1>1, <1>2, <2>1 DEF TypeOK, UnsentIsNowhere, WaitsInOnePlace
  <2> QED
    BY <1>1, <1>3, <2>1, <2>2 DEF IInv, DispatchesCarry, VictimsEnding, VictimsApart,
       MapHoldsLive, IdleMeansDrained, NotWedged
<1> QED BY <1>4, <1>5

LEMMA StopMessageKeeps ==
  ASSUME IInv, Stop
  PROVE  IInv'
<1>1. /\ resend' = <<>> /\ told' = told \union ToSet(resend)
      /\ UNCHANGED <<rt, registered, dispatches, turn, launch, restarts, handler>>
      /\ TypeOK /\ UnsentIsNowhere
  BY DEF IInv, Stop
<1>2. resend' \in Seq(Commands) /\ ToSet(resend') = {} /\ told' \in SUBSET Commands
  BY <1>1, ToSetEmpty, LenProperties DEF TypeOK, ToSet
<1>3. TypeOK' /\ UnsentIsNowhere' /\ WaitsInOnePlace'
  BY <1>1, <1>2 DEF TypeOK, UnsentIsNowhere, WaitsInOnePlace
<1> QED
  BY <1>1, <1>3 DEF IInv, HandlersAimed, DispatchesCarry, VictimsEnding, VictimsApart,
     MapHoldsLive, IdleMeansDrained, NotWedged

LEMMA WindowPassesKeeps ==
  ASSUME IInv, WindowPasses \/ UNCHANGED vars
  PROVE  IInv'
<1>1. /\ UNCHANGED <<rt, registered, dispatches, turn, resend, launch, handler, told>>
      /\ restarts' \in {restarts, 0}
  BY DEF WindowPasses, vars
<1>2. TypeOK'
  BY <1>1 DEF IInv, TypeOK
<1> QED
  BY <1>1, <1>2 DEF IInv, HandlersAimed, DispatchesCarry, VictimsEnding, VictimsApart,
     MapHoldsLive, IdleMeansDrained, NotWedged, UnsentIsNowhere, WaitsInOnePlace, WithRegistered

-----------------------------------------------------------------------------
(* The invariant holds in every behaviour.                                  *)

LEMMA InitEstablishes == Init => IInv
<1> SUFFICES ASSUME Init PROVE IInv
  OBVIOUS
<1>1. /\ Blank("unborn") \in RuntimeState /\ Blank("unborn").life = "unborn"
      /\ Held(Blank("unborn")) = {}
  BY BlankFacts
<1>2. <<>> \in Seq(Commands) /\ ToSet(<<>>) = {}
  BY ToSetEmpty
<1>3. \A r \in Runtimes : rt[r] = Blank("unborn")
  BY DEF Init
<1>4. \A l \in Launchers : launch[l] \in LaunchState /\ launch[l].stage # "stopping"
  BY DEF Init, NoLaunch, LaunchState, Launchers
<1>5. \A c \in Commands : handler[c] \in HandlerState /\ handler[c].phase = "new"
  BY DEF Init, HandlerState
<1>6. TypeOK
  BY <1>1, <1>2, <1>4, <1>5 DEF Init, TypeOK
<1>7. HandlersAimed /\ DispatchesCarry /\ VictimsEnding /\ VictimsApart
  BY <1>4, <1>5 DEF Init, HandlersAimed, DispatchesCarry, VictimsEnding, VictimsApart
<1>8. MapHoldsLive /\ IdleMeansDrained /\ NotWedged
  BY <1>1, <1>3 DEF Init, MapHoldsLive, IdleMeansDrained, NotWedged
<1>9. UnsentIsNowhere /\ WaitsInOnePlace
  BY <1>1, <1>2, <1>3 DEF Init, UnsentIsNowhere, WaitsInOnePlace
<1> QED BY <1>6, <1>7, <1>8, <1>9 DEF IInv

LEMMA NextKeeps == IInv /\ [Next]_vars => IInv'
<1> SUFFICES ASSUME IInv, [Next]_vars PROVE IInv'
  OBVIOUS
<1>1. CASE \E c \in Commands :
             Receive(c) \/ QueueAndResume(c) \/ AwaitMutex(c) \/ SendToRuntime(c)
  BY <1>1, ReceiveKeeps, QueueAndResumeKeeps, AwaitMutexKeeps, SendToRuntimeKeeps
<1>2. CASE \E d \in dispatches :
             ProviderStarts(d) \/ DispatchResolves(d) \/ DispatchRejects(d)
  BY <1>2, ProviderStartsKeeps, DispatchResolvesKeeps, DispatchRejectsKeeps
<1>3. CASE \E r \in Runtimes :
             \/ ProviderDelta(r) \/ ProviderComplete(r)
             \/ ProviderRecoverableError(r) \/ ProviderFatalError(r)
             \/ \E i \in DOMAIN rt[r].pending : Undo(r, i)
  BY <1>3, ProviderDeltaKeeps, ProviderCompleteKeeps, ProviderRecoverableErrorKeeps,
     ProviderFatalErrorKeeps, UndoKeeps
<1>4. CASE \E l \in Launchers :
             KillReturns(l) \/ KillThrows(l) \/ LaunchSucceeds(l) \/ LaunchFails(l)
  BY <1>4, KillReturnsKeeps, KillThrowsKeeps, LaunchSucceedsKeeps, LaunchFailsKeeps
<1>5. CASE RestoreStarts \/ Restart \/ Clear \/ Stop \/ WindowPasses \/ UNCHANGED vars
  BY <1>5, RestoreStartsKeeps, RestartKeeps, ClearKeeps, StopMessageKeeps, WindowPassesKeeps
<1> QED BY <1>1, <1>2, <1>3, <1>4, <1>5 DEF Next

LEMMA Invariance == Spec => []IInv
BY InitEstablishes, NextKeeps, PTL DEF Spec

(* Type correctness of the session.                                         *)
THEOREM TypeCorrect == Spec => []TypeOK
<1>1. IInv => TypeOK
  BY DEF IInv
<1> QED BY <1>1, Invariance, PTL

(* A runtime in service that reports idle has no turn and no queue.         *)
THEOREM IdleIsDrained == Spec => []IdleMeansDrained
<1>1. IInv => IdleMeansDrained
  BY DEF IInv
<1> QED BY <1>1, Invariance, PTL

(* A busy runtime in service has something that can end its turn.           *)
THEOREM NeverWedged == Spec => []NotWedged
<1>1. IInv => NotWedged
  BY DEF IInv
<1> QED BY <1>1, Invariance, PTL

(* The runtime map holds only runtimes in service.                          *)
THEOREM RoutesToLive == Spec => []MapHoldsLive
<1>1. IInv => MapHoldsLive
  BY DEF IInv
<1> QED BY <1>1, Invariance, PTL

(* A message waiting for resend is not with the registered runtime too.     *)
THEOREM WaitsOnce == Spec => []WaitsInOnePlace
<1>1. IInv => WaitsInOnePlace
  BY DEF IInv
<1> QED BY <1>1, Invariance, PTL

-----------------------------------------------------------------------------
(* What leaves the resend queue.                                            *)

HandsOver ==
  \A c \in ToSet(resend) \ ToSet(resend') :
    \/ c \in told'
    \/ WithRegistered(c)'
    \/ restarts' > restarts /\ Len(resend') = ResendCap

(* A failed turn takes from the resend queue only by filling it.            *)
LEMMA FailTurnHandsOver ==
  ASSUME IInv, NEW r \in Runtimes, NEW entries \in Seq(Commands), FailTurn(r, entries)
  PROVE  HandsOver
<1>1. resend \in Seq(Commands) /\ restarts \in Nat
  BY DEF IInv, TypeOK
<1>2. CASE restarts' = restarts + 1 /\ resend' \in Requeued(resend, entries)
  <2>1. ToSet(resend) \subseteq ToSet(resend') \/ Len(resend') = ResendCap
    BY <1>1, <1>2, RequeuedFacts
  <2> QED BY <1>1, <1>2, <2>1 DEF HandsOver
<1>3. CASE UNCHANGED resend
  BY <1>3 DEF HandsOver
<1> QED BY <1>2, <1>3 DEF FailTurn

LEMMA LaunchHandsOver ==
  ASSUME IInv, NEW l \in Launchers, LaunchSucceeds(l)
  PROVE  HandsOver
<1>1. PICK n \in Runtimes, expired \in 0..Len(resend) :
        LET fit == SubSeq(resend, expired + 1, Len(resend)) IN
        /\ rt' = [rt EXCEPT ![n] =
                    IF fit = <<>> THEN Blank("live")
                    ELSE [BeginTurn(Blank("live"), <<Head(fit)>>) EXCEPT !.pending = Tail(fit)]]
        /\ told' = told \union ToSet(SubSeq(resend, 1, expired))
        /\ registered' = n
  BY DEF LaunchSucceeds
<1> DEFINE fit == SubSeq(resend, expired + 1, Len(resend))
           b == BeginTurn(Blank("live"), <<Head(fit)>>)
<1>2. resend \in Seq(Commands) /\ rt \in [Runtimes -> RuntimeState]
  BY DEF IInv, TypeOK
<1>3. /\ ToSet(resend) = ToSet(SubSeq(resend, 1, expired)) \union ToSet(fit)
      /\ fit \in Seq(Commands)
  BY <1>2, ToSetSplit, ToSetSubSeq, LenProperties
<1>4. n # None
  BY SessionAssumption
<1>5. CASE fit = <<>>
  BY <1>1, <1>3, <1>5, ToSetEmpty DEF HandsOver
<1>6. CASE fit # <<>>
  <2> HIDE DEF fit
  <2>1. /\ Head(fit) \in Commands /\ Tail(fit) \in Seq(Commands)
        /\ ToSet(fit) = {Head(fit)} \union ToSet(Tail(fit))
    BY <1>3, <1>6, ToSetHeadTail
  <2>2. <<Head(fit)>> \in Seq(Commands) /\ ToSet(<<Head(fit)>>) = {Head(fit)}
    BY <2>1, ToSetOne
  <2>3. b \in RuntimeState /\ b.active = <<Head(fit)>>
    BY <2>2, FirstTurnFacts
  <2>4. rt' = [rt EXCEPT ![n] = [b EXCEPT !.pending = Tail(fit)]]
    BY <1>1, <1>6 DEF fit
  <2> HIDE DEF b
  <2>5. rt'[n].active = <<Head(fit)>> /\ rt'[n].pending = Tail(fit)
    BY <1>2, <2>1, <2>3, <2>4 DEF RuntimeState
  <2>6. \A c \in ToSet(fit) : WithRegistered(c)'
    BY <1>1, <1>4, <2>1, <2>2, <2>5 DEF WithRegistered
  <2> QED BY <1>1, <1>3, <2>6 DEF HandsOver
<1> QED BY <1>5, <1>6

LEMMA NextHandsOver == IInv /\ [Next]_vars => HandsOver
<1> SUFFICES ASSUME IInv, [Next]_vars PROVE HandsOver
  OBVIOUS
<1>1. ASSUME UNCHANGED resend PROVE HandsOver
  BY <1>1 DEF HandsOver
<1>2. ASSUME told' = told \union (ToSet(resend) \ ToSet(resend')) PROVE HandsOver
  BY <1>2 DEF HandsOver
<1>3. CASE \E c \in Commands :
             Receive(c) \/ QueueAndResume(c) \/ AwaitMutex(c) \/ SendToRuntime(c)
  BY <1>1, <1>2, <1>3 DEF Receive, QueueAndResume, AwaitMutex, SendToRuntime
<1>4. CASE \E d \in dispatches :
             ProviderStarts(d) \/ DispatchResolves(d) \/ DispatchRejects(d)
  <2> SUFFICES ASSUME NEW d \in dispatches, DispatchRejects(d) PROVE HandsOver
    BY <1>1, <1>4 DEF ProviderStarts, DispatchResolves
  <2>1. d.rt \in Runtimes /\ rt[d.rt].active \in Seq(Commands)
    BY DEF IInv, TypeOK, Dispatch, RuntimeState
  <2> QED BY <1>1, <2>1, FailTurnHandsOver DEF DispatchRejects
<1>5. CASE \E r \in Runtimes :
             \/ ProviderDelta(r) \/ ProviderComplete(r)
             \/ ProviderRecoverableError(r) \/ ProviderFatalError(r)
             \/ \E i \in DOMAIN rt[r].pending : Undo(r, i)
  <2> SUFFICES ASSUME NEW r \in Runtimes, FailTurn(r, <<>>) \/ FailTurn(r, rt[r].active)
               PROVE  HandsOver
    BY <1>1, <1>5 DEF ProviderDelta, ProviderComplete, ProviderRecoverableError,
       ProviderFatalError, Undo
  <2>1. rt[r].active \in Seq(Commands) /\ <<>> \in Seq(Commands)
    BY ToSetEmpty DEF IInv, TypeOK, RuntimeState
  <2> QED BY <2>1, FailTurnHandsOver
<1>6. CASE \E l \in Launchers :
             KillReturns(l) \/ KillThrows(l) \/ LaunchSucceeds(l) \/ LaunchFails(l)
  BY <1>1, <1>6, LaunchHandsOver DEF KillReturns, KillThrows, LaunchFails
<1>7. CASE RestoreStarts \/ Restart \/ Clear \/ Stop \/ WindowPasses \/ UNCHANGED vars
  <2>1. CASE Clear \/ Stop
    <3>1. resend' = <<>> /\ told' = told \union ToSet(resend)
      BY <2>1 DEF Clear, Stop
    <3> QED BY <3>1 DEF HandsOver
  <2> QED BY <1>1, <1>7, <2>1 DEF RestoreStarts, Restart, WindowPasses, vars
<1> QED BY <1>3, <1>4, <1>5, <1>6, <1>7 DEF Next

(* A message leaves the resend queue for the runtime just registered or     *)
(* with the user told, except from a queue that a recovery has filled.      *)
THEOREM ResendIsHandedOver == Spec => ResendHandsOver
<1>1. IInv /\ [Next]_vars =>
        [\A c \in ToSet(resend) \ ToSet(resend') :
           \/ c \in told'
           \/ WithRegistered(c)'
           \/ restarts' > restarts /\ Len(resend') = ResendCap]_vars
  BY NextHandsOver DEF HandsOver
<1> QED BY <1>1, Invariance, PTL DEF Spec, ResendHandsOver

-----------------------------------------------------------------------------
(* The lives of the runtimes, and what one holds on its way through them.   *)

(* A runtime not built yet, or killed, holds nothing and runs no turn.      *)
RestHoldsNothing ==
  \A r \in Runtimes :
    rt[r].life \in {"unborn", "dead"} => rt[r] = Blank(rt[r].life) /\ turn[r] = <<>>

(* No handler and no dispatch refers to a runtime not built yet.            *)
UnbornIsUnknown ==
  \A r \in Runtimes :
    rt[r].life = "unborn" =>
      /\ \A c \in Commands : handler[c].target # r
      /\ \A d \in dispatches : d.rt # r

LifeInv == RestHoldsNothing /\ UnbornIsUnknown

(* What a step may do to runtime r, its life and its turn.                  *)
LifeStep(r) ==
  \/ rt'[r] = rt[r] /\ turn'[r] = turn[r]
  \/ rt[r].life = "unborn" /\ rt'[r].life = "live"
  \/ rt[r].life \in {"live", "ending"} /\ rt'[r].life \in {rt[r].life, "ending"}
  \/ rt[r].life = "ending" /\ rt'[r] = Blank("dead") /\ turn'[r] = <<>>

(* A message queued behind r's turn stays with r or the user is told, until *)
(* a kill of r wipes it.                                                    *)
WipedBy(l, r) == KillReturns(l) /\ launch[l].victim = r
QueueStep(r) ==
  \A c \in ToSet(rt[r].pending) :
    \/ c \in Held(rt'[r])
    \/ c \in told'
    \/ \E l \in Launchers : WipedBy(l, r)

RuntimesStep == \A r \in Runtimes : LifeStep(r) /\ QueueStep(r)

(* Handlers aim at what the map held, dispatches are of known runtimes.     *)
AimsStep ==
  /\ \A c \in Commands :
       handler'[c].target \in {handler[c].target, None, registered, registered'}
  /\ \A d \in dispatches' :
       (\E e \in dispatches : e.rt = d.rt) \/ rt'[d.rt].life # "unborn"

LEMMA SteadyRuntimes ==
  ASSUME UNCHANGED <<rt, turn>>
  PROVE  RuntimesStep
BY DEF RuntimesStep, LifeStep, QueueStep, Held

LEMMA SteadyAims ==
  ASSUME UNCHANGED handler, dispatches' \subseteq dispatches
  PROVE  AimsStep
BY DEF AimsStep

(* A stop leaves every runtime as the caller made it, but for the life of   *)
(* the one that was in the map.                                             *)
LEMMA StopShape ==
  ASSUME TypeOK, NEW l \in Launchers, NEW f \in [Runtimes -> RuntimeState],
         NEW fresh \in BOOLEAN, StopAndLaunch(l, f, fresh)
  PROVE  \A r \in Runtimes :
           /\ r # registered => rt'[r] = f[r]
           /\ Held(rt'[r]) = Held(f[r])
           /\ r = registered => rt'[r].life = "ending"
<1>1. \A r \in Runtimes : Held(rt'[r]) = Held(f[r]) /\ (r = registered => rt'[r].life = "ending")
  BY StopFacts DEF Held
<1>2. CASE registered = None
  BY <1>1, <1>2 DEF StopAndLaunch
<1>3. CASE registered # None
  <2>1. rt' = [f EXCEPT ![registered].life = "ending"]
    BY <1>3 DEF StopAndLaunch
  <2>2. \A r \in Runtimes : r # registered => rt'[r] = f[r]
    BY <2>1
  <2> QED BY <1>1, <2>2
<1> QED BY <1>2, <1>3

(* What the map holds is in service, so a stop may end it.                  *)
LEMMA StopRuntimes ==
  ASSUME TypeOK, MapHoldsLive, NEW l \in Launchers, NEW fresh \in BOOLEAN,
         StopAndLaunch(l, rt, fresh), turn' = turn
  PROVE  RuntimesStep
<1>1. rt \in [Runtimes -> RuntimeState]
  BY DEF TypeOK
<1>2. ASSUME NEW r \in Runtimes PROVE LifeStep(r) /\ QueueStep(r)
  <2>1. /\ r # registered => rt'[r] = rt[r]
        /\ Held(rt'[r]) = Held(rt[r])
        /\ r = registered => rt'[r].life = "ending"
    BY <1>1, StopShape
  <2>2. r = registered => rt[r].life = "live"
    BY SessionAssumption DEF MapHoldsLive
  <2> QED BY <2>1, <2>2 DEF LifeStep, QueueStep, Held
<1> QED BY <1>2 DEF RuntimesStep

LEMMA FailTurnRuntimes ==
  ASSUME TypeOK, MapHoldsLive, NEW r \in Runtimes, NEW entries \in Seq(Commands),
         rt[r].life \in {"live", "ending"}, FailTurn(r, entries),
         \A q \in Runtimes \ {r} : turn'[q] = turn[q]
  PROVE  RuntimesStep
<1> DEFINE failed == [rt EXCEPT ![r].sending = FALSE, ![r].status = "error",
                               ![r].active = entries]
<1>1. /\ failed \in [Runtimes -> RuntimeState]
      /\ \A q \in Runtimes \ {r} : failed[q] = rt[q]
      /\ failed[r].life = rt[r].life /\ failed[r].pending = rt[r].pending
  <2>1. rt \in [Runtimes -> RuntimeState] /\ rt[r] \in RuntimeState
    BY DEF TypeOK
  <2> DEFINE x == [[[rt[r] EXCEPT !.sending = FALSE] EXCEPT !.status = "error"]
                      EXCEPT !.active = entries]
  <2>2. failed = [rt EXCEPT ![r] = x]
    BY <2>1
  <2>3. x \in RuntimeState /\ x.life = rt[r].life /\ x.pending = rt[r].pending
    BY <2>1 DEF RuntimeState
  <2> HIDE DEF x, failed
  <2> QED BY <2>1, <2>2, <2>3
<1>2. \/ rt' = failed
      \/ StopAndLaunch("recovery", failed, FALSE)
  BY DEF FailTurn
<1> HIDE DEF failed
<1>3. ASSUME NEW q \in Runtimes PROVE LifeStep(q) /\ QueueStep(q)
  <2>1. \/ rt'[q] = failed[q]
        \/ /\ q = registered /\ rt'[q].life = "ending"
           /\ Held(rt'[q]) = Held(failed[q])
    <3>1. "recovery" \in Launchers /\ FALSE \in BOOLEAN
      BY DEF Launchers
    <3> QED BY <1>1, <1>2, <3>1, StopShape
  <2>2. q = registered => rt[q].life = "live"
    BY SessionAssumption DEF MapHoldsLive
  <2>3. ToSet(rt[q].pending) \subseteq Held(failed[q])
    BY <1>1 DEF Held
  <2>4. QueueStep(q)
    BY <2>1, <2>3 DEF QueueStep
  <2>5. LifeStep(q)
    <3>1. CASE q = r
      BY <1>1, <2>1, <3>1 DEF LifeStep
    <3>2. CASE q # r
      BY <1>1, <2>1, <2>2, <3>2 DEF LifeStep
    <3> QED BY <3>1, <3>2
  <2> QED BY <2>4, <2>5
<1> QED BY <1>3 DEF RuntimesStep

(* One runtime moves, within its service, and keeps its queue.              *)
LEMMA OneRuntimeMoves ==
  ASSUME TypeOK, NEW r \in Runtimes, NEW x \in RuntimeState,
         rt[r].life \in {"live", "ending"}, x.life = rt[r].life,
         rt' = [rt EXCEPT ![r] = x],
         ToSet(rt[r].pending) \subseteq Held(x) \union told',
         \A q \in Runtimes \ {r} : turn'[q] = turn[q]
  PROVE  RuntimesStep
<1>1. rt'[r] = x /\ \A q \in Runtimes \ {r} : rt'[q] = rt[q]
  BY DEF TypeOK
<1>2. LifeStep(r) /\ QueueStep(r)
  BY <1>1 DEF LifeStep, QueueStep
<1>3. \A q \in Runtimes \ {r} : LifeStep(q) /\ QueueStep(q)
  BY <1>1 DEF LifeStep, QueueStep, Held
<1> QED BY <1>2, <1>3 DEF RuntimesStep
LEMMA SendKeepsQueue ==
  ASSUME NEW x \in RuntimeState, NEW c \in Commands
  PROVE  /\ Send(x, c) \in RuntimeState /\ Send(x, c).life = x.life
         /\ ToSet(x.pending) \subseteq Held(Send(x, c))
<1>1. Send(x, c) \in RuntimeState /\ Send(x, c).life = x.life
  BY SendFacts
<1>2. CASE x.sending
  <2>1. ToSet(Append(x.pending, c)) = ToSet(x.pending) \union {c}
    BY ToSetAppend DEF RuntimeState
  <2> QED BY <1>1, <1>2, <2>1 DEF Send, RuntimeState, Held
<1>3. CASE ~x.sending
  <2>1. <<c>> \in Seq(Commands)
    BY ToSetOne
  <2>2. Send(x, c).pending = x.pending
    BY <1>3, <2>1, BeginTurnFacts DEF Send
  <2> QED BY <1>1, <2>2 DEF Held
<1> QED BY <1>2, <1>3

LEMMA DrainedKeepsQueue ==
  ASSUME NEW x \in RuntimeState
  PROVE  /\ Drained(x) \in RuntimeState /\ Drained(x).life = x.life
         /\ ToSet(x.pending) \subseteq Held(Drained(x))
<1>1. Drained(x) \in RuntimeState /\ Drained(x).life = x.life
  BY DrainedFacts
<1>2. CASE x.pending = <<>>
  BY <1>1, <1>2, ToSetEmpty
<1>3. CASE x.pending # <<>>
  <2> DEFINE b == BeginTurn(x, x.pending)
  <2>1. b \in RuntimeState /\ b.active = x.pending
    BY BeginTurnFacts DEF RuntimeState
  <2>2. Drained(x) = [b EXCEPT !.pending = <<>>]
    BY <1>3 DEF Drained
  <2> HIDE DEF b
  <2>3. Drained(x).active = x.pending
    BY <2>1, <2>2 DEF RuntimeState
  <2> QED BY <1>1, <2>3 DEF Held
<1> QED BY <1>2, <1>3

LEMMA PrefixFacts ==
  ASSUME NEW S, NEW s \in Seq(S), NEW n \in 0..Len(s)
  PROVE  /\ DOMAIN SubSeq(s, 1, n) = 1..n
         /\ \A k \in 1..n : SubSeq(s, 1, n)[k] = s[k]
<1>1. Len(s) \in Nat /\ n \in Nat /\ \A k \in 1..n : s[k] \in S
  BY LenProperties
<1>2. /\ SubSeq(s, 1, n) \in Seq(S)
      /\ Len(SubSeq(s, 1, n)) = IF 1 <= n THEN n - 1 + 1 ELSE 0
      /\ \A k \in 1..(n - 1 + 1) : SubSeq(s, 1, n)[k] = s[1 + k - 1]
  BY <1>1, SubSeqProperties
<1>3. Len(SubSeq(s, 1, n)) = n
  BY <1>1, <1>2
<1>4. ASSUME NEW k \in 1..n PROVE SubSeq(s, 1, n)[k] = s[k]
  <2>1. k \in 1..(n - 1 + 1) /\ 1 + k - 1 = k
    BY <1>1
  <2> QED BY <1>2, <2>1
<1>5. DOMAIN SubSeq(s, 1, n) = 1..n
  BY <1>2, <1>3, LenProperties
<1> QED BY <1>4, <1>5

(* Withdrawing entry i leaves every other message queued.                   *)
LEMMA RemoveAtLosesOne ==
  ASSUME NEW S, NEW s \in Seq(S), NEW i \in DOMAIN s
  PROVE  ToSet(s) \subseteq ToSet(RemoveAt(s, i)) \union {s[i]}
<1>1. i \in 1..Len(s) /\ Len(s) \in Nat /\ i - 1 \in 0..Len(s) /\ i \in 0..Len(s)
  BY LenProperties
<1>2. /\ SubSeq(s, 1, i - 1) \in Seq(S) /\ SubSeq(s, i + 1, Len(s)) \in Seq(S)
      /\ ToSet(s) = ToSet(SubSeq(s, 1, i)) \union ToSet(SubSeq(s, i + 1, Len(s)))
  BY <1>1, ToSetSubSeq, ToSetSplit
<1> DEFINE a == SubSeq(s, 1, i - 1)
           b == SubSeq(s, 1, i)
           c == SubSeq(s, i + 1, Len(s))
<1>3. /\ DOMAIN b = 1..i /\ \A k \in 1..i : b[k] = s[k]
      /\ DOMAIN a = 1..(i - 1) /\ \A k \in 1..(i - 1) : a[k] = s[k]
  BY <1>1, PrefixFacts
<1>4. RemoveAt(s, i) = a \o c
  BY DEF RemoveAt
<1>5. a \in Seq(S) /\ c \in Seq(S) /\ ToSet(s) = ToSet(b) \union ToSet(c)
  BY <1>2
<1> HIDE DEF a, b, c
<1>6. ToSet(a \o c) = ToSet(a) \union ToSet(c)
  BY <1>5, ToSetConcat
<1>7. ASSUME NEW k \in 1..i PROVE b[k] \in ToSet(a) \union {s[i]}
  <2>1. CASE k = i
    BY <1>3, <2>1
  <2>2. CASE k # i
    <3>1. k \in 1..(i - 1)
      BY <1>1, <2>2
    <3> QED BY <1>3, <3>1 DEF ToSet
  <2> QED BY <2>1, <2>2
<1>8. ToSet(b) \subseteq ToSet(a) \union {s[i]}
  BY <1>3, <1>7 DEF ToSet
<1> QED BY <1>4, <1>5, <1>6, <1>8

LEMMA SendStep ==
  ASSUME IInv, LifeInv, NEW c \in Commands,
         Receive(c) \/ QueueAndResume(c) \/ AwaitMutex(c) \/ SendToRuntime(c)
  PROVE  RuntimesStep /\ AimsStep
<1>1. TypeOK /\ MapHoldsLive /\ HandlersAimed
  BY DEF IInv
<1>2. handler \in [Commands -> HandlerState] /\ rt \in [Runtimes -> RuntimeState]
  BY <1>1 DEF TypeOK
<1>3. CASE Receive(c)
  <2> DEFINE t == IF launch["relaunch"].stage = "idle"
                  THEN [phase |-> "captured", target |-> registered]
                  ELSE [phase |-> "waiting", target |-> None]
  <2>1. t.target \in {None, registered}
    OBVIOUS
  <2> HIDE DEF t
  <2>2. handler' = [handler EXCEPT ![c] = t]
    BY <1>3 DEF Receive, t
  <2>3. \A d \in Commands : handler'[d].target \in {handler[d].target, None, registered}
    BY <1>2, <2>1, <2>2
  <2> QED BY <1>3, <2>3, SteadyRuntimes DEF Receive, AimsStep
<1>4. ASSUME NEW p \in {"admitted", "done"}, handler' = [handler EXCEPT ![c].phase = p]
      PROVE  \A d \in Commands : handler'[d].target = handler[d].target
  <2> DEFINE h == [handler[c] EXCEPT !.phase = p]
  <2>1. h.target = handler[c].target
    BY <1>2 DEF HandlerState
  <2>2. handler' = [handler EXCEPT ![c] = h]
    BY <1>2, <1>4
  <2> HIDE DEF h
  <2> QED BY <1>2, <2>1, <2>2
<1>5. CASE QueueAndResume(c)
  <2>1. AimsStep
    BY <1>4, <1>5 DEF QueueAndResume, AimsStep
  <2>2. "relaunch" \in Launchers /\ FALSE \in BOOLEAN
    BY DEF Launchers
  <2>3. turn' = turn /\ (UNCHANGED rt \/ StopAndLaunch("relaunch", rt, FALSE))
    BY <1>5 DEF QueueAndResume
  <2> QED BY <1>1, <2>1, <2>2, <2>3, SteadyRuntimes, StopRuntimes
<1>6. CASE AwaitMutex(c)
  BY <1>4, <1>6, SteadyRuntimes DEF AwaitMutex, AimsStep
<1>7. CASE SendToRuntime(c)
  <2> DEFINE r == handler[c].target
  <2>1. r \in Runtimes /\ rt[r] \in RuntimeState /\ rt[r].life # "unborn"
    BY <1>1, <1>2, <1>7 DEF SendToRuntime, HandlersAimed, LifeInv, UnbornIsUnknown
  <2>2. \A d \in Commands : handler'[d].target = handler[d].target
    BY <1>4, <1>7 DEF SendToRuntime
  <2>3. turn' = turn
    BY <1>7 DEF SendToRuntime
  <2>4. CASE rt[r].life = "dead"
    BY <1>7, <2>2, <2>3, <2>4, SteadyRuntimes DEF SendToRuntime, AimsStep
  <2>5. CASE rt[r].life # "dead"
    <3>1. rt[r].life \in {"live", "ending"}
      BY <2>1, <2>5 DEF RuntimeState
    <3>2. /\ rt' = [rt EXCEPT ![r] = Send(rt[r], c)]
          /\ dispatches' \subseteq dispatches \union {Begun(r, <<c>>)}
      BY <1>7, <2>5 DEF SendToRuntime
    <3>3. /\ Send(rt[r], c) \in RuntimeState /\ Send(rt[r], c).life = rt[r].life
          /\ ToSet(rt[r].pending) \subseteq Held(Send(rt[r], c))
      BY <2>1, SendKeepsQueue
    <3>4. RuntimesStep
      BY <1>1, <2>1, <2>3, <3>1, <3>2, <3>3, OneRuntimeMoves
    <3>5. rt'[r].life # "unborn" /\ Begun(r, <<c>>).rt = r
      BY <1>2, <2>1, <3>1, <3>2, <3>3 DEF Begun
    <3> QED BY <2>2, <3>2, <3>4, <3>5 DEF AimsStep
  <2> QED BY <2>4, <2>5
<1> QED BY <1>3, <1>5, <1>6, <1>7

LEMMA DispatchStep ==
  ASSUME IInv, LifeInv, NEW d \in dispatches,
         ProviderStarts(d) \/ DispatchResolves(d) \/ DispatchRejects(d)
  PROVE  RuntimesStep /\ AimsStep
<1>1. TypeOK /\ MapHoldsLive
  BY DEF IInv
<1>2. /\ d \in Dispatch /\ d.rt \in Runtimes /\ rt[d.rt] \in RuntimeState
      /\ rt[d.rt].active \in Seq(Commands) /\ turn \in [Runtimes -> Seq(Commands)]
  BY <1>1 DEF TypeOK, Dispatch, RuntimeState
<1>3. CASE ProviderStarts(d)
  <2>1. RuntimesStep
    <3>1. /\ rt' = rt /\ rt[d.rt].life \in {"live", "ending"}
          /\ \A q \in Runtimes \ {d.rt} : turn'[q] = turn[q]
      BY <1>2, <1>3 DEF ProviderStarts
    <3>2. \A q \in Runtimes : LifeStep(q) /\ QueueStep(q)
      BY <3>1 DEF LifeStep, QueueStep, Held
    <3> QED BY <3>2 DEF RuntimesStep
  <2>2. [d EXCEPT !.stage = "started"].rt = d.rt
    BY <1>2 DEF Dispatch
  <2> QED BY <1>3, <2>1, <2>2 DEF ProviderStarts, AimsStep
<1>4. CASE DispatchResolves(d)
  BY <1>4, SteadyRuntimes, SteadyAims DEF DispatchResolves
<1>5. CASE DispatchRejects(d)
  <2>1. AimsStep
    BY <1>5, SteadyAims DEF DispatchRejects
  <2>2. CASE rt[d.rt].sending
    <3>1. rt[d.rt].life \notin {"unborn", "dead"}
      BY <1>2, <2>2, BlankFacts DEF LifeInv, RestHoldsNothing
    <3>2. rt[d.rt].life \in {"live", "ending"}
      BY <1>2, <3>1 DEF RuntimeState
    <3>3. FailTurn(d.rt, rt[d.rt].active) /\ turn' = turn
      BY <1>5, <2>2 DEF DispatchRejects
    <3> QED BY <1>1, <1>2, <2>1, <3>2, <3>3, FailTurnRuntimes
  <2>3. CASE ~rt[d.rt].sending
    BY <1>5, <2>1, <2>3, SteadyRuntimes DEF DispatchRejects
  <2> QED BY <2>2, <2>3
<1> QED BY <1>3, <1>4, <1>5

LEMMA DrainAims ==
  ASSUME IInv, NEW r \in Runtimes, rt[r].life = "live", rt'[r].life = "live",
         UNCHANGED handler, dispatches' = dispatches \union DrainDispatch(r)
  PROVE  AimsStep
<1>1. \A d \in DrainDispatch(r) : d.rt = r
  BY DEF DrainDispatch, Begun
<1> QED BY <1>1 DEF AimsStep

LEMMA ProviderStep ==
  ASSUME IInv, LifeInv, NEW r \in Runtimes,
         \/ ProviderDelta(r) \/ ProviderComplete(r)
         \/ ProviderRecoverableError(r) \/ ProviderFatalError(r)
         \/ \E i \in DOMAIN rt[r].pending : Undo(r, i)
  PROVE  RuntimesStep /\ AimsStep
<1>1. TypeOK /\ MapHoldsLive
  BY DEF IInv
<1>2. /\ rt \in [Runtimes -> RuntimeState] /\ rt[r] \in RuntimeState
      /\ turn \in [Runtimes -> Seq(Commands)]
      /\ rt[r].active \in Seq(Commands) /\ rt[r].pending \in Seq(Commands)
      /\ <<>> \in Seq(Commands)
  BY <1>1, ToSetEmpty DEF TypeOK, RuntimeState
<1>3. CASE ProviderDelta(r)
  <2> DEFINE x == [rt[r] EXCEPT !.status = "streaming"]
  <2>1. x \in RuntimeState /\ x.life = rt[r].life /\ x.pending = rt[r].pending
    BY <1>2 DEF RuntimeState
  <2>2. rt' = [rt EXCEPT ![r] = x] /\ turn' = turn /\ rt[r].life = "live"
    BY <1>2, <1>3 DEF ProviderDelta
  <2> HIDE DEF x
  <2>3. RuntimesStep
    BY <1>1, <2>1, <2>2, OneRuntimeMoves DEF Held
  <2> QED BY <1>3, <2>3, SteadyAims DEF ProviderDelta
<1>4. CASE rt[r].life = "live" /\ turn' = [turn EXCEPT ![r] = <<>>] /\ handler' = handler
           /\ rt' = [rt EXCEPT ![r] = Drained(rt[r])]
           /\ dispatches' = dispatches \union DrainDispatch(r)
  <2>1. /\ Drained(rt[r]) \in RuntimeState /\ Drained(rt[r]).life = rt[r].life
        /\ ToSet(rt[r].pending) \subseteq Held(Drained(rt[r]))
    BY <1>2, DrainedKeepsQueue
  <2>2. \A q \in Runtimes \ {r} : turn'[q] = turn[q]
    BY <1>2, <1>4
  <2>3. RuntimesStep
    BY <1>1, <1>4, <2>1, <2>2, OneRuntimeMoves
  <2>4. rt'[r].life = "live"
    BY <1>2, <1>4, <2>1
  <2> QED BY <1>4, <2>3, <2>4, DrainAims
<1>5. ASSUME NEW entries \in Seq(Commands), FailTurn(r, entries), rt[r].life = "live",
             turn' = [turn EXCEPT ![r] = <<>>], UNCHANGED <<dispatches, handler>>
      PROVE  RuntimesStep /\ AimsStep
  <2>1. \A q \in Runtimes \ {r} : turn'[q] = turn[q]
    BY <1>2, <1>5
  <2> QED BY <1>1, <1>5, <2>1, FailTurnRuntimes, SteadyAims
<1>6. CASE ProviderComplete(r)
  BY <1>4, <1>6 DEF ProviderComplete
<1>7. CASE ProviderRecoverableError(r)
  BY <1>2, <1>4, <1>5, <1>7 DEF ProviderRecoverableError
<1>8. CASE ProviderFatalError(r)
  BY <1>2, <1>5, <1>8 DEF ProviderFatalError
<1>9. ASSUME NEW i \in DOMAIN rt[r].pending, Undo(r, i) PROVE RuntimesStep /\ AimsStep
  <2> DEFINE p == RemoveAt(rt[r].pending, i)
             x == [rt[r] EXCEPT !.pending = p]
  <2>1. p \in Seq(Commands) /\ ToSet(rt[r].pending) \subseteq ToSet(p) \union {rt[r].pending[i]}
    BY <1>2, RemoveAtLosesOne, ToSetRemoveAt
  <2>2. x \in RuntimeState /\ x.life = rt[r].life /\ x.pending = p
    <3> HIDE DEF p
    <3> QED BY <1>2, <2>1 DEF RuntimeState
  <2>3. /\ rt' = [rt EXCEPT ![r] = x] /\ turn' = turn
        /\ rt[r].life \in {"live", "ending"} /\ rt[r].pending[i] \in told'
    BY <1>2, <1>9 DEF Undo
  <2> HIDE DEF x, p
  <2>4. ToSet(rt[r].pending) \subseteq Held(x) \union told'
    BY <2>1, <2>2, <2>3 DEF Held
  <2>5. RuntimesStep
    BY <1>1, <2>2, <2>3, <2>4, OneRuntimeMoves
  <2> QED BY <1>9, <2>5, SteadyAims DEF Undo
<1> QED BY <1>3, <1>6, <1>7, <1>8, <1>9
LEMMA ReleasedAims ==
  ASSUME TypeOK, NEW l \in Launchers, NEW r \in Runtimes \union {None},
         handler' = Released(l, r)
  PROVE  \A c \in Commands : handler'[c].target \in {handler[c].target, r}
BY DEF Released

LEMMA KillReturnsStep ==
  ASSUME IInv, NEW l \in Launchers, KillReturns(l)
  PROVE  RuntimesStep /\ AimsStep
<1>1. TypeOK /\ MapHoldsLive
  BY DEF IInv
<1> DEFINE v == launch[l].victim
           wiped == [rt EXCEPT ![v] = Blank("dead")]
<1>2. /\ v \in Runtimes /\ rt[v].life = "ending" /\ v # registered
      /\ rt \in [Runtimes -> RuntimeState] /\ turn \in [Runtimes -> Seq(Commands)]
  BY SessionAssumption DEF IInv, KillReturns, VictimsEnding, MapHoldsLive, TypeOK
<1>3. Blank("dead") \in RuntimeState
  BY BlankFacts
<1>4. /\ wiped \in [Runtimes -> RuntimeState] /\ wiped[v] = Blank("dead")
      /\ \A q \in Runtimes \ {v} : wiped[q] = rt[q]
  BY <1>2, <1>3
<1>5. /\ turn' = [turn EXCEPT ![v] = <<>>] /\ WipedBy(l, v)
      /\ rt' = wiped \/ StopAndLaunch(l, wiped, FALSE)
  BY DEF KillReturns, WipedBy
<1>6. turn'[v] = <<>> /\ \A q \in Runtimes \ {v} : turn'[q] = turn[q]
  BY <1>2, <1>5
<1> HIDE DEF wiped, v
<1>7. ASSUME NEW q \in Runtimes PROVE LifeStep(q) /\ QueueStep(q)
  <2>1. \/ rt'[q] = wiped[q]
        \/ q = registered /\ rt'[q].life = "ending" /\ Held(rt'[q]) = Held(wiped[q])
    <3>1. FALSE \in BOOLEAN
      OBVIOUS
    <3> QED BY <1>1, <1>4, <1>5, <3>1, StopShape
  <2>2. q = registered => rt[q].life = "live"
    BY <1>1, SessionAssumption DEF MapHoldsLive
  <2>3. CASE q = v
    BY <1>2, <1>4, <1>5, <1>6, <2>1, <2>3 DEF LifeStep, QueueStep
  <2>4. CASE q # v
    BY <1>4, <1>6, <2>1, <2>2, <2>4 DEF LifeStep, QueueStep, Held
  <2> QED BY <2>3, <2>4
<1>8. AimsStep
  BY SteadyAims DEF KillReturns
<1> QED BY <1>7, <1>8 DEF RuntimesStep

LEMMA LaunchStep ==
  ASSUME IInv, LifeInv, NEW l \in Launchers, LaunchSucceeds(l)
  PROVE  RuntimesStep /\ AimsStep
<1>1. TypeOK
  BY DEF IInv
<1>2. PICK n \in Runtimes, expired \in 0..Len(resend) :
        LET fit == SubSeq(resend, expired + 1, Len(resend)) IN
        /\ rt[n].life = "unborn"
        /\ rt' = [rt EXCEPT ![n] =
                    IF fit = <<>> THEN Blank("live")
                    ELSE [BeginTurn(Blank("live"), <<Head(fit)>>) EXCEPT !.pending = Tail(fit)]]
        /\ dispatches' = IF fit = <<>> THEN dispatches
                         ELSE dispatches \union {Begun(n, <<Head(fit)>>)}
        /\ registered' = n
        /\ handler' = Released(l, n)
  BY DEF LaunchSucceeds
<1> DEFINE fit == SubSeq(resend, expired + 1, Len(resend))
           b == BeginTurn(Blank("live"), <<Head(fit)>>)
           x == IF fit = <<>> THEN Blank("live") ELSE [b EXCEPT !.pending = Tail(fit)]
<1>3. x.life = "live"
  <2>1. CASE fit = <<>>
    BY <2>1, BlankFacts
  <2>2. CASE fit # <<>>
    <3>1. fit \in Seq(Commands)
      BY <1>1, ToSetSubSeq, LenProperties DEF TypeOK
    <3> HIDE DEF fit
    <3>2. <<Head(fit)>> \in Seq(Commands)
      BY <2>2, <3>1, ToSetHeadTail, ToSetOne
    <3>3. b \in RuntimeState /\ b.life = "live"
      BY <3>2, FirstTurnFacts
    <3> HIDE DEF b
    <3> QED BY <2>2, <3>3 DEF RuntimeState
  <2> QED BY <2>1, <2>2
<1>4. /\ rt' = [rt EXCEPT ![n] = x] /\ turn' = turn /\ rt[n].life = "unborn"
      /\ dispatches' \subseteq dispatches \union {Begun(n, <<Head(fit)>>)}
      /\ Begun(n, <<Head(fit)>>).rt = n
  BY <1>2 DEF LaunchSucceeds, Begun
<1> HIDE DEF x, fit
<1>5. rt'[n] = x /\ \A q \in Runtimes \ {n} : rt'[q] = rt[q]
  BY <1>1, <1>4 DEF TypeOK
<1>6. ToSet(rt[n].pending) = {}
  BY <1>4, BlankFacts, ToSetEmpty DEF LifeInv, RestHoldsNothing
<1>7. LifeStep(n) /\ QueueStep(n)
  BY <1>3, <1>4, <1>5, <1>6 DEF LifeStep, QueueStep
<1>8. \A q \in Runtimes \ {n} : LifeStep(q) /\ QueueStep(q)
  BY <1>4, <1>5 DEF LifeStep, QueueStep, Held
<1>9. \A c \in Commands : handler'[c].target \in {handler[c].target, registered'}
  BY <1>1, <1>2, ReleasedAims
<1>10. AimsStep
  BY <1>3, <1>4, <1>5, <1>9 DEF AimsStep
<1> QED BY <1>7, <1>8, <1>10 DEF RuntimesStep

LEMMA NextStep == IInv /\ LifeInv /\ [Next]_vars => RuntimesStep /\ AimsStep
<1> SUFFICES ASSUME IInv, LifeInv, [Next]_vars PROVE RuntimesStep /\ AimsStep
  OBVIOUS
<1>1. TypeOK /\ MapHoldsLive
  BY DEF IInv
<1>2. CASE \E c \in Commands :
             Receive(c) \/ QueueAndResume(c) \/ AwaitMutex(c) \/ SendToRuntime(c)
  BY <1>2, SendStep
<1>3. CASE \E d \in dispatches :
             ProviderStarts(d) \/ DispatchResolves(d) \/ DispatchRejects(d)
  BY <1>3, DispatchStep
<1>4. CASE \E r \in Runtimes :
             \/ ProviderDelta(r) \/ ProviderComplete(r)
             \/ ProviderRecoverableError(r) \/ ProviderFatalError(r)
             \/ \E i \in DOMAIN rt[r].pending : Undo(r, i)
  BY <1>4, ProviderStep
<1>5. ASSUME NEW l \in Launchers,
             KillReturns(l) \/ KillThrows(l) \/ LaunchSucceeds(l) \/ LaunchFails(l)
      PROVE  RuntimesStep /\ AimsStep
  <2>1. CASE KillReturns(l)
    BY <2>1, KillReturnsStep
  <2>2. CASE LaunchSucceeds(l)
    BY <2>2, LaunchStep
  <2>3. CASE KillThrows(l) \/ LaunchFails(l)
    <3>1. registered \in Runtimes \union {None}
      BY <1>1 DEF TypeOK
    <3>2. /\ UNCHANGED <<rt, turn, dispatches>>
          /\ UNCHANGED handler \/ handler' = Released(l, registered)
      BY <2>3 DEF KillThrows, LaunchFails
    <3>3. \A c \in Commands : handler'[c].target \in {handler[c].target, registered}
      BY <1>1, <3>1, <3>2, ReleasedAims
    <3> QED BY <3>2, <3>3, SteadyRuntimes DEF AimsStep
  <2> QED BY <1>5, <2>1, <2>2, <2>3
<1>6. CASE Restart \/ Clear
  <2>1. "relaunch" \in Launchers /\ TRUE \in BOOLEAN /\ FALSE \in BOOLEAN
    BY DEF Launchers
  <2>2. /\ UNCHANGED <<turn, handler, dispatches>>
        /\ UNCHANGED rt \/ \E fresh \in BOOLEAN : StopAndLaunch("relaunch", rt, fresh)
    BY <1>6, <2>1 DEF Restart, Clear
  <2> QED BY <1>1, <2>1, <2>2, SteadyRuntimes, StopRuntimes, SteadyAims
<1>7. CASE RestoreStarts \/ Stop \/ WindowPasses \/ UNCHANGED vars
  BY <1>7, SteadyRuntimes, SteadyAims DEF RestoreStarts, Stop, WindowPasses, vars
<1> QED BY <1>2, <1>3, <1>4, <1>5, <1>6, <1>7 DEF Next

LEMMA LifeInvInit == Init => LifeInv
<1> SUFFICES ASSUME Init PROVE LifeInv
  OBVIOUS
<1>1. Blank("unborn").life = "unborn"
  BY BlankFacts
<1>2. RestHoldsNothing
  BY <1>1 DEF Init, RestHoldsNothing
<1>3. UnbornIsUnknown
  BY SessionAssumption DEF Init, UnbornIsUnknown
<1> QED BY <1>2, <1>3 DEF LifeInv

LEMMA LifeInvNext == IInv /\ LifeInv /\ [Next]_vars => LifeInv'
<1> SUFFICES ASSUME IInv, LifeInv, [Next]_vars PROVE LifeInv'
  OBVIOUS
<1>1. RuntimesStep /\ AimsStep
  BY NextStep
<1>2. MapHoldsLive /\ MapHoldsLive' /\ TypeOK'
  BY NextKeeps DEF IInv
<1>3. Blank("dead").life = "dead"
  BY BlankFacts
<1>4. RestHoldsNothing'
  <2> SUFFICES ASSUME NEW r \in Runtimes, rt'[r].life \in {"unborn", "dead"}
               PROVE  rt'[r] = Blank(rt'[r].life) /\ turn'[r] = <<>>
    BY DEF RestHoldsNothing
  <2>1. LifeStep(r)
    BY <1>1 DEF RuntimesStep
  <2>2. \/ rt'[r] = rt[r] /\ turn'[r] = turn[r]
        \/ rt'[r] = Blank("dead") /\ turn'[r] = <<>>
    BY <2>1 DEF LifeStep
  <2> QED BY <1>3, <2>2 DEF LifeInv, RestHoldsNothing
<1>5. UnbornIsUnknown'
  <2> SUFFICES ASSUME NEW r \in Runtimes, rt'[r].life = "unborn"
               PROVE  /\ \A c \in Commands : handler'[c].target # r
                      /\ \A d \in dispatches' : d.rt # r
    BY DEF UnbornIsUnknown
  <2>1. rt[r].life = "unborn"
    BY <1>1, <1>3 DEF RuntimesStep, LifeStep
  <2>2. r # None /\ r # registered /\ r # registered'
    BY <1>2, <2>1, SessionAssumption DEF MapHoldsLive
  <2>3. \A c \in Commands : handler[c].target # r
    BY <2>1 DEF LifeInv, UnbornIsUnknown
  <2>4. \A d \in dispatches : d.rt # r
    BY <2>1 DEF LifeInv, UnbornIsUnknown
  <2> QED BY <1>1, <2>2, <2>3, <2>4 DEF AimsStep
<1> QED BY <1>4, <1>5 DEF LifeInv

LEMMA LifeInvariance == Spec => [](IInv /\ LifeInv)
BY LifeInvInit, LifeInvNext, Invariance, PTL DEF Spec

(* A runtime that was killed holds nothing and runs no turn, and stays so:  *)
(* no handler that captured it before an await, no dispatch that settles    *)
(* late, no launch that overlaps the kill puts anything back into it.       *)
THEOREM DeadHoldsNothing == Spec => []RestHoldsNothing
<1>1. LifeInv => RestHoldsNothing
  BY DEF LifeInv
<1> QED BY <1>1, LifeInvariance, PTL

(* A runtime lives once: built, put in service, stopped, killed, in this    *)
(* order; a runtime that was stopped never serves again.                    *)
LivesAreOneWay == [][\A r \in Runtimes : LifeStep(r)]_vars
THEOREM RuntimesLiveOnce == Spec => LivesAreOneWay
<1>1. IInv /\ LifeInv /\ [Next]_vars => [\A r \in Runtimes : LifeStep(r)]_vars
  BY NextStep DEF RuntimesStep
<1> QED BY <1>1, LifeInvariance, PTL DEF Spec, LivesAreOneWay

(* A message queued behind a turn leaves its queue for the next turn of the *)
(* same runtime or with the user told.  There is one other way out: kill()  *)
(* of that runtime, which empties the queue and tells nobody.               *)
PendingIsKept == [][\A r \in Runtimes : QueueStep(r)]_vars
THEOREM OnlyAKillDropsPending == Spec => PendingIsKept
<1>1. IInv /\ LifeInv /\ [Next]_vars => [\A r \in Runtimes : QueueStep(r)]_vars
  BY NextStep DEF RuntimesStep
<1> QED BY <1>1, LifeInvariance, PTL DEF Spec, PendingIsKept
=============================================================================
