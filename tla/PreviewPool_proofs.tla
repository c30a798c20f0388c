------------------------- MODULE PreviewPool_proofs -------------------------
(***************************************************************************)
(* Proofs about PreviewPool, for any jobs, workers and bounds.                *)
(***************************************************************************)
EXTENDS PreviewPool, FiniteSetTheorems, TLAPS

-----------------------------------------------------------------------------
(* The inductive invariant.                                                  *)

Fates == {"new"} \union Open \union Outcomes

(* What the fields of a slot say of one another.                              *)
Sound(r) ==
  /\ r.timer => ~r.thread /\ r.term = "no"
  /\ r.thread => r.term = "no"
  /\ r.job # NoJob => r.thread
  /\ r.term # "no" => r.stopping
  /\ r.state = "idle" => r.thread /\ r.job = NoJob
  /\ r.state = "busy" => r.job # NoJob

(* A slot from which something will come that lets the queue move.            *)
Promising(r) ==
  \/ r.state = "idle"
  \/ r.state = "busy" /\ r.job # NoJob
  \/ r.timer
  \/ r.term \in {"recycle", "timeout"}

SlotOK(s) ==
  /\ Sound(slot[s])
  /\ s[1] > starts => slot[s] = Unused
  /\ slot[s].job # NoJob => s \in Current /\ ~closing

Hope == queue # <<>> => \E s \in Current : Promising(slot[s])
Pumped == ~pumping /\ queue # <<>> => Free = {}
InService == queue # <<>> => started /\ ~closing

IInv ==
  /\ TypeOK
  /\ \A s \in Slots : SlotOK(s)
  /\ InService /\ Hope /\ Pumped
  /\ JobsHeldOnce
  /\ AnswersAreOwn

-----------------------------------------------------------------------------
(* Queues.                                                                   *)

Distinct(q) == \A i, k \in DOMAIN q : q[i] = q[k] => i = k

LEMMA QueuedTail ==
  ASSUME NEW q \in Seq(Jobs), q # <<>>, Distinct(q)
  PROVE  /\ Head(q) \in Jobs /\ Tail(q) \in Seq(Jobs) /\ Len(Tail(q)) = Len(q) - 1
         /\ Queued(q) = Queued(Tail(q)) \union {Head(q)}
         /\ Head(q) \notin Queued(Tail(q))
         /\ Distinct(Tail(q))
<1>1. /\ Head(q) = q[1] /\ Head(q) \in Jobs /\ Len(q) \in Nat /\ Len(q) >= 1
      /\ DOMAIN q = 1..Len(q) /\ Tail(q) \in Seq(Jobs)
      /\ Len(Tail(q)) = Len(q) - 1
      /\ DOMAIN Tail(q) = 1..(Len(q) - 1)
      /\ \A i \in 1..(Len(q) - 1) : Tail(q)[i] = q[i + 1]
  OBVIOUS
<1>2. \A j : j \in Queued(q) <=> \E i \in 1..Len(q) : q[i] = j
  BY <1>1 DEF Queued
<1>3. \A j : j \in Queued(Tail(q)) <=> \E i \in 1..(Len(q) - 1) : q[i + 1] = j
  BY <1>1 DEF Queued
<1>4. ASSUME NEW j
      PROVE  j \in Queued(q) <=> j \in Queued(Tail(q)) \/ j = Head(q)
  <2>1. ASSUME NEW i \in 1..Len(q), q[i] = j, i # 1
        PROVE  j \in Queued(Tail(q))
    <3>1. i - 1 \in 1..(Len(q) - 1) /\ (i - 1) + 1 = i
      BY <1>1, <2>1
    <3> QED BY <1>3, <2>1, <3>1
  <2>2. ASSUME NEW i \in 1..(Len(q) - 1), q[i + 1] = j
        PROVE  j \in Queued(q)
    <3>1. i + 1 \in 1..Len(q)
      BY <1>1
    <3> QED BY <1>2, <2>2, <3>1
  <2>3. Head(q) \in Queued(q)
    <3>1. 1 \in 1..Len(q)
      BY <1>1
    <3> QED BY <1>1, <1>2, <3>1
  <2> QED BY <1>1, <1>2, <1>3, <2>1, <2>2, <2>3
<1>5. Head(q) \notin Queued(Tail(q))
  <2> SUFFICES ASSUME NEW i \in 1..(Len(q) - 1), q[i + 1] = q[1] PROVE FALSE
    BY <1>1, <1>3
  <2>1. i + 1 \in DOMAIN q /\ 1 \in DOMAIN q /\ i + 1 # 1
    BY <1>1
  <2> QED BY <2>1 DEF Distinct
<1>6. Distinct(Tail(q))
  <2> SUFFICES ASSUME NEW i \in 1..(Len(q) - 1), NEW k \in 1..(Len(q) - 1),
                      q[i + 1] = q[k + 1]
               PROVE  i = k
    BY <1>1 DEF Distinct
  <2>1. i + 1 \in DOMAIN q /\ k + 1 \in DOMAIN q
    BY <1>1
  <2>2. i + 1 = k + 1
    BY <2>1 DEF Distinct
  <2> QED BY <2>2
<1>7. Queued(q) = Queued(Tail(q)) \union {Head(q)}
  BY <1>4
<1> QED BY <1>1, <1>5, <1>6, <1>7

LEMMA QueuedAppend ==
  ASSUME NEW q \in Seq(Jobs), Distinct(q), NEW j \in Jobs, j \notin Queued(q)
  PROVE  /\ Append(q, j) \in Seq(Jobs) /\ Len(Append(q, j)) = Len(q) + 1
         /\ Queued(Append(q, j)) = Queued(q) \union {j}
         /\ Distinct(Append(q, j))
         /\ Append(q, j) # <<>>
<1> DEFINE a == Append(q, j)
<1>1. /\ a \in Seq(Jobs) /\ Len(a) = Len(q) + 1 /\ Len(q) \in Nat
      /\ DOMAIN q = 1..Len(q) /\ DOMAIN a = 1..(Len(q) + 1)
      /\ \A i \in 1..Len(q) : a[i] = q[i]
      /\ a[Len(q) + 1] = j /\ a # <<>>
  OBVIOUS
<1> HIDE DEF a
<1>2. \A x : x \in Queued(q) <=> \E i \in 1..Len(q) : q[i] = x
  BY <1>1 DEF Queued
<1>3. \A x : x \in Queued(a) <=> \E i \in 1..(Len(q) + 1) : a[i] = x
  BY <1>1 DEF Queued
<1>4. \A i \in 1..(Len(q) + 1) : i \in 1..Len(q) \/ i = Len(q) + 1
  BY <1>1
<1>5. /\ Len(q) + 1 \in 1..(Len(q) + 1)
      /\ \A i \in 1..Len(q) : i \in 1..(Len(q) + 1)
  BY <1>1
<1>6. \A x : x \in Queued(a) <=> x \in Queued(q) \/ x = j
  BY <1>1, <1>2, <1>3, <1>4, <1>5
<1>7. Distinct(a)
  <2> SUFFICES ASSUME NEW i \in 1..(Len(q) + 1), NEW k \in 1..(Len(q) + 1),
                      a[i] = a[k]
               PROVE  i = k
    BY <1>1 DEF Distinct
  <2>1. CASE i \in 1..Len(q) /\ k \in 1..Len(q)
    BY <1>1, <2>1 DEF Distinct
  <2>2. CASE i = Len(q) + 1 /\ k = Len(q) + 1
    BY <2>2
  <2>3. CASE i \in 1..Len(q) /\ k = Len(q) + 1
    BY <1>1, <1>2, <2>3
  <2>4. CASE i = Len(q) + 1 /\ k \in 1..Len(q)
    BY <1>1, <1>2, <2>4
  <2> QED BY <1>4, <2>1, <2>2, <2>3, <2>4
<1>8. Queued(a) = Queued(q) \union {j}
  BY <1>6
<1> QED BY <1>1, <1>7, <1>8 DEF a

LEMMA QueuedNone == Queued(<<>>) = {} /\ Distinct(<<>>) /\ <<>> \in Seq(Jobs)
BY DEF Queued, Distinct

(* What JobsHeldOnce says, for the proofs.                                    *)
Holds(j) == \E s \in Slots : slot[s].job = j
Apart == \A s, o \in Slots : slot[s].job # NoJob /\ slot[s].job = slot[o].job
                             => s = o

LEMMA HeldOnce ==
  ASSUME TypeOK
  PROVE  JobsHeldOnce <=>
           /\ Distinct(queue) /\ Apart
           /\ \A j \in Jobs : /\ fate[j] \in Open <=> j \in Queued(queue) \/ Holds(j)
                              /\ ~(j \in Queued(queue) /\ Holds(j))
<1>1. /\ queue \in Seq(Jobs) /\ NoJob \notin Jobs
      /\ \A s \in Slots : slot[s].job \in Jobs \union {NoJob}
  BY PoolAssumption DEF TypeOK, SlotType
<1>2. \A i \in DOMAIN queue : queue[i] \in Jobs
  BY <1>1
<1> QED BY <1>1, <1>2 DEF JobsHeldOnce, Distinct, Apart, Holds

LEMMA HeldOnceNext ==
  ASSUME TypeOK'
  PROVE  JobsHeldOnce' <=>
           /\ Distinct(queue') /\ Apart'
           /\ \A j \in Jobs :
                /\ fate'[j] \in Open <=> j \in Queued(queue') \/ Holds(j)'
                /\ ~(j \in Queued(queue') /\ Holds(j)')
<1>1. /\ queue' \in Seq(Jobs) /\ NoJob \notin Jobs
      /\ \A s \in Slots : slot'[s].job \in Jobs \union {NoJob}
  BY PoolAssumption DEF TypeOK, SlotType
<1>2. \A i \in DOMAIN queue' : queue'[i] \in Jobs
  BY <1>1
<1> QED BY <1>1, <1>2 DEF JobsHeldOnce, Distinct, Apart, Holds, Queued

-----------------------------------------------------------------------------
(* Steps of one slot.                                                        *)

LEMMA Numbers ==
  ASSUME TypeOK
  PROVE  /\ starts \in Nat /\ faults \in Nat /\ MaxFaults \in Nat
         /\ Len(queue) \in Nat /\ QueueCap \in Nat /\ MaxStarts \in Nat
         /\ Workers \in Nat /\ Recycle \in Nat /\ Recycle >= 1
         /\ NoJob \notin Jobs
BY PoolAssumption DEF TypeOK

(* What may become of the queue in such a step, and of the promises: the jobs *)
(* that leave the queue or the slot are settled, and no others.               *)
Shortens ==
  \/ queue' = queue
  \/ queue # <<>> /\ queue' = Tail(queue)
  \/ queue' = <<>>
Leaving(s, j) == j = slot[s].job \/ (j \in Queued(queue) /\ j \notin Queued(queue'))
LeaversSettled(s) ==
  \A j \in Jobs : IF Leaving(s, j) THEN fate'[j] \in Outcomes
                  ELSE fate'[j] = fate[j]

(* Seen from outside: promises that were open are settled, no others change.  *)
Settled ==
  \A j \in Jobs : \/ fate'[j] = fate[j]
                  \/ fate[j] \in Open /\ fate'[j] \in Outcomes

LEMMA ShorterQueue ==
  ASSUME TypeOK, Distinct(queue), Shortens
  PROVE  /\ queue' \in Seq(Jobs) /\ Len(queue') <= QueueCap /\ Distinct(queue')
         /\ \A j \in Queued(queue') : j \in Queued(queue)
         /\ queue' # <<>> => queue # <<>>
<1>1. CASE queue' = queue
  BY <1>1 DEF TypeOK
<1>2. CASE queue # <<>> /\ queue' = Tail(queue)
  BY <1>2, QueuedTail, Numbers DEF TypeOK
<1>3. CASE queue' = <<>>
  BY <1>3, QueuedNone, Numbers
<1> QED BY <1>1, <1>2, <1>3 DEF Shortens

LEMMA SlotStep ==
  ASSUME IInv, NEW s \in Slots, NEW t \in SlotType, Sound(t), t.job = NoJob,
         s[1] <= starts,
         slot' = [slot EXCEPT ![s] = t],
         UNCHANGED <<starts, started, closing>>,
         Shortens, fate' \in [Jobs -> Fates], LeaversSettled(s),
         source' \in [Jobs -> Jobs \union {NoJob}], AnswersAreOwn',
         posted' \in SUBSET Requests, faults' \in 0..MaxFaults,
         pumping' \in BOOLEAN, pumping => pumping',
         t.state = "idle" => pumping' \/ closing,
         Promising(t) \/ queue' = <<>> \/ ~Promising(slot[s])
  PROVE  IInv' /\ Settled
<1>1. /\ slot \in [Slots -> SlotType] /\ slot'[s] = t
      /\ \A o \in Slots \ {s} : slot'[o] = slot[o]
      /\ slot' \in [Slots -> SlotType]
  BY DEF IInv, TypeOK
<1>2. /\ TypeOK /\ JobsHeldOnce /\ Distinct(queue) /\ Apart
      /\ NoJob \notin Jobs
  BY HeldOnce, Numbers DEF IInv
<1>3. /\ queue' \in Seq(Jobs) /\ Len(queue') <= QueueCap /\ Distinct(queue')
      /\ \A j \in Queued(queue') : j \in Queued(queue)
      /\ queue' # <<>> => queue # <<>>
  BY <1>2, ShorterQueue
<1>4. TypeOK'
  BY <1>1, <1>3 DEF IInv, TypeOK, Fates
<1>5. Current' = Current
  BY DEF Current
<1>6. ASSUME NEW o \in Slots PROVE SlotOK(o)'
  <2>1. CASE o = s
    <3>1. ~(s[1] > starts)
      <4>1. s[1] \in Nat
        BY Numbers, <1>2 DEF Slots
      <4> QED BY <1>2, <4>1, Numbers
    <3> QED BY <1>1, <2>1, <3>1 DEF SlotOK
  <2>2. CASE o # s
    <3>1. slot'[o] = slot[o] /\ SlotOK(o)
      BY <1>1, <2>2 DEF IInv
    <3> QED BY <1>5, <3>1 DEF SlotOK
  <2> QED BY <2>1, <2>2
<1>7. InService'
  BY <1>3 DEF IInv, InService
<1>8. Hope'
  <2> SUFFICES ASSUME queue' # <<>> PROVE \E o \in Current : Promising(slot'[o])
    BY <1>5 DEF Hope
  <2>1. PICK o \in Current : Promising(slot[o])
    BY <1>3 DEF IInv, Hope
  <2>2. o \in Slots
    BY DEF Current
  <2>3. CASE o = s
    BY <1>1, <2>1, <2>3
  <2>4. CASE o # s
    BY <1>1, <2>1, <2>2, <2>4
  <2> QED BY <2>3, <2>4
<1>9. Pumped'
  <2> SUFFICES ASSUME ~pumping', queue' # <<>> PROVE Free' = {}
    BY DEF Pumped
  <2>1. Free = {} /\ ~closing
    BY <1>3 DEF IInv, Pumped, InService
  <2>2. slot'[s].state # "idle"
    BY <1>1, <2>1
  <2> QED BY <1>1, <1>5, <2>1, <2>2 DEF Free, Current
<1>10. JobsHeldOnce'
  <2>1. Apart'
    BY <1>1, <1>2 DEF Apart
  <2>2. \A j \in Jobs : Holds(j)' <=> Holds(j) /\ j # slot[s].job
    BY <1>1, <1>2 DEF Holds, Apart
  <2>3. ASSUME NEW j \in Jobs
        PROVE  /\ fate'[j] \in Open <=> j \in Queued(queue') \/ Holds(j)'
               /\ ~(j \in Queued(queue') /\ Holds(j)')
    <3>1. /\ fate[j] \in Open <=> j \in Queued(queue) \/ Holds(j)
          /\ ~(j \in Queued(queue) /\ Holds(j))
      BY <1>2, HeldOnce
    <3>2. CASE Leaving(s, j)
      <4>1. fate'[j] \notin Open
        BY <3>2 DEF LeaversSettled, Open, Outcomes
      <4>2. CASE j = slot[s].job
        <5>1. Holds(j)
          BY <4>2 DEF Holds
        <5> QED BY <1>3, <2>2, <3>1, <4>1, <4>2, <5>1
      <4>3. CASE j \in Queued(queue) /\ j \notin Queued(queue')
        BY <2>2, <3>1, <4>1, <4>3
      <4> QED BY <3>2, <4>2, <4>3 DEF Leaving
    <3>3. CASE ~Leaving(s, j)
      <4>1. fate'[j] = fate[j]
        BY <3>3 DEF LeaversSettled
      <4>2. j # slot[s].job /\ (j \in Queued(queue) <=> j \in Queued(queue'))
        BY <1>3, <3>3 DEF Leaving
      <4> QED BY <2>2, <3>1, <4>1, <4>2
    <3> QED BY <3>2, <3>3
  <2> QED BY <1>3, <1>4, <2>1, <2>3, HeldOnceNext
<1>11. Settled
  <2> SUFFICES ASSUME NEW j \in Jobs, Leaving(s, j) PROVE fate[j] \in Open
    BY DEF Settled, LeaversSettled
  <2>1. j = slot[s].job => Holds(j)
    BY DEF Holds
  <2>2. fate[j] \in Open <=> j \in Queued(queue) \/ Holds(j)
    BY <1>2, HeldOnce
  <2> QED BY <2>1, <2>2 DEF Leaving
<1> QED BY <1>4, <1>6, <1>7, <1>8, <1>9, <1>10, <1>11 DEF IInv

(* A step that leaves queue and slots alone, but for the pumping.              *)
LEMMA QuietStep ==
  ASSUME IInv, UNCHANGED <<queue, slot, starts, started, closing, source>>,
         fate' \in [Jobs -> Fates],
         \A j \in Jobs : (fate'[j] \in Open <=> fate[j] \in Open)
                         /\ (fate'[j] = "result" => fate[j] = "result"),
         posted' \in SUBSET Requests, faults' \in 0..MaxFaults,
         pumping' \in BOOLEAN,
         ~pumping' => ~pumping \/ queue = <<>> \/ Free = {}
  PROVE  IInv'
<1>1. TypeOK /\ TypeOK'
  BY DEF IInv, TypeOK, Fates
<1>2. Current' = Current /\ Free' = Free
  BY DEF Current, Free
<1>3. \A o \in Slots : SlotOK(o)'
  BY <1>2 DEF IInv, SlotOK
<1>4. InService' /\ Hope' /\ Pumped'
  BY <1>2 DEF IInv, InService, Hope, Pumped
<1>5. JobsHeldOnce'
  BY DEF IInv, JobsHeldOnce
<1>6. AnswersAreOwn'
  BY DEF IInv, AnswersAreOwn
<1> QED BY <1>1, <1>3, <1>4, <1>5, <1>6 DEF IInv

-----------------------------------------------------------------------------
(* Restarting a slot.                                                        *)

(* The queue q as scheduleRestart leaves it, and the promises.                *)
LEMMA RestartFacts ==
  ASSUME IInv, NEW s \in Slots, NEW r \in SlotType, Sound(r),
         ~r.thread, r.term = "no",
         NEW q \in Seq(Jobs), NEW f \in [Jobs -> Fates],
         ScheduleRestart(s, r, f, q)
  PROVE  \E t \in SlotType :
           /\ slot' = [slot EXCEPT ![s] = t]
           /\ Sound(t) /\ t.job = NoJob /\ t.state # "idle"
           /\ closing \/ Promising(t)
           /\ queue' \in {q, <<>>}
           /\ fate' \in [Jobs -> Fates]
           /\ \A j \in Jobs : fate'[j] = IF j \in Queued(q) /\ j \notin Queued(queue')
                                         THEN "unavailable" ELSE f[j]
<1>1. r.job = NoJob /\ r.state # "idle" /\ r.state # "busy"
  BY DEF Sound
<1>2. CASE closing \/ r.timer
  <2>1. slot' = [slot EXCEPT ![s] = r] /\ fate' = f /\ queue' = q
    BY <1>2 DEF ScheduleRestart
  <2>2. closing \/ Promising(r)
    BY <1>2 DEF Promising
  <2> QED BY <1>1, <2>1, <2>2
<1>3. CASE ~(closing \/ r.timer)
  <2> DEFINE t == [r EXCEPT !.state = "restarting", !.timer = TRUE]
             waits == [slot EXCEPT ![s] = t]
  <2>1. /\ t \in SlotType /\ t.state = "restarting" /\ t.timer
        /\ t.job = NoJob /\ ~t.thread /\ t.term = "no"
    BY <1>1 DEF SlotType
  <2>2. /\ slot' = waits
        /\ \/ fate' = f /\ queue' = q
           \/ /\ fate' = [j \in Jobs |-> IF j \in Queued(q) THEN "unavailable"
                                                            ELSE f[j]]
              /\ queue' = <<>>
    BY <1>3 DEF ScheduleRestart
  <2> HIDE DEF t
  <2>3. Sound(t) /\ Promising(t)
    BY <2>1 DEF Sound, Promising
  <2>4. CASE fate' = f /\ queue' = q
    BY <2>1, <2>2, <2>3, <2>4
  <2>5. CASE /\ fate' = [j \in Jobs |-> IF j \in Queued(q) THEN "unavailable"
                                                           ELSE f[j]]
             /\ queue' = <<>>
    <3>1. fate' \in [Jobs -> Fates]
      BY <2>5 DEF Fates, Outcomes
    <3>2. \A j : j \notin Queued(queue')
      BY <2>5, QueuedNone
    <3> QED BY <2>1, <2>2, <2>3, <2>5, <3>1, <3>2
  <2> QED BY <2>2, <2>4, <2>5
<1> QED BY <1>2, <1>3

(* scheduleRestart as a step: f is the settling that came before it.          *)
Rest(q) == q = queue \/ (queue # <<>> /\ q = Tail(queue))

LEMMA RestartStep ==
  ASSUME IInv, NEW s \in Slots, NEW r \in SlotType, Sound(r),
         ~r.thread, r.term = "no", s[1] <= starts,
         NEW f \in [Jobs -> Fates], NEW q,
         Rest(q), ScheduleRestart(s, r, f, q),
         \A j \in Jobs : IF j = slot[s].job \/ (j \in Queued(queue) /\ j \notin Queued(q))
                         THEN f[j] \in Outcomes \ {"result"} ELSE f[j] = fate[j],
         UNCHANGED <<source, starts, started, closing, pumping, posted>>,
         faults' \in 0..MaxFaults
  PROVE  IInv' /\ Settled
<1>1. /\ TypeOK /\ queue \in Seq(Jobs) /\ Distinct(queue)
      /\ source' \in [Jobs -> Jobs \union {NoJob}]
      /\ posted' \in SUBSET Requests /\ pumping' \in BOOLEAN
  BY HeldOnce DEF IInv, TypeOK
<1>2. q \in Seq(Jobs) /\ \A j \in Queued(q) : j \in Queued(queue)
  <2>1. CASE q = queue
    BY <1>1, <2>1
  <2>2. CASE queue # <<>> /\ q = Tail(queue)
    BY <1>1, <2>2, QueuedTail
  <2> QED BY <2>1, <2>2 DEF Rest
<1>3. PICK t \in SlotType :
           /\ slot' = [slot EXCEPT ![s] = t]
           /\ Sound(t) /\ t.job = NoJob /\ t.state # "idle"
           /\ closing \/ Promising(t)
           /\ queue' \in {q, <<>>}
           /\ fate' \in [Jobs -> Fates]
           /\ \A j \in Jobs : fate'[j] = IF j \in Queued(q) /\ j \notin Queued(queue')
                                         THEN "unavailable" ELSE f[j]
  BY <1>2, RestartFacts
<1>4. Shortens
  BY <1>3 DEF Shortens, Rest
<1>5. \A j \in Queued(queue') : j \in Queued(q)
  BY <1>3, QueuedNone
<1>6. ASSUME NEW j \in Jobs
      PROVE  IF Leaving(s, j) THEN fate'[j] \in Outcomes \ {"result"}
             ELSE fate'[j] = fate[j]
  <2>1. CASE j \in Queued(q) /\ j \notin Queued(queue')
    <3>1. Leaving(s, j)
      BY <1>2, <2>1 DEF Leaving
    <3> QED BY <1>3, <2>1, <3>1 DEF Outcomes
  <2>2. CASE ~(j \in Queued(q) /\ j \notin Queued(queue'))
    <3>1. fate'[j] = f[j]
      BY <1>3, <2>2
    <3>2. Leaving(s, j) <=> j = slot[s].job \/ (j \in Queued(queue) /\ j \notin Queued(q))
      BY <1>5, <2>2 DEF Leaving
    <3> QED BY <3>1, <3>2
  <2> QED BY <2>1, <2>2
<1>7. LeaversSettled(s)
  BY <1>6 DEF LeaversSettled
<1>8. AnswersAreOwn'
  BY <1>6 DEF IInv, AnswersAreOwn
<1>9. Promising(t) \/ queue' = <<>>
  <2>1. queue' # <<>> => queue # <<>>
    BY <1>1, <1>4, ShorterQueue
  <2> QED BY <1>3, <2>1 DEF IInv, InService
<1> QED BY <1>1, <1>3, <1>4, <1>7, <1>8, <1>9, SlotStep

LEMMA FreshThread ==
  ASSUME NEW r \in SlotType, Sound(r), ~r.thread, r.term = "no"
  PROVE  /\ Up(r) \in SlotType /\ Up(r).job = NoJob /\ Up(r).state = "idle"
         /\ Sound(Up(r)) /\ Promising(Up(r)) /\ Up(r).timer = FALSE
         /\ Up(r).thread = TRUE /\ Up(r).term = "no"
         /\ Down(r) \in SlotType /\ Down(r).job = NoJob /\ Down(r).state = "dead"
         /\ Sound(Down(r)) /\ Down(r).timer = FALSE /\ Down(r).thread = FALSE
         /\ Down(r).term = "no"
<1>1. r.job = NoJob /\ r.gen + 1 \in Nat
  BY DEF Sound, SlotType
<1> DEFINE v == Starting(r)
<1>2. /\ v \in SlotType /\ v.job = NoJob /\ ~v.timer /\ v.term = "no"
  <2> DEFINE n == r.gen + 1
  <2>1. v = [r EXCEPT !.timer = FALSE, !.gen = n, !.stopping = FALSE]
    BY DEF Starting
  <2>2. n \in Nat
    BY <1>1
  <2> HIDE DEF n, v
  <2> QED BY <1>1, <2>1, <2>2 DEF SlotType
<1>3. /\ Up(r) = [v EXCEPT !.thread = TRUE, !.state = "idle"]
      /\ Down(r) = [v EXCEPT !.thread = FALSE, !.state = "dead"]
  BY DEF Up, Down
<1> HIDE DEF v
<1>4. /\ Up(r) \in SlotType /\ Up(r).job = NoJob /\ Up(r).state = "idle"
      /\ ~Up(r).timer /\ Up(r).thread /\ Up(r).term = "no"
      /\ Up(r).timer \in BOOLEAN /\ Up(r).thread \in BOOLEAN
  BY <1>2, <1>3 DEF SlotType
<1>5. /\ Down(r) \in SlotType /\ Down(r).job = NoJob /\ Down(r).state = "dead"
      /\ ~Down(r).timer /\ ~Down(r).thread /\ Down(r).term = "no"
      /\ Down(r).timer \in BOOLEAN /\ Down(r).thread \in BOOLEAN
  BY <1>2, <1>3 DEF SlotType
<1> QED BY <1>4, <1>5 DEF Sound, Promising

(* startSlot as a step, of a slot that has nothing.                           *)
LEMMA StartStep ==
  ASSUME IInv, NEW s \in Slots, NEW r \in SlotType, Sound(r),
         ~r.thread, r.term = "no", s[1] <= starts, slot[s].job = NoJob,
         StartSlot(s, r), UNCHANGED <<source, starts, started, closing, posted>>
  PROVE  IInv' /\ Settled
<1>1. /\ TypeOK /\ r.job = NoJob /\ fate \in [Jobs -> Fates]
      /\ source' \in [Jobs -> Jobs \union {NoJob}]
      /\ posted' \in SUBSET Requests /\ faults \in 0..MaxFaults
      /\ pumping \in BOOLEAN /\ AnswersAreOwn /\ r.gen \in Nat
  BY DEF IInv, TypeOK, Sound, Fates, SlotType
<1>2. ASSUME UNCHANGED <<fate, queue>>
      PROVE  /\ Shortens /\ LeaversSettled(s) /\ AnswersAreOwn'
  <2>1. \A j \in Jobs : ~Leaving(s, j)
    BY <1>2, <1>1, Numbers DEF Leaving
  <2> QED BY <1>1, <1>2, <2>1 DEF Shortens, LeaversSettled, AnswersAreOwn
<1>3. CASE /\ closing
           /\ slot' = [slot EXCEPT ![s] = r]
           /\ UNCHANGED <<fate, queue, pumping, faults>>
  <2>1. queue' = <<>>
    BY <1>3 DEF IInv, InService
  <2> QED BY <1>1, <1>2, <1>3, <2>1, SlotStep
<1>4. CASE /\ slot' = [slot EXCEPT ![s] = Up(r)]
           /\ pumping' = TRUE
           /\ UNCHANGED <<fate, queue, faults>>
  <2>1. /\ Up(r) \in SlotType /\ Up(r).job = NoJob /\ Sound(Up(r))
        /\ Promising(Up(r))
    BY FreshThread
  <2> QED BY <1>1, <1>2, <1>4, <2>1, SlotStep
<1>5. CASE /\ faults < MaxFaults
           /\ faults' = faults + 1
           /\ ScheduleRestart(s, Down(r), fate, queue)
           /\ UNCHANGED pumping
  <2>1. /\ Down(r) \in SlotType /\ Sound(Down(r)) /\ ~Down(r).thread
        /\ Down(r).term = "no"
    BY FreshThread
  <2>3. faults' \in 0..MaxFaults
    BY <1>1, <1>5, Numbers
  <2>4. \A j \in Jobs : j # slot[s].job
    BY <1>1, Numbers
  <2> QED BY <1>1, <1>5, <2>1, <2>3, <2>4, RestartStep DEF Rest
<1> QED BY <1>3, <1>4, <1>5 DEF StartSlot

-----------------------------------------------------------------------------
(* The actions.                                                              *)

LEMMA UsedSlot ==
  ASSUME IInv, NEW s \in Slots, slot[s] # Unused
  PROVE  s[1] <= starts /\ slot[s] \in SlotType /\ Sound(slot[s])
<1>1. s[1] \in Nat /\ starts \in Nat
  BY Numbers DEF IInv, Slots
<1> QED BY <1>1 DEF IInv, SlotOK, TypeOK

LEMMA InUse ==
  ASSUME NEW s \in Slots,
         slot[s].thread \/ slot[s].timer \/ slot[s].term # "no" \/ slot[s].job # NoJob
  PROVE  slot[s] # Unused
BY DEF Unused

LEMMA RestartTimerInv ==
  ASSUME IInv, NEW s \in Slots, RestartTimer(s) PROVE IInv' /\ Settled
<1> DEFINE r == [slot[s] EXCEPT !.timer = FALSE]
<1>1. s[1] <= starts /\ slot[s] \in SlotType /\ Sound(slot[s]) /\ slot[s].timer
  BY UsedSlot, InUse DEF RestartTimer
<1>2. /\ r \in SlotType /\ ~r.thread /\ r.term = "no" /\ slot[s].job = NoJob
      /\ r.job = slot[s].job /\ r.state = slot[s].state
      /\ r.thread = slot[s].thread /\ ~r.timer
  BY <1>1 DEF Sound, SlotType
<1>3. StartSlot(s, r) /\ UNCHANGED <<source, starts, started, closing, posted>>
  BY DEF RestartTimer
<1> HIDE DEF r
<1>4. Sound(r)
  BY <1>1, <1>2 DEF Sound
<1> QED BY <1>1, <1>2, <1>3, <1>4, StartStep

LEMMA TerminateDoneInv ==
  ASSUME IInv, NEW s \in Slots, TerminateDone(s) PROVE IInv' /\ Settled
<1>1. /\ s[1] <= starts /\ slot[s] \in SlotType /\ Sound(slot[s])
      /\ slot[s].term # "no"
  BY UsedSlot, InUse DEF TerminateDone
<1>2. /\ ~slot[s].thread /\ ~slot[s].timer /\ slot[s].job = NoJob
      /\ slot[s].state # "idle" /\ slot[s].state # "busy" /\ TypeOK
      /\ NoJob \notin Jobs
  BY <1>1, Numbers DEF Sound, IInv
<1>3. UNCHANGED <<source, starts, started, closing, posted>>
  BY DEF TerminateDone
<1> DEFINE r == [slot[s] EXCEPT !.term = "no"]
           u == [r EXCEPT !.stopping = FALSE]
<1>4. /\ r \in SlotType /\ r.term = "no" /\ r.job = NoJob /\ ~r.thread /\ ~r.timer
      /\ r.state = slot[s].state
  BY <1>1, <1>2 DEF SlotType
<1>5. /\ u \in SlotType /\ u.term = "no" /\ u.job = NoJob /\ ~u.thread /\ ~u.timer
      /\ u.state = slot[s].state
  BY <1>1, <1>2 DEF SlotType
<1>6. \/ StartSlot(s, u)
      \/ ScheduleRestart(s, u, fate, queue) /\ UNCHANGED <<pumping, faults>>
      \/ /\ slot[s].term = "shutdown"
         /\ slot' = [slot EXCEPT ![s] = r]
         /\ UNCHANGED <<fate, queue, pumping, faults>>
  BY DEF TerminateDone
<1> HIDE DEF r, u
<1>7. Sound(r) /\ Sound(u)
  BY <1>2, <1>4, <1>5 DEF Sound
<1>8. CASE StartSlot(s, u)
  BY <1>1, <1>2, <1>3, <1>5, <1>7, <1>8, StartStep
<1>9. CASE ScheduleRestart(s, u, fate, queue) /\ UNCHANGED <<pumping, faults>>
  <2>1. \A j \in Jobs : j # slot[s].job
    BY <1>2
  <2>2. fate \in [Jobs -> Fates] /\ faults' \in 0..MaxFaults
    BY <1>9 DEF IInv, TypeOK, Fates
  <2> QED BY <1>1, <1>3, <1>5, <1>7, <1>9, <2>1, <2>2, RestartStep DEF Rest
<1>10. CASE /\ slot[s].term = "shutdown"
            /\ slot' = [slot EXCEPT ![s] = r]
            /\ UNCHANGED <<fate, queue, pumping, faults>>
  <2>1. ~Promising(slot[s]) /\ r.state # "idle"
    BY <1>2, <1>4, <1>10 DEF Promising
  <2>2. Shortens /\ LeaversSettled(s)
    <3>1. \A j \in Jobs : ~Leaving(s, j)
      BY <1>2, <1>10 DEF Leaving
    <3> QED BY <1>10, <3>1 DEF Shortens, LeaversSettled
  <2>3. /\ fate' \in [Jobs -> Fates] /\ source' \in [Jobs -> Jobs \union {NoJob}]
        /\ posted' \in SUBSET Requests /\ faults' \in 0..MaxFaults
        /\ pumping' \in BOOLEAN /\ AnswersAreOwn'
    BY <1>3, <1>10 DEF IInv, TypeOK, Fates, AnswersAreOwn
  <2> QED BY <1>1, <1>3, <1>4, <1>7, <1>10, <2>1, <2>2, <2>3, SlotStep
<1> QED BY <1>6, <1>8, <1>9, <1>10

LEMMA ThreadFailsInv ==
  ASSUME IInv, NEW s \in Slots, ThreadFails(s) PROVE IInv' /\ Settled
<1>1. /\ s[1] <= starts /\ slot[s] \in SlotType /\ Sound(slot[s])
      /\ slot[s].thread \/ slot[s].term # "no"
      /\ ~slot[s].stopping
  BY UsedSlot, InUse DEF ThreadFails, Unexpected
<1>2. slot[s].term = "no" /\ ~slot[s].timer /\ TypeOK /\ NoJob \notin Jobs
  BY <1>1, Numbers DEF Sound, IInv
<1> DEFINE r == [slot[s] EXCEPT !.job = NoJob, !.thread = FALSE,
                                !.state = "restarting"]
<1>3. /\ r \in SlotType /\ r.job = NoJob /\ ~r.thread /\ r.state = "restarting"
      /\ r.term = "no" /\ ~r.timer
  BY <1>1, <1>2 DEF SlotType
<1>4. /\ ScheduleRestart(s, r, Crashed(s), queue)
      /\ faults' = faults + 1 /\ faults < MaxFaults
      /\ UNCHANGED <<source, starts, started, closing, pumping, posted>>
  BY DEF ThreadFails, Fail
<1> HIDE DEF r
<1>5. Sound(r)
  BY <1>3 DEF Sound
<1>6. /\ Crashed(s) \in [Jobs -> Fates]
      /\ \A j \in Jobs : IF j = slot[s].job THEN Crashed(s)[j] = "crashed"
                         ELSE Crashed(s)[j] = fate[j]
  <2>1. fate \in [Jobs -> Fates] /\ "crashed" \in Fates
    BY DEF IInv, TypeOK, Fates, Outcomes
  <2>2. slot[s].job \in Jobs \union {NoJob}
    BY <1>1 DEF SlotType
  <2>3. CASE slot[s].job = NoJob
    BY <1>2, <2>1, <2>3 DEF Crashed
  <2>4. CASE slot[s].job # NoJob
    BY <2>1, <2>2, <2>4 DEF Crashed
  <2> QED BY <2>3, <2>4
<1>7. faults' \in 0..MaxFaults
  BY <1>2, <1>4, Numbers
<1>8. \A j \in Jobs : IF j = slot[s].job \/ (j \in Queued(queue) /\ j \notin Queued(queue))
                      THEN Crashed(s)[j] \in Outcomes \ {"result"}
                      ELSE Crashed(s)[j] = fate[j]
  BY <1>6 DEF Outcomes
<1> QED BY <1>1, <1>3, <1>4, <1>5, <1>6, <1>7, <1>8, RestartStep DEF Rest

LEMMA JobTimesOutInv ==
  ASSUME IInv, NEW s \in Slots, JobTimesOut(s) PROVE IInv' /\ Settled
<1>1. /\ s[1] <= starts /\ slot[s] \in SlotType /\ Sound(slot[s])
      /\ slot[s].job # NoJob
  BY UsedSlot, InUse DEF JobTimesOut
<1>2. slot[s].thread /\ slot[s].term = "no" /\ ~slot[s].timer
      /\ slot[s].job \in Jobs /\ fate \in [Jobs -> Fates]
  BY <1>1 DEF Sound, SlotType, IInv, TypeOK, Fates
<1> DEFINE t == [slot[s] EXCEPT !.job = NoJob, !.thread = FALSE,
                   !.state = "restarting", !.stopping = TRUE, !.term = "timeout"]
<1>3. /\ t \in SlotType /\ t.job = NoJob /\ ~t.thread /\ t.state = "restarting"
      /\ t.stopping /\ t.term = "timeout" /\ ~t.timer
  BY <1>1, <1>2 DEF SlotType
<1>4. /\ slot' = [slot EXCEPT ![s] = t]
      /\ fate' = [fate EXCEPT ![slot[s].job] = "timeout"]
      /\ UNCHANGED <<source, queue, starts, started, closing, pumping, posted,
                     faults>>
  BY DEF JobTimesOut
<1> HIDE DEF t
<1>5. Sound(t) /\ Promising(t)
  BY <1>3 DEF Sound, Promising
<1>6. /\ fate' \in [Jobs -> Fates] /\ Shortens /\ LeaversSettled(s)
      /\ AnswersAreOwn'
  <2>1. fate' \in [Jobs -> Fates]
    BY <1>2, <1>4 DEF Fates, Outcomes
  <2>2. \A j \in Jobs : Leaving(s, j) <=> j = slot[s].job
    BY <1>4 DEF Leaving
  <2>3. LeaversSettled(s)
    BY <1>2, <1>4, <2>2 DEF LeaversSettled, Outcomes
  <2>4. AnswersAreOwn'
    BY <1>2, <1>4 DEF IInv, AnswersAreOwn
  <2> QED BY <1>4, <2>1, <2>3, <2>4 DEF Shortens
<1>7. /\ source' \in [Jobs -> Jobs \union {NoJob}]
      /\ posted' \in SUBSET Requests /\ faults' \in 0..MaxFaults
      /\ pumping' \in BOOLEAN
  BY <1>4 DEF IInv, TypeOK
<1> QED BY <1>1, <1>3, <1>4, <1>5, <1>6, <1>7, SlotStep

LEMMA AnswerInv ==
  ASSUME IInv, NEW m \in posted, Answer(m[1], m[2], m[3]) PROVE IInv' /\ Settled
<1> DEFINE s == m[1]
           g == m[2]
           j == m[3]
<1>1. s \in Slots /\ j \in Jobs /\ posted' = posted \ {<<s, g, j>>}
  BY DEF IInv, TypeOK, Requests, Answer
<1>2. /\ fate \in [Jobs -> Fates] /\ source \in [Jobs -> Jobs \union {NoJob}]
      /\ posted' \in SUBSET Requests /\ faults \in 0..MaxFaults
      /\ pumping \in BOOLEAN /\ NoJob \notin Jobs /\ ~pumping
  BY <1>1, Numbers DEF IInv, TypeOK, Fates, Answer
<1>3. UNCHANGED <<queue, starts, started, closing, faults>>
  BY DEF Answer
<1>4. CASE ~Takes(s, g, j)
  <2>1. UNCHANGED <<fate, source, slot, pumping>>
    BY <1>4 DEF Answer
  <2> QED BY <1>2, <1>3, <2>1, QuietStep DEF Settled
<1>5. CASE Takes(s, g, j)
  <2>1. /\ slot[s].job = j /\ slot[s].job # NoJob
    BY <1>1, <1>2, <1>5 DEF Takes
  <2>2. /\ s[1] <= starts /\ slot[s] \in SlotType /\ Sound(slot[s])
    BY <1>1, <2>1, UsedSlot, InUse
  <2>3. slot[s].thread /\ slot[s].term = "no" /\ ~slot[s].timer
    BY <2>1, <2>2 DEF Sound
  <2>4. /\ fate' = [fate EXCEPT ![j] = "result"]
        /\ source' = [source EXCEPT ![j] = j]
        /\ \/ slot' = [slot EXCEPT ![s] = Recycled(slot[s])] /\ UNCHANGED pumping
           \/ /\ ~Worn(slot[s])
              /\ slot' = [slot EXCEPT ![s] = Finished(slot[s])]
              /\ pumping' = TRUE
    BY <1>5, <2>1 DEF Answer
  <2> HIDE DEF s, g, j
  <2>5. /\ fate' \in [Jobs -> Fates] /\ source' \in [Jobs -> Jobs \union {NoJob}]
        /\ Shortens /\ LeaversSettled(s) /\ AnswersAreOwn'
    <3>1. \A i \in Jobs : Leaving(s, i) <=> i = j
      BY <1>3, <2>1 DEF Leaving
    <3>2. LeaversSettled(s)
      BY <1>1, <1>2, <2>4, <3>1 DEF LeaversSettled, Outcomes
    <3>3. AnswersAreOwn'
      BY <1>1, <1>2, <2>4 DEF IInv, AnswersAreOwn
    <3>4. fate' \in [Jobs -> Fates] /\ source' \in [Jobs -> Jobs \union {NoJob}]
      BY <1>1, <1>2, <2>4 DEF Fates, Outcomes
    <3> QED BY <1>3, <3>2, <3>3, <3>4 DEF Shortens
  <2>6. CASE slot' = [slot EXCEPT ![s] = Recycled(slot[s])] /\ UNCHANGED pumping
    <3> DEFINE t == Recycled(slot[s])
    <3>1. 0 \in 0..(Recycle - 1)
      BY Numbers DEF IInv
    <3>2. /\ t \in SlotType /\ t.job = NoJob /\ ~t.thread /\ t.state = "restarting"
          /\ t.stopping /\ t.term = "recycle" /\ ~t.timer
      BY <2>2, <2>3, <3>1 DEF Recycled, SlotType
    <3>3. Sound(t) /\ Promising(t)
      BY <3>2 DEF Sound, Promising
    <3> HIDE DEF t
    <3>4. slot' = [slot EXCEPT ![s] = t]
      BY <2>6 DEF t
    <3> QED BY <1>1, <1>2, <1>3, <2>2, <2>5, <2>6, <3>2, <3>3, <3>4, SlotStep
  <2>7. CASE /\ ~Worn(slot[s])
             /\ slot' = [slot EXCEPT ![s] = Finished(slot[s])]
             /\ pumping' = TRUE
    <3> DEFINE t == Finished(slot[s])
    <3>1. slot[s].count + 1 \in 0..(Recycle - 1)
      <4>1. slot[s].count \in 0..(Recycle - 1) /\ ~(slot[s].count + 1 >= Recycle)
        BY <2>2, <2>7 DEF SlotType, Worn
      <4> QED BY <4>1, Numbers DEF IInv
    <3>2. /\ t \in SlotType /\ t.job = NoJob /\ t.thread /\ t.state = "idle"
          /\ t.term = "no" /\ ~t.timer
      BY <2>2, <2>3, <3>1 DEF Finished, SlotType
    <3>3. Sound(t) /\ Promising(t)
      BY <3>2 DEF Sound, Promising
    <3> HIDE DEF t
    <3>4. slot' = [slot EXCEPT ![s] = t]
      BY <2>7 DEF t
    <3> QED BY <1>1, <1>2, <1>3, <2>2, <2>5, <2>7, <3>2, <3>3, <3>4, SlotStep
  <2> QED BY <2>4, <2>6, <2>7
<1> QED BY <1>4, <1>5

LEMMA UnusedFacts ==
  /\ Recycle \in Nat /\ Recycle >= 1
     => Unused \in SlotType
  /\ Sound(Unused) /\ ~Unused.thread /\ ~Unused.timer /\ Unused.term = "no"
  /\ Unused.job = NoJob /\ Unused.state = "dead"
BY DEF Unused, SlotType, Sound

LEMMA InitInv == Init => IInv
<1> SUFFICES ASSUME Init PROVE IInv
  OBVIOUS
<1>1. 0 \in 0..MaxStarts /\ 0 \in 0..MaxFaults /\ Recycle \in Nat /\ Recycle >= 1
      /\ QueueCap >= 0
  BY PoolAssumption
<1>2. TypeOK
  BY <1>1, UnusedFacts, QueuedNone DEF Init, TypeOK
<1>3. \A s \in Slots : SlotOK(s)
  BY UnusedFacts DEF Init, SlotOK
<1>4. InService /\ Hope /\ Pumped
  BY DEF Init, InService, Hope, Pumped
<1>5. JobsHeldOnce
  <2>1. \A j \in Jobs : ~Holds(j) /\ j # NoJob
    BY PoolAssumption, UnusedFacts DEF Init, Holds
  <2>2. Apart
    BY UnusedFacts DEF Init, Apart
  <2>3. Distinct(queue) /\ Queued(queue) = {}
    BY QueuedNone DEF Init
  <2>4. \A j \in Jobs : fate[j] \notin Open
    BY DEF Init, Open
  <2> QED BY <1>2, <2>1, <2>2, <2>3, <2>4, HeldOnce
<1>6. AnswersAreOwn
  BY DEF Init, AnswersAreOwn
<1> QED BY <1>2, <1>3, <1>4, <1>5, <1>6 DEF IInv

LEMMA TimePassesInv ==
  ASSUME IInv, NEW j \in Jobs, TimePasses(j) PROVE IInv'
<1>1. /\ fate \in [Jobs -> Fates] /\ posted' \in SUBSET Requests
      /\ faults' \in 0..MaxFaults /\ pumping' \in BOOLEAN /\ ~pumping'
      /\ ~pumping
  BY DEF IInv, TypeOK, Fates, TimePasses
<1>2. fate' = [fate EXCEPT ![j] = "overdue"] /\ fate[j] = "waiting"
  BY DEF TimePasses
<1>3. /\ fate' \in [Jobs -> Fates]
      /\ \A i \in Jobs : /\ fate'[i] \in Open <=> fate[i] \in Open
                         /\ fate'[i] = "result" => fate[i] = "result"
  BY <1>1, <1>2 DEF Fates, Open
<1> QED BY <1>1, <1>3, QuietStep DEF TimePasses

LEMMA PumpEndsInv ==
  ASSUME IInv, PumpEnds PROVE IInv'
<1>1. /\ fate' \in [Jobs -> Fates] /\ posted' \in SUBSET Requests
      /\ faults' \in 0..MaxFaults /\ pumping' \in BOOLEAN
  BY DEF IInv, TypeOK, Fates, PumpEnds
<1> QED BY <1>1, QuietStep DEF PumpEnds

LEMMA FreeSlot ==
  ASSUME IInv, NEW s \in Free
  PROVE  /\ s \in Slots /\ s \in Current /\ s[1] <= starts
         /\ slot[s] \in SlotType /\ Sound(slot[s]) /\ slot[s].thread
         /\ slot[s].state = "idle" /\ slot[s].job = NoJob
         /\ slot[s].term = "no" /\ ~slot[s].timer
<1>1. s \in Slots /\ s \in Current /\ slot[s].thread /\ slot[s].state = "idle"
      /\ slot[s].job = NoJob
  BY DEF Free, Current
<1>2. s[1] <= starts /\ slot[s] \in SlotType /\ Sound(slot[s])
  BY <1>1, UsedSlot, InUse
<1> QED BY <1>1, <1>2 DEF Sound

LEMMA PumpPostFailsInv ==
  ASSUME IInv, PumpPostFails PROVE IInv' /\ Settled
<1>1. PICK s \in Free :
        Fail(s, [fate EXCEPT ![Head(queue)] = "unavailable"], Tail(queue))
  BY DEF PumpPostFails
<1>2. /\ s \in Slots /\ s[1] <= starts /\ slot[s] \in SlotType
      /\ slot[s].job = NoJob /\ slot[s].term = "no" /\ ~slot[s].timer
  BY FreeSlot
<1>3. /\ queue # <<>> /\ faults < MaxFaults /\ faults' = faults + 1
      /\ UNCHANGED <<source, starts, started, closing, pumping, posted>>
  BY DEF PumpPostFails
<1>4. /\ TypeOK /\ queue \in Seq(Jobs) /\ Distinct(queue) /\ NoJob \notin Jobs
      /\ fate \in [Jobs -> Fates]
  BY HeldOnce, Numbers DEF IInv, TypeOK, Fates
<1>5. /\ Head(queue) \in Jobs
      /\ Queued(queue) = Queued(Tail(queue)) \union {Head(queue)}
      /\ Head(queue) \notin Queued(Tail(queue))
  BY <1>3, <1>4, QueuedTail
<1> DEFINE r == [slot[s] EXCEPT !.job = NoJob, !.thread = FALSE,
                                !.state = "restarting"]
           f == [fate EXCEPT ![Head(queue)] = "unavailable"]
<1>6. /\ r \in SlotType /\ r.job = NoJob /\ ~r.thread /\ r.state = "restarting"
      /\ r.term = "no" /\ ~r.timer
  BY <1>2 DEF SlotType
<1>7. ScheduleRestart(s, r, f, Tail(queue))
  BY <1>1 DEF Fail
<1>8. /\ f \in [Jobs -> Fates]
      /\ \A j \in Jobs : IF j = Head(queue) THEN f[j] = "unavailable"
                                            ELSE f[j] = fate[j]
  BY <1>4, <1>5 DEF Fates, Outcomes
<1> HIDE DEF r, f
<1>9. Sound(r)
  BY <1>6 DEF Sound
<1>10. \A j \in Jobs : IF j = slot[s].job
                          \/ (j \in Queued(queue) /\ j \notin Queued(Tail(queue)))
                       THEN f[j] \in Outcomes \ {"result"} ELSE f[j] = fate[j]
  BY <1>2, <1>4, <1>5, <1>8 DEF Outcomes
<1>11. faults' \in 0..MaxFaults
  BY <1>3, <1>4, Numbers
<1> DEFINE q == Tail(queue)
<1>12. /\ Rest(q) /\ ScheduleRestart(s, r, f, q)
       /\ \A j \in Jobs : IF j = slot[s].job
                           \/ (j \in Queued(queue) /\ j \notin Queued(q))
                        THEN f[j] \in Outcomes \ {"result"} ELSE f[j] = fate[j]
  BY <1>3, <1>7, <1>10 DEF Rest
<1> HIDE DEF q
<1> QED BY <1>2, <1>3, <1>6, <1>8, <1>9, <1>11, <1>12, RestartStep

LEMMA PumpTakesInv ==
  ASSUME IInv, PumpTakes PROVE IInv'
<1> DEFINE h == Head(queue)
<1>1. /\ TypeOK /\ queue \in Seq(Jobs) /\ Distinct(queue) /\ Apart
      /\ NoJob \notin Jobs /\ fate \in [Jobs -> Fates]
      /\ slot \in [Slots -> SlotType] /\ posted \in SUBSET Requests
  BY HeldOnce, Numbers DEF IInv, TypeOK, Fates
<1>2. /\ queue # <<>> /\ queue' = Tail(queue) /\ pumping /\ started /\ ~closing
      /\ UNCHANGED <<source, starts, started, closing, pumping, faults>>
  BY DEF PumpTakes, IInv, InService
<1>3. /\ h \in Jobs /\ Tail(queue) \in Seq(Jobs)
      /\ Len(Tail(queue)) = Len(queue) - 1
      /\ Queued(queue) = Queued(Tail(queue)) \union {h}
      /\ h \notin Queued(Tail(queue)) /\ Distinct(Tail(queue))
  BY <1>1, <1>2, QueuedTail
<1> HIDE DEF h
<1>4. /\ queue' \in Seq(Jobs) /\ Len(queue') <= QueueCap
      /\ source' \in [Jobs -> Jobs \union {NoJob}] /\ starts' \in 0..MaxStarts
      /\ {started', closing', pumping'} \subseteq BOOLEAN
      /\ faults' \in 0..MaxFaults
  BY <1>1, <1>2, <1>3, Numbers DEF IInv, TypeOK
<1>5. \A j \in Jobs : /\ fate[j] \in Open <=> j \in Queued(queue) \/ Holds(j)
                      /\ ~(j \in Queued(queue) /\ Holds(j))
  BY <1>1, HeldOnce DEF IInv
<1>6. Current' = Current /\ InService' /\ Pumped'
  BY <1>2 DEF Current, InService, Pumped
<1>7. CASE /\ fate' = [fate EXCEPT ![h] = "timeout"]
           /\ UNCHANGED <<slot, posted>>
  <2>1. TypeOK'
    BY <1>1, <1>3, <1>4, <1>7 DEF TypeOK, Outcomes
  <2>2. \A s \in Slots : SlotOK(s)'
    BY <1>2, <1>6, <1>7 DEF IInv, SlotOK
  <2>3. Hope'
    BY <1>2, <1>6, <1>7 DEF IInv, Hope
  <2>4. JobsHeldOnce'
    <3>1. Apart' /\ \A j \in Jobs : Holds(j)' <=> Holds(j)
      BY <1>1, <1>7 DEF Apart, Holds
    <3>2. \A j \in Jobs : /\ fate'[j] \in Open <=> j \in Queued(queue') \/ Holds(j)
                          /\ ~(j \in Queued(queue') /\ Holds(j))
      BY <1>1, <1>2, <1>3, <1>5, <1>7 DEF Open
    <3> QED BY <1>2, <1>3, <2>1, <3>1, <3>2, HeldOnceNext
  <2>5. AnswersAreOwn'
    BY <1>1, <1>2, <1>3, <1>7 DEF IInv, AnswersAreOwn
  <2> QED BY <1>6, <2>1, <2>2, <2>3, <2>4, <2>5 DEF IInv
<1>8. CASE /\ UNCHANGED fate
           /\ \E s \in Free :
                /\ slot' = [slot EXCEPT ![s].state = "busy", ![s].job = h]
                /\ posted' = posted \union {<<s, slot[s].gen, h>>}
  <2> PICK s \in Free :
        /\ slot' = [slot EXCEPT ![s].state = "busy", ![s].job = h]
        /\ posted' = posted \union {<<s, slot[s].gen, h>>}
    BY <1>8
  <2>1. /\ s \in Slots /\ s \in Current /\ s[1] <= starts
        /\ slot[s] \in SlotType /\ slot[s].thread /\ slot[s].job = NoJob
        /\ slot[s].term = "no" /\ ~slot[s].timer
    BY FreeSlot
  <2> DEFINE t == [slot[s] EXCEPT !.state = "busy", !.job = h]
  <2>2. /\ t \in SlotType /\ t.state = "busy" /\ t.job = h /\ t.thread
        /\ t.term = "no" /\ ~t.timer
    BY <1>3, <2>1 DEF SlotType
  <2>3. slot' = [slot EXCEPT ![s] = t]
    BY <1>1, <2>1
  <2> HIDE DEF t
  <2>4. Sound(t) /\ Promising(t) /\ h # NoJob
    BY <1>1, <1>3, <2>2 DEF Sound, Promising
  <2>5. /\ slot'[s] = t /\ \A o \in Slots \ {s} : slot'[o] = slot[o]
        /\ slot' \in [Slots -> SlotType]
    BY <1>1, <2>1, <2>2, <2>3
  <2>6. posted' \in SUBSET Requests
    BY <1>1, <1>3, <2>1 DEF Requests, SlotType
  <2>7. TypeOK'
    BY <1>1, <1>4, <1>8, <2>5, <2>6 DEF TypeOK
  <2>8. ASSUME NEW o \in Slots PROVE SlotOK(o)'
    <3>1. CASE o = s
      <4>1. ~(s[1] > starts)
        <5>1. s[1] \in Nat
          BY <1>1, <2>1, Numbers DEF Slots
        <5> QED BY <1>1, <2>1, <5>1, Numbers
      <4> QED BY <1>2, <1>6, <2>1, <2>4, <2>5, <3>1, <4>1 DEF SlotOK
    <3>2. CASE o # s
      BY <1>2, <1>6, <2>5, <3>2 DEF IInv, SlotOK
    <3> QED BY <3>1, <3>2
  <2>9. Hope'
    BY <1>6, <2>1, <2>4, <2>5 DEF Hope
  <2>10. JobsHeldOnce'
    <3>1. ~Holds(h) /\ fate[h] \in Open
      BY <1>3, <1>5
    <3>2. Apart'
      BY <1>1, <2>1, <2>2, <2>5, <3>1 DEF Apart, Holds
    <3>3. \A j \in Jobs : Holds(j)' <=> Holds(j) \/ j = h
      BY <1>1, <2>1, <2>2, <2>5 DEF Holds
    <3>4. \A j \in Jobs : /\ fate[j] \in Open <=> j \in Queued(queue') \/ Holds(j)'
                          /\ ~(j \in Queued(queue') /\ Holds(j)')
      BY <1>2, <1>3, <1>5, <3>1, <3>3
    <3> QED BY <1>2, <1>3, <1>8, <2>7, <3>2, <3>4, HeldOnceNext
  <2>11. AnswersAreOwn'
    BY <1>2, <1>8 DEF IInv, AnswersAreOwn
  <2> QED BY <1>6, <2>7, <2>8, <2>9, <2>10, <2>11 DEF IInv
<1> QED BY <1>7, <1>8 DEF PumpTakes, h

LEMMA ShutdownInv ==
  ASSUME IInv, Shutdown PROVE IInv'
<1>1. /\ TypeOK /\ Apart /\ NoJob \notin Jobs /\ fate \in [Jobs -> Fates]
      /\ slot \in [Slots -> SlotType]
  BY HeldOnce, Numbers DEF IInv, TypeOK, Fates
<1>2. /\ fate' = [j \in Jobs |-> IF j \in Queued(queue) \union Running
                                 THEN "shutdown" ELSE fate[j]]
      /\ queue' = <<>> /\ closing' = TRUE
      /\ slot' = [s \in Slots |-> IF s \in Current THEN Dropped(slot[s])
                                  ELSE slot[s]]
      /\ UNCHANGED <<source, starts, started, pumping, posted, faults>>
  BY DEF Shutdown
<1>3. ASSUME NEW s \in Slots
      PROVE  slot'[s] \in SlotType /\ Sound(slot'[s]) /\ slot'[s].job = NoJob
  <2>1. slot[s] \in SlotType /\ SlotOK(s)
    BY <1>1 DEF IInv
  <2>2. CASE s \in Current
    <3>1. slot'[s] = Dropped(slot[s])
      BY <1>2, <2>2
    <3>2. /\ slot'[s] \in SlotType /\ slot'[s].job = NoJob
          /\ slot'[s].state = "dead" /\ slot'[s].thread = FALSE
          /\ slot'[s].timer = FALSE /\ slot'[s].stopping = TRUE
      BY <2>1, <3>1 DEF Dropped, SlotType
    <3> QED BY <3>2 DEF Sound
  <2>3. CASE s \notin Current
    BY <1>2, <2>1, <2>3 DEF SlotOK
  <2> QED BY <2>2, <2>3
<1>4. /\ fate' \in [Jobs -> Fates] /\ slot' \in [Slots -> SlotType]
      /\ queue' \in Seq(Jobs) /\ Len(queue') <= QueueCap /\ queue' = <<>>
  BY <1>1, <1>2, <1>3, QueuedNone, Numbers DEF Fates, Outcomes
<1>5. TypeOK'
  BY <1>1, <1>2, <1>4 DEF TypeOK, Fates
<1>6. Current' = Current
  BY <1>2 DEF Current
<1>7. ASSUME NEW s \in Slots PROVE SlotOK(s)'
  <2>1. s[1] > starts => slot'[s] = Unused
    <3>1. s \in Current => ~(s[1] > starts)
      BY <1>1, Numbers DEF Current
    <3> QED BY <1>2, <3>1 DEF IInv, SlotOK
  <2> QED BY <1>2, <1>3, <2>1 DEF SlotOK
<1>8. InService' /\ Hope' /\ Pumped'
  BY <1>2 DEF InService, Hope, Pumped
<1>9. JobsHeldOnce'
  <2>1. \A j \in Jobs : j \notin Queued(queue') /\ ~Holds(j)'
    BY <1>1, <1>2, <1>3, QueuedNone DEF Holds
  <2>2. Apart'
    BY <1>3 DEF Apart
  <2>3. ASSUME NEW j \in Jobs, fate[j] \in Open
        PROVE  j \in Queued(queue) \union Running
    <3>1. j \in Queued(queue) \/ Holds(j)
      BY <1>1, <2>3, HeldOnce DEF IInv
    <3>2. ASSUME NEW s \in Slots, slot[s].job = j PROVE j \in Running
      BY <1>1, <3>2 DEF IInv, SlotOK, Running
    <3> QED BY <3>1, <3>2 DEF Holds
  <2>4. \A j \in Jobs : fate'[j] \notin Open
    BY <1>2, <2>3 DEF Open
  <2> QED BY <1>2, <1>5, <2>1, <2>2, <2>4, HeldOnceNext, QueuedNone
<1>10. AnswersAreOwn'
  BY <1>2 DEF IInv, AnswersAreOwn
<1> QED BY <1>5, <1>7, <1>8, <1>9, <1>10 DEF IInv

LEMMA ShutdownEndsInv ==
  ASSUME IInv, ShutdownEnds PROVE IInv'
<1>1. /\ closing /\ closing' = FALSE /\ started' = FALSE
      /\ UNCHANGED <<fate, source, queue, slot, starts, pumping, posted, faults>>
  BY DEF ShutdownEnds
<1>2. TypeOK'
  BY <1>1 DEF IInv, TypeOK
<1>3. queue = <<>>
  BY <1>1 DEF IInv, InService
<1>4. \A s \in Slots : SlotOK(s)'
  BY <1>1 DEF IInv, SlotOK
<1>5. InService' /\ Hope' /\ Pumped'
  BY <1>1, <1>3 DEF InService, Hope, Pumped
<1>6. JobsHeldOnce' /\ AnswersAreOwn'
  BY <1>1 DEF IInv, JobsHeldOnce, AnswersAreOwn, Queued
<1> QED BY <1>2, <1>4, <1>5, <1>6 DEF IInv

(* ensureStarted: the slots of the new start were never used.                 *)
LEMMA StartedFacts ==
  ASSUME IInv, EnsureStarted, UNCHANGED closing
  PROVE  /\ starts' \in 0..MaxStarts /\ started' = TRUE /\ faults' \in 0..MaxFaults
         /\ slot' \in [Slots -> SlotType]
         /\ \A s \in Slots : slot'[s].job = slot[s].job /\ SlotOK(s)'
         /\ started \/ queue = <<>>
         /\ started => UNCHANGED <<slot, starts>>
<1>1. TypeOK /\ slot \in [Slots -> SlotType] /\ starts \in 0..MaxStarts
      /\ faults \in 0..MaxFaults
  BY DEF IInv, TypeOK
<1>2. started \/ queue = <<>>
  BY DEF IInv, InService
<1>3. CASE started /\ UNCHANGED <<slot, starts, started, faults>>
  BY <1>1, <1>2, <1>3 DEF IInv, SlotOK, Current
<1>4. CASE /\ ~started
           /\ starts < MaxStarts
           /\ started' = TRUE
           /\ starts' = starts + 1
           /\ \E up \in SUBSET (1..Workers) :
                /\ faults' = faults + Cardinality((1..Workers) \ up)
                /\ faults' <= MaxFaults
                /\ slot' = Started(up)
  <2> PICK up \in SUBSET (1..Workers) :
           /\ faults' = faults + Cardinality((1..Workers) \ up)
           /\ faults' <= MaxFaults
           /\ slot' = Started(up)
    BY <1>4
  <2>1. starts' \in 0..MaxStarts /\ starts \in Nat
    BY <1>1, <1>4, Numbers
  <2>2. faults' \in 0..MaxFaults
    <3>1. IsFiniteSet(1..Workers)
      BY <1>1, Numbers, FS_Interval
    <3>2. Cardinality((1..Workers) \ up) \in Nat
      BY <3>1, FS_Subset, FS_CardinalityType
    <3> QED BY <1>1, <3>2, Numbers
  <2>3. /\ Unused \in SlotType /\ Sound(Unused) /\ ~Unused.thread
        /\ Unused.term = "no" /\ Unused.job = NoJob
    BY <1>1, Numbers, UnusedFacts
  <2> DEFINE u == Up(Unused)
             d == Down(Unused)
             w == [d EXCEPT !.state = "restarting", !.timer = TRUE]
  <2>4. /\ u \in SlotType /\ Sound(u) /\ u.job = NoJob
        /\ d \in SlotType /\ d.job = NoJob /\ d.thread = FALSE /\ d.term = "no"
    BY <2>3, FreshThread
  <2> HIDE DEF d, u
  <2>5. /\ w \in SlotType /\ w.job = NoJob /\ w.thread = FALSE /\ w.term = "no"
        /\ w.state = "restarting"
    BY <2>4 DEF SlotType
  <2> HIDE DEF w
  <2>6. Sound(w)
    BY <2>5 DEF Sound
  <2>7. slot' = [s \in Slots |-> IF s[1] # starts + 1 THEN slot[s]
                                 ELSE IF s[2] \in up THEN u ELSE w]
    BY DEF Started, u, w, d
  <2>8. ASSUME NEW s \in Slots
        PROVE  /\ slot'[s] \in SlotType
               /\ slot'[s].job = slot[s].job /\ SlotOK(s)'
    <3>1. SlotOK(s) /\ s[1] \in Nat /\ slot[s] \in SlotType
      BY <1>1, Numbers DEF IInv, Slots
    <3>2. CASE s[1] # starts + 1
      <4>1. slot'[s] = slot[s]
        BY <2>7, <3>2
      <4>2. slot[s].job = NoJob
        <5>1. Current = {}
          BY <1>4 DEF Current
        <5> QED BY <3>1, <5>1 DEF SlotOK
      <4>3. s[1] > starts' => s[1] > starts
        BY <1>4, <2>1, <3>1
      <4> QED BY <3>1, <4>1, <4>2, <4>3 DEF SlotOK
    <3>3. CASE s[1] = starts + 1
      <4>1. slot[s] = Unused /\ ~(s[1] > starts')
        BY <1>4, <2>1, <3>1, <3>3 DEF SlotOK
      <4>2. slot'[s] \in {u, w}
        BY <2>7, <3>3
      <4> QED BY <2>3, <2>4, <2>5, <2>6, <4>1, <4>2 DEF SlotOK
    <3> QED BY <3>2, <3>3
  <2>9. slot' \in [Slots -> SlotType]
    BY <2>7, <2>8
  <2> QED BY <1>2, <1>4, <2>1, <2>2, <2>8, <2>9
<1> QED BY <1>3, <1>4 DEF EnsureStarted

(* A call that is refused, before or after the pool was started.              *)
LEMMA RefuseInv ==
  ASSUME IInv, NEW j \in Jobs, fate[j] = "new", ~pumping,
         NEW why \in Outcomes \ {"result"}, Refuse(j, why),
         UNCHANGED <<source, closing, posted>>,
         EnsureStarted \/ UNCHANGED <<slot, starts, started, faults>>
  PROVE  IInv'
<1>1. /\ TypeOK /\ Apart /\ Distinct(queue) /\ fate \in [Jobs -> Fates]
  BY HeldOnce DEF IInv, TypeOK, Fates
<1>2. /\ fate' = [fate EXCEPT ![j] = why] /\ UNCHANGED <<queue, pumping>>
      /\ fate' \in [Jobs -> Fates]
  BY <1>1 DEF Refuse, Fates, Outcomes
<1>3. \A i \in Jobs : /\ fate'[i] \in Open <=> fate[i] \in Open
                      /\ fate'[i] = "result" => fate[i] = "result"
  BY <1>1, <1>2 DEF Open, Outcomes
<1>4. CASE UNCHANGED <<slot, starts, started, faults>>
  <2>1. /\ posted' \in SUBSET Requests /\ faults' \in 0..MaxFaults
        /\ pumping' \in BOOLEAN /\ ~pumping'
    BY <1>1, <1>2, <1>4 DEF TypeOK
  <2>2. UNCHANGED <<queue, slot, starts, started, closing, source>>
    BY <1>2, <1>4
  <2> QED BY <1>2, <1>3, <2>1, <2>2, QuietStep
<1>5. CASE EnsureStarted
  <2>1. /\ starts' \in 0..MaxStarts /\ started' = TRUE /\ faults' \in 0..MaxFaults
        /\ slot' \in [Slots -> SlotType]
        /\ \A s \in Slots : slot'[s].job = slot[s].job /\ SlotOK(s)'
        /\ started \/ queue = <<>>
        /\ started => UNCHANGED <<slot, starts>>
    BY <1>5, StartedFacts
  <2>2. TypeOK'
    BY <1>1, <1>2, <2>1 DEF TypeOK, Fates
  <2>3. started => Current' = Current /\ Free' = Free
    BY <1>5, <2>1 DEF Current, Free
  <2>4. InService' /\ Hope' /\ Pumped'
    BY <1>2, <2>1, <2>3 DEF IInv, InService, Hope, Pumped
  <2>5. JobsHeldOnce'
    BY <1>2, <1>3, <2>1 DEF IInv, JobsHeldOnce, Queued
  <2>6. AnswersAreOwn'
    BY <1>3 DEF IInv, AnswersAreOwn
  <2> QED BY <2>1, <2>2, <2>4, <2>5, <2>6 DEF IInv
<1> QED BY <1>4, <1>5

LEMMA DispatchInv ==
  ASSUME IInv, NEW j \in Jobs, Dispatch(j) PROVE IInv'
<1>1. /\ TypeOK /\ Apart /\ Distinct(queue) /\ fate \in [Jobs -> Fates]
      /\ queue \in Seq(Jobs) /\ fate[j] = "new" /\ ~pumping
      /\ UNCHANGED <<source, closing, posted>>
  BY HeldOnce DEF IInv, TypeOK, Fates, Dispatch
<1>2. CASE \E why \in Outcomes \ {"result"} :
             /\ Refuse(j, why)
             /\ EnsureStarted \/ UNCHANGED <<slot, starts, started, faults>>
  BY <1>1, <1>2, RefuseInv
<1>3. CASE /\ ~closing
           /\ EnsureStarted
           /\ \E s \in Slots : /\ s[1] = starts'
                               /\ slot'[s].state \in {"idle", "busy"}
           /\ Len(queue) < QueueCap
           /\ fate' = [fate EXCEPT ![j] = "waiting"]
           /\ queue' = Append(queue, j)
           /\ pumping' = TRUE
  <2>1. /\ starts' \in 0..MaxStarts /\ started' = TRUE /\ faults' \in 0..MaxFaults
        /\ slot' \in [Slots -> SlotType]
        /\ \A s \in Slots : slot'[s].job = slot[s].job /\ SlotOK(s)'
    BY <1>1, <1>3, StartedFacts
  <2>2. j \notin Queued(queue) /\ ~Holds(j)
    BY <1>1, HeldOnce DEF IInv, Open
  <2>3. /\ queue' \in Seq(Jobs) /\ Len(queue') = Len(queue) + 1
        /\ Queued(queue') = Queued(queue) \union {j} /\ Distinct(queue')
    BY <1>1, <1>3, <2>2, QueuedAppend
  <2>4. Len(queue') <= QueueCap
    BY <1>1, <1>3, <2>3, Numbers
  <2>5. fate' \in [Jobs -> Fates]
    BY <1>1, <1>3 DEF Fates, Open
  <2>6. TypeOK'
    BY <1>1, <1>3, <2>1, <2>3, <2>4, <2>5 DEF TypeOK, Fates
  <2>7. InService' /\ Pumped'
    BY <1>1, <1>3, <2>1 DEF InService, Pumped
  <2>8. Hope'
    <3> PICK s \in Slots : s[1] = starts' /\ slot'[s].state \in {"idle", "busy"}
      BY <1>3
    <3>1. s \in Current'
      BY <2>1 DEF Current
    <3>2. Sound(slot'[s])
      BY <2>1 DEF SlotOK
    <3>3. Promising(slot'[s])
      BY <3>2 DEF Sound, Promising
    <3> QED BY <3>1, <3>3 DEF Hope
  <2>9. JobsHeldOnce'
    <3>1. Apart' /\ \A i \in Jobs : Holds(i)' <=> Holds(i)
      BY <1>1, <2>1 DEF Apart, Holds
    <3>2. \A i \in Jobs : /\ fate'[i] \in Open <=> i \in Queued(queue') \/ Holds(i)
                          /\ ~(i \in Queued(queue') /\ Holds(i))
      <4>1. \A i \in Jobs : /\ fate[i] \in Open <=> i \in Queued(queue) \/ Holds(i)
                            /\ ~(i \in Queued(queue) /\ Holds(i))
        BY <1>1, HeldOnce DEF IInv
      <4> QED BY <1>1, <1>3, <2>2, <2>3, <4>1 DEF Open
    <3> QED BY <2>3, <2>6, <3>1, <3>2, HeldOnceNext
  <2>10. AnswersAreOwn'
    BY <1>1, <1>3 DEF IInv, AnswersAreOwn
  <2> QED BY <2>1, <2>6, <2>7, <2>8, <2>9, <2>10 DEF IInv
<1>4. \/ Refuse(j, "shutdown") /\ UNCHANGED <<slot, starts, started, faults>>
      \/ Refuse(j, "timeout") /\ UNCHANGED <<slot, starts, started, faults>>
      \/ EnsureStarted /\ Refuse(j, "unavailable")
      \/ EnsureStarted /\ Refuse(j, "queue_full")
      \/ /\ ~closing
         /\ EnsureStarted
         /\ \E s \in Slots : /\ s[1] = starts'
                             /\ slot'[s].state \in {"idle", "busy"}
         /\ Len(queue) < QueueCap
         /\ fate' = [fate EXCEPT ![j] = "waiting"]
         /\ queue' = Append(queue, j)
         /\ pumping' = TRUE
  BY DEF Dispatch
<1>5. {"shutdown", "timeout", "unavailable", "queue_full"} \subseteq Outcomes \ {"result"}
  BY DEF Outcomes
<1> QED BY <1>2, <1>3, <1>4, <1>5

LEMMA NextInv == IInv /\ [Next]_vars => IInv'
<1> SUFFICES ASSUME IInv, [Next]_vars PROVE IInv'
  OBVIOUS
<1>1. CASE UNCHANGED vars
  <2>1. /\ fate' \in [Jobs -> Fates] /\ posted' \in SUBSET Requests
        /\ faults' \in 0..MaxFaults /\ pumping' \in BOOLEAN
    BY <1>1 DEF IInv, TypeOK, Fates, vars
  <2> QED BY <1>1, <2>1, QuietStep DEF vars
<1>2. CASE \E j \in Jobs : Dispatch(j) \/ TimePasses(j)
  BY <1>2, DispatchInv, TimePassesInv
<1>3. CASE PumpTakes \/ PumpPostFails \/ PumpEnds
  BY <1>3, PumpTakesInv, PumpPostFailsInv, PumpEndsInv
<1>4. CASE \E s \in Slots : ThreadFails(s) \/ JobTimesOut(s) \/ TerminateDone(s)
                                           \/ RestartTimer(s)
  BY <1>4, ThreadFailsInv, JobTimesOutInv, TerminateDoneInv, RestartTimerInv
<1>5. CASE \E m \in posted : Answer(m[1], m[2], m[3])
  BY <1>5, AnswerInv
<1>6. CASE Shutdown \/ ShutdownEnds
  BY <1>6, ShutdownInv, ShutdownEndsInv
<1> QED BY <1>1, <1>2, <1>3, <1>4, <1>5, <1>6 DEF Next

(* The inductive invariant holds throughout.                                 *)
THEOREM Invariance == Spec => []IInv
BY InitInv, NextInv, PTL DEF Spec

-----------------------------------------------------------------------------
(* The properties.                                                           *)

(* Every reachable state of the pool is a record of known parts: the queue    *)
(* keeps its bound, and no thread serves more jobs than it is allowed.        *)
THEOREM TypeCorrect == Spec => []TypeOK
<1>1. IInv => TypeOK
  BY DEF IInv
<1> QED BY <1>1, Invariance, PTL

(* An open promise belongs to a job in the queue or in one slot, a settled    *)
(* one to none, whatever threads, timers and shutdowns do.                    *)
THEOREM HoldsJobsOnce == Spec => []JobsHeldOnce
<1>1. IInv => JobsHeldOnce
  BY DEF IInv
<1> QED BY <1>1, Invariance, PTL

(* A job that waits between two turns of the event loop waits for no idle     *)
(* thread, and for a slot from which something will come.                     *)
THEOREM NeverWedges == Spec => []NeverWedged
<1>1. IInv => NeverWedged
  <2> SUFFICES ASSUME IInv, ~pumping, queue # <<>>
               PROVE  /\ Free = {}
                      /\ \E s \in Current :
                           \/ slot[s].state = "busy" /\ slot[s].job # NoJob
                           \/ slot[s].timer
                           \/ slot[s].term \in {"recycle", "timeout"}
    BY DEF NeverWedged
  <2>1. Free = {}
    BY DEF IInv, Pumped
  <2>2. PICK s \in Current : Promising(slot[s])
    BY DEF IInv, Hope
  <2>3. slot[s].state # "idle"
    <3>1. SlotOK(s) /\ s \in Slots
      BY DEF IInv, Current
    <3> QED BY <2>1, <2>2, <3>1 DEF SlotOK, Sound, Free
  <2> QED BY <2>1, <2>2, <2>3 DEF Promising
<1> QED BY <1>1, Invariance, PTL

(* No slot ever gets a thread while it has one, or one is being terminated.   *)
THEOREM KeepsOneThreadPerSlot == Spec => []OneThreadPerSlot
<1>1. IInv => OneThreadPerSlot
  BY DEF IInv, SlotOK, Sound, OneThreadPerSlot
<1> QED BY <1>1, Invariance, PTL

(* No promise is resolved with the answer to another job.                     *)
THEOREM AnswersOwnJob == Spec => []AnswersAreOwn
<1>1. IInv => AnswersAreOwn
  BY DEF IInv
<1> QED BY <1>1, Invariance, PTL

-----------------------------------------------------------------------------
(* The implementation of PoolPromise.                                        *)

LEMMA InitImplements == Init => Promise!Init
BY DEF Init, Promise!Init, Promised, Open

LEMMA SettledImplements ==
  ASSUME Settled PROVE Promise!Next
<1> DEFINE S == {j \in Jobs : fate'[j] # fate[j]}
           o == [j \in S |-> fate'[j]]
<1>1. \A j \in S : fate[j] \in Open /\ fate'[j] \in Outcomes /\ fate'[j] \notin Open
  BY DEF Settled, Open, Outcomes
<1>2. o \in [S -> Outcomes] /\ S \in SUBSET Jobs
  BY <1>1
<1>3. \A j \in S : Promised[j] = "waiting"
  BY <1>1 DEF Promised
<1>4. \A j \in Jobs : Promised'[j] = IF j \in S THEN o[j] ELSE Promised[j]
  BY <1>1 DEF Promised
<1>5. Promised' = [j \in Jobs |-> IF j \in S THEN o[j] ELSE Promised[j]]
  BY <1>4 DEF Promised
<1>6. Promise!Settle(S)
  BY <1>2, <1>3, <1>5 DEF Promise!Settle, Promised
<1> QED BY <1>2, <1>6 DEF Promise!Next

LEMMA DispatchImplements ==
  ASSUME IInv, NEW j \in Jobs, Dispatch(j) PROVE Promise!Next
<1>1. fate \in [Jobs -> Fates] /\ fate[j] = "new" /\ Promised[j] = "new"
  BY DEF IInv, TypeOK, Fates, Dispatch, Promised, Open
<1>2. \/ \E why \in Outcomes : fate' = [fate EXCEPT ![j] = why]
      \/ fate' = [fate EXCEPT ![j] = "waiting"]
  BY DEF Dispatch, Refuse, Outcomes
<1>3. ASSUME NEW why \in Outcomes, fate' = [fate EXCEPT ![j] = why]
      PROVE  Promise!Next
  <2>1. why \notin Open
    BY DEF Outcomes, Open
  <2>2. Promised' = [Promised EXCEPT ![j] = why]
    BY <1>1, <1>3, <2>1 DEF Promised
  <2>3. Promise!Refuse(j)
    BY <1>1, <2>2 DEF Promise!Refuse, Promised
  <2> QED BY <2>3 DEF Promise!Next
<1>4. ASSUME fate' = [fate EXCEPT ![j] = "waiting"]
      PROVE  Promise!Next
  <2>1. Promised' = [Promised EXCEPT ![j] = "waiting"]
    BY <1>1, <1>4 DEF Promised, Open
  <2>2. Promise!Accept(j)
    BY <1>1, <2>1 DEF Promise!Accept, Promised
  <2> QED BY <2>2 DEF Promise!Next
<1> QED BY <1>2, <1>3, <1>4

LEMMA TimePassesImplements ==
  ASSUME IInv, NEW j \in Jobs, TimePasses(j) PROVE UNCHANGED Promise!vars
<1>1. /\ fate \in [Jobs -> Fates] /\ fate[j] = "waiting"
      /\ fate' = [fate EXCEPT ![j] = "overdue"]
  BY DEF IInv, TypeOK, Fates, TimePasses
<1>2. Promised' = Promised
  BY <1>1 DEF Promised, Open
<1> QED BY <1>2 DEF Promise!vars, Promised

LEMMA PumpTakesSettles ==
  ASSUME IInv, PumpTakes PROVE Settled
<1>1. /\ TypeOK /\ queue \in Seq(Jobs) /\ fate \in [Jobs -> Fates] /\ queue # <<>>
      /\ Head(queue) \in Jobs
  BY DEF IInv, TypeOK, Fates, PumpTakes
<1>2. CASE UNCHANGED fate
  BY <1>2 DEF Settled
<1>3. CASE /\ fate[Head(queue)] = "overdue"
           /\ fate' = [fate EXCEPT ![Head(queue)] = "timeout"]
  BY <1>1, <1>3 DEF Settled, Open, Outcomes
<1> QED BY <1>2, <1>3 DEF PumpTakes

LEMMA ShutdownSettles ==
  ASSUME IInv, Shutdown PROVE Settled
<1>1. TypeOK
  BY DEF IInv
<1>2. fate' = [j \in Jobs |-> IF j \in Queued(queue) \union Running
                              THEN "shutdown" ELSE fate[j]]
  BY DEF Shutdown
<1>3. ASSUME NEW j \in Jobs, j \in Queued(queue) \union Running
      PROVE  fate[j] \in Open
  <2>1. fate[j] \in Open <=> j \in Queued(queue) \/ Holds(j)
    BY <1>1, HeldOnce DEF IInv
  <2>2. j \in Running => Holds(j)
    BY DEF Running, Holds, Current
  <2> QED BY <1>3, <2>1, <2>2
<1> QED BY <1>2, <1>3 DEF Settled, Outcomes

LEMMA NextImplements ==
  IInv /\ [Next]_vars => Promise!Next \/ UNCHANGED Promise!vars
<1> SUFFICES ASSUME IInv, [Next]_vars
             PROVE  Promise!Next \/ UNCHANGED Promise!vars
  OBVIOUS
<1>1. ASSUME Settled PROVE Promise!Next
  BY <1>1, SettledImplements
<1>2. ASSUME UNCHANGED fate PROVE Settled
  BY <1>2 DEF Settled
<1>3. CASE UNCHANGED vars
  BY <1>1, <1>2, <1>3 DEF vars
<1>4. CASE \E j \in Jobs : Dispatch(j) \/ TimePasses(j)
  BY <1>4, DispatchImplements, TimePassesImplements
<1>5. CASE PumpTakes \/ PumpPostFails
  BY <1>1, <1>5, PumpTakesSettles, PumpPostFailsInv
<1>6. CASE \E s \in Slots : ThreadFails(s) \/ JobTimesOut(s) \/ TerminateDone(s)
                                           \/ RestartTimer(s)
  BY <1>1, <1>6, ThreadFailsInv, JobTimesOutInv, TerminateDoneInv, RestartTimerInv
<1>7. CASE \E m \in posted : Answer(m[1], m[2], m[3])
  BY <1>1, <1>7, AnswerInv
<1>8. CASE Shutdown
  BY <1>1, <1>8, ShutdownSettles
<1>9. CASE PumpEnds \/ ShutdownEnds
  BY <1>1, <1>2, <1>9 DEF PumpEnds, ShutdownEnds
<1> QED BY <1>3, <1>4, <1>5, <1>6, <1>7, <1>8, <1>9 DEF Next

(* The pool implements what PoolPromise promises, but for the settling in the *)
(* end, which rests on timers and terminate().                                *)
THEOREM ImplementsPromise == Spec => Promise!Safety
BY InitImplements, NextImplements, Invariance, PTL DEF Spec, Promise!Safety

-----------------------------------------------------------------------------
(* What was asked of threads.                                                *)

(* A request that was posted and not answered is for a job that left the      *)
(* queue; the thread it was posted to, while it lives, works on that job.     *)
(* No job was posted twice, and no thread has two requests to answer.         *)
Requested ==
  /\ \A m \in posted :
       /\ m[2] <= slot[m[1]].gen
       /\ m[3] \notin Queued(queue) /\ fate[m[3]] # "new"
       /\ slot[m[1]].thread /\ slot[m[1]].gen = m[2] => slot[m[1]].job = m[3]
  /\ \A m, n \in posted :
       m[3] = n[3] \/ (m[1] = n[1] /\ m[2] = n[2]) => m = n

(* A step leaves a slot its thread and that thread its job, or takes the      *)
(* thread away; a new thread is of a later generation.                        *)
Kept(s) ==
  \/ slot'[s].gen > slot[s].gen
  \/ /\ slot'[s].gen = slot[s].gen
     /\ slot'[s].thread => slot[s].thread /\ slot'[s].job = slot[s].job

(* A step that asks nothing and queues nothing.                              *)
AsksNothing ==
  /\ posted' \subseteq posted
  /\ \A j \in Queued(queue') : j \in Queued(queue)
  /\ \A s \in Slots : Kept(s)

LEMMA RequestTypes ==
  ASSUME IInv, NEW m \in posted
  PROVE  /\ m[1] \in Slots /\ m[2] \in Nat /\ m[3] \in Jobs
         /\ m = <<m[1], m[2], m[3]>>
         /\ slot[m[1]] \in SlotType /\ slot[m[1]].gen \in Nat
BY DEF IInv, TypeOK, Requests, SlotType

LEMMA RequestedKept ==
  ASSUME IInv, IInv', Requested, posted' \subseteq posted,
         \A s \in Slots : Kept(s),
         \A m \in posted : m[3] \notin Queued(queue') /\ fate'[m[3]] # "new"
  PROVE  Requested'
<1>1. ASSUME NEW m \in posted'
      PROVE  /\ m[2] <= slot'[m[1]].gen
             /\ m[3] \notin Queued(queue') /\ fate'[m[3]] # "new"
             /\ slot'[m[1]].thread /\ slot'[m[1]].gen = m[2]
                => slot'[m[1]].job = m[3]
  <2>1. m \in posted
    OBVIOUS
  <2>2. /\ m[1] \in Slots /\ m[2] \in Nat /\ slot[m[1]].gen \in Nat
        /\ m[2] <= slot[m[1]].gen
        /\ slot[m[1]].thread /\ slot[m[1]].gen = m[2] => slot[m[1]].job = m[3]
    BY <2>1, RequestTypes DEF Requested
  <2>3. slot'[m[1]].gen \in Nat /\ Kept(m[1])
    BY <2>2 DEF IInv, TypeOK, SlotType
  <2> DEFINE g == slot[m[1]].gen
             h == slot'[m[1]].gen
             k == m[2]
  <2>4. g \in Nat /\ h \in Nat /\ k \in Nat /\ k <= g /\ (h > g \/ h = g)
    BY <2>2, <2>3 DEF Kept
  <2> HIDE DEF g, h, k
  <2>5. k <= h /\ (h = k => h = g)
    BY <2>4
  <2>6. h = k => ~(h > g)
    BY <2>4
  <2> QED BY <2>1, <2>2, <2>3, <2>5, <2>6 DEF Kept, g, h, k
<1>2. \A m, n \in posted' : m[3] = n[3] \/ (m[1] = n[1] /\ m[2] = n[2]) => m = n
  BY DEF Requested
<1> QED BY <1>1, <1>2 DEF Requested

LEMMA AsksNothingKeeps ==
  ASSUME IInv, IInv', Requested, Settled, AsksNothing PROVE Requested'
<1>1. ASSUME NEW m \in posted
      PROVE  m[3] \notin Queued(queue') /\ fate'[m[3]] # "new"
  <2>1. m[3] \in Jobs
    BY RequestTypes
  <2>2. m[3] \notin Queued(queue) /\ fate[m[3]] # "new"
    BY DEF Requested
  <2> QED BY <2>1, <2>2 DEF Settled, AsksNothing, Outcomes
<1> QED BY <1>1, RequestedKept DEF AsksNothing

(* A step of one slot.                                                       *)
LEMMA OneSlotKept ==
  ASSUME IInv, NEW s \in Slots, NEW t, slot' = [slot EXCEPT ![s] = t],
         t.gen > slot[s].gen \/ (t.gen = slot[s].gen /\ ~t.thread)
  PROVE  \A o \in Slots : Kept(o)
<1>1. slot'[s] = t /\ \A o \in Slots \ {s} : slot'[o] = slot[o]
  BY DEF IInv, TypeOK
<1> QED BY <1>1 DEF Kept

LEMMA RestartAsksNothing ==
  ASSUME IInv, NEW s \in Slots, NEW r \in SlotType, ~r.thread,
         r.gen = slot[s].gen \/ r.gen > slot[s].gen,
         NEW f, NEW q, ScheduleRestart(s, r, f, q), UNCHANGED posted,
         \A j \in Queued(q) : j \in Queued(queue)
  PROVE  AsksNothing
<1>1. \E t : /\ slot' = [slot EXCEPT ![s] = t]
             /\ t.gen = r.gen /\ ~t.thread
  <2>1. CASE slot' = [slot EXCEPT ![s] = r]
    BY <2>1
  <2>2. CASE slot' = [slot EXCEPT ![s] = [r EXCEPT !.state = "restarting",
                                                   !.timer = TRUE]]
    <3> DEFINE t == [r EXCEPT !.state = "restarting", !.timer = TRUE]
    <3>1. t.gen = r.gen /\ t.thread = r.thread
      BY DEF SlotType
    <3>2. slot' = [slot EXCEPT ![s] = t]
      BY <2>2
    <3> HIDE DEF t
    <3> QED BY <3>1, <3>2
  <2> QED BY <2>1, <2>2 DEF ScheduleRestart
<1>2. queue' = q \/ queue' = <<>>
  BY DEF ScheduleRestart
<1>3. \A o \in Slots : Kept(o)
  BY <1>1, OneSlotKept
<1> QED BY <1>2, <1>3, QueuedNone DEF AsksNothing

LEMMA StartAsksNothing ==
  ASSUME IInv, NEW s \in Slots, NEW r \in SlotType, ~r.thread,
         r.gen = slot[s].gen, StartSlot(s, r), UNCHANGED posted
  PROVE  AsksNothing
<1>1. /\ r.gen \in Nat /\ Starting(r).gen = r.gen + 1
      /\ Up(r).gen = r.gen + 1 /\ Down(r).gen = r.gen + 1
      /\ Down(r).thread = FALSE /\ Down(r) \in SlotType
  <2> DEFINE n == r.gen + 1
             v == Starting(r)
  <2>1. r.gen \in Nat /\ n \in Nat
    BY DEF SlotType
  <2>2. v = [r EXCEPT !.timer = FALSE, !.gen = n, !.stopping = FALSE]
    BY DEF Starting
  <2> HIDE DEF n, v
  <2>3. v \in SlotType /\ v.gen = n
    BY <2>1, <2>2 DEF SlotType
  <2>4. /\ Up(r) = [v EXCEPT !.thread = TRUE, !.state = "idle"]
        /\ Down(r) = [v EXCEPT !.thread = FALSE, !.state = "dead"]
    BY DEF Up, Down, v
  <2>5. /\ Up(r).gen = n /\ Down(r).gen = n /\ Down(r).thread = FALSE
        /\ Down(r) \in SlotType
    BY <2>3, <2>4 DEF SlotType
  <2> QED BY <2>1, <2>3, <2>5 DEF n, v
<1>2. r.gen + 1 > slot[s].gen
  BY <1>1
<1>3. CASE slot' = [slot EXCEPT ![s] = r] /\ UNCHANGED queue
  <2>1. \A o \in Slots : Kept(o)
    BY <1>3, OneSlotKept
  <2> QED BY <1>3, <2>1 DEF AsksNothing
<1>4. CASE slot' = [slot EXCEPT ![s] = Up(r)] /\ UNCHANGED queue
  <2>1. \A o \in Slots : Kept(o)
    BY <1>1, <1>2, <1>4, OneSlotKept
  <2> QED BY <1>4, <2>1 DEF AsksNothing
<1>5. CASE ScheduleRestart(s, Down(r), fate, queue)
  BY <1>1, <1>2, <1>5, RestartAsksNothing
<1> QED BY <1>3, <1>4, <1>5 DEF StartSlot

LEMMA RestartTimerAsksNothing ==
  ASSUME IInv, NEW s \in Slots, RestartTimer(s) PROVE AsksNothing
<1> DEFINE r == [slot[s] EXCEPT !.timer = FALSE]
<1>1. slot[s] \in SlotType /\ Sound(slot[s]) /\ slot[s].timer
  BY UsedSlot, InUse DEF RestartTimer
<1>2. r \in SlotType /\ ~r.thread /\ r.gen = slot[s].gen
  BY <1>1 DEF Sound, SlotType
<1>3. StartSlot(s, r) /\ UNCHANGED posted
  BY DEF RestartTimer
<1> HIDE DEF r
<1> QED BY <1>2, <1>3, StartAsksNothing

LEMMA TerminateDoneAsksNothing ==
  ASSUME IInv, NEW s \in Slots, TerminateDone(s) PROVE AsksNothing
<1>1. slot[s] \in SlotType /\ Sound(slot[s]) /\ slot[s].term # "no"
  BY UsedSlot, InUse DEF TerminateDone
<1> DEFINE r == [slot[s] EXCEPT !.term = "no"]
           u == [r EXCEPT !.stopping = FALSE]
<1>2. r \in SlotType /\ ~r.thread /\ r.gen = slot[s].gen
  BY <1>1 DEF SlotType, Sound
<1>3. u \in SlotType /\ ~u.thread /\ u.gen = slot[s].gen
  BY <1>1 DEF SlotType, Sound
<1>4. /\ \/ StartSlot(s, u)
         \/ ScheduleRestart(s, u, fate, queue)
         \/ slot' = [slot EXCEPT ![s] = r] /\ UNCHANGED queue
      /\ UNCHANGED posted
  BY DEF TerminateDone
<1> HIDE DEF r, u
<1>5. CASE StartSlot(s, u)
  BY <1>3, <1>4, <1>5, StartAsksNothing
<1>6. CASE ScheduleRestart(s, u, fate, queue)
  BY <1>3, <1>4, <1>6, RestartAsksNothing
<1>7. CASE slot' = [slot EXCEPT ![s] = r] /\ UNCHANGED queue
  <2>1. \A o \in Slots : Kept(o)
    BY <1>2, <1>7, OneSlotKept
  <2> QED BY <1>4, <1>7, <2>1 DEF AsksNothing
<1> QED BY <1>4, <1>5, <1>6, <1>7

LEMMA FailAsksNothing ==
  ASSUME IInv, NEW s \in Slots, NEW f, NEW q, Fail(s, f, q), UNCHANGED posted,
         \A j \in Queued(q) : j \in Queued(queue)
  PROVE  AsksNothing
<1> DEFINE r == [slot[s] EXCEPT !.job = NoJob, !.thread = FALSE,
                                !.state = "restarting"]
<1>1. r \in SlotType /\ ~r.thread /\ r.gen = slot[s].gen
  BY DEF IInv, TypeOK, SlotType
<1>2. ScheduleRestart(s, r, f, q)
  BY DEF Fail
<1> HIDE DEF r
<1> QED BY <1>1, <1>2, RestartAsksNothing

LEMMA JobTimesOutAsksNothing ==
  ASSUME IInv, NEW s \in Slots, JobTimesOut(s) PROVE AsksNothing
<1> DEFINE t == [slot[s] EXCEPT !.job = NoJob, !.thread = FALSE,
                   !.state = "restarting", !.stopping = TRUE, !.term = "timeout"]
<1>1. t.gen = slot[s].gen /\ ~t.thread
  BY DEF IInv, TypeOK, SlotType
<1>2. slot' = [slot EXCEPT ![s] = t] /\ UNCHANGED <<queue, posted>>
  BY DEF JobTimesOut
<1> HIDE DEF t
<1>3. \A o \in Slots : Kept(o)
  BY <1>1, <1>2, OneSlotKept
<1> QED BY <1>2, <1>3 DEF AsksNothing

LEMMA ShutdownAsksNothing ==
  ASSUME IInv, Shutdown PROVE AsksNothing
<1>1. ASSUME NEW s \in Slots PROVE Kept(s)
  <2>1. slot[s] \in SlotType
    BY DEF IInv, TypeOK
  <2>2. slot'[s] = IF s \in Current THEN Dropped(slot[s]) ELSE slot[s]
    BY DEF Shutdown
  <2>3. Dropped(slot[s]).gen = slot[s].gen /\ ~Dropped(slot[s]).thread
    BY <2>1 DEF Dropped, SlotType
  <2> QED BY <2>2, <2>3 DEF Kept
<1> QED BY <1>1, QueuedNone DEF Shutdown, AsksNothing

(* Every step but a call of dispatch, a post and an answer.                   *)
LEMMA OthersAskNothing ==
  ASSUME IInv,
         \/ \E j \in Jobs : TimePasses(j)
         \/ PumpPostFails \/ PumpEnds
         \/ \E s \in Slots : ThreadFails(s) \/ JobTimesOut(s) \/ TerminateDone(s)
                                            \/ RestartTimer(s)
         \/ Shutdown \/ ShutdownEnds
         \/ UNCHANGED vars
  PROVE  AsksNothing
<1>1. ASSUME UNCHANGED <<queue, slot, posted>> PROVE AsksNothing
  BY <1>1 DEF AsksNothing, Kept
<1>2. CASE (\E j \in Jobs : TimePasses(j)) \/ PumpEnds \/ ShutdownEnds
           \/ UNCHANGED vars
  BY <1>1, <1>2 DEF TimePasses, PumpEnds, ShutdownEnds, vars
<1>3. CASE PumpPostFails
  <2>1. PICK s \in Free :
          Fail(s, [fate EXCEPT ![Head(queue)] = "unavailable"], Tail(queue))
    BY <1>3 DEF PumpPostFails
  <2>2. s \in Slots /\ UNCHANGED posted /\ queue # <<>>
    BY <1>3 DEF Free, Current, PumpPostFails
  <2>3. \A j \in Queued(Tail(queue)) : j \in Queued(queue)
    BY <2>2, QueuedTail, HeldOnce DEF IInv, TypeOK
  <2> QED BY <2>1, <2>2, <2>3, FailAsksNothing
<1>4. ASSUME NEW s \in Slots, ThreadFails(s) PROVE AsksNothing
  BY <1>4, FailAsksNothing DEF ThreadFails
<1>5. ASSUME NEW s \in Slots, JobTimesOut(s) \/ TerminateDone(s) \/ RestartTimer(s)
      PROVE  AsksNothing
  BY <1>5, JobTimesOutAsksNothing, TerminateDoneAsksNothing, RestartTimerAsksNothing
<1> QED BY <1>2, <1>3, <1>4, <1>5, ShutdownAsksNothing

LEMMA DispatchKeeps ==
  ASSUME IInv, NEW j \in Jobs, Dispatch(j)
  PROVE  /\ \A s \in Slots : Kept(s)
         /\ UNCHANGED posted
         /\ fate[j] = "new" /\ fate'[j] # "new"
         /\ \A i \in Jobs \ {j} : fate'[i] = fate[i]
         /\ queue' = queue \/ Queued(queue') = Queued(queue) \union {j}
<1>1. /\ fate[j] = "new" /\ j \notin Queued(queue) /\ fate \in [Jobs -> Fates]
      /\ queue \in Seq(Jobs) /\ Distinct(queue) /\ UNCHANGED posted
  BY HeldOnce DEF IInv, TypeOK, Fates, Dispatch, Open
<1>2. \A s \in Slots : Kept(s)
  <2>1. CASE UNCHANGED slot
    BY <2>1 DEF Kept
  <2>2. CASE ~started /\ \E up \in SUBSET (1..Workers) : slot' = Started(up)
    <3> SUFFICES ASSUME NEW s \in Slots PROVE Kept(s)
      OBVIOUS
    <3>1. PICK up \in SUBSET (1..Workers) : slot' = Started(up)
      BY <2>2
    <3>2. CASE s[1] # starts + 1
      BY <3>1, <3>2 DEF Started, Kept
    <3>3. CASE s[1] = starts + 1
      <4>1. starts \in Nat
        BY Numbers DEF IInv
      <4>2. slot[s] = Unused
        BY <3>3, <4>1 DEF IInv, SlotOK
      <4>3. slot[s].gen = 0
        BY <4>2 DEF Unused
      <4>4. slot'[s].gen = 1
        <5>1. slot'[s] = IF s[2] \in up THEN Up(Unused)
                ELSE [Down(Unused) EXCEPT !.state = "restarting", !.timer = TRUE]
          BY <3>1, <3>3 DEF Started
        <5> QED BY <5>1 DEF Up, Down, Starting, Unused
      <4> QED BY <4>3, <4>4 DEF Kept
    <3> QED BY <3>2, <3>3
  <2> QED BY <2>1, <2>2 DEF Dispatch, EnsureStarted
<1>3. /\ fate'[j] # "new"
      /\ \A i \in Jobs \ {j} : fate'[i] = fate[i]
      /\ queue' = queue \/ queue' = Append(queue, j)
  BY <1>1 DEF Dispatch, Refuse, Fates
<1> QED BY <1>1, <1>2, <1>3, QueuedAppend

(* A late answer is dropped; the one a slot takes was the thread's only one.  *)
LEMMA AnswerKeepsRequested ==
  ASSUME IInv, IInv', Requested, NEW m \in posted, Answer(m[1], m[2], m[3])
  PROVE  Requested'
<1> DEFINE s == m[1]
<1>1. /\ s \in Slots /\ m[2] \in Nat /\ m = <<m[1], m[2], m[3]>>
      /\ slot[s] \in SlotType /\ slot[s].gen \in Nat
      /\ UNCHANGED queue /\ posted' = posted \ {m} /\ Settled
  BY RequestTypes, AnswerInv DEF Answer
<1>2. ASSUME NEW n \in posted
      PROVE  n[3] \notin Queued(queue') /\ fate'[n[3]] # "new"
  BY <1>1, RequestTypes DEF Requested, Settled, Outcomes
<1>3. CASE UNCHANGED slot
  BY <1>1, <1>2, <1>3, RequestedKept DEF Kept
<1>4. CASE slot' = [slot EXCEPT ![s] = Recycled(slot[s])]
  <2>1. Recycled(slot[s]).gen = slot[s].gen /\ ~Recycled(slot[s]).thread
    BY <1>1 DEF Recycled, SlotType
  <2>2. \A o \in Slots : Kept(o)
    BY <1>1, <1>4, <2>1, OneSlotKept
  <2> QED BY <1>1, <1>2, <2>2, RequestedKept
<1>5. CASE slot' = [slot EXCEPT ![s] = Finished(slot[s])] /\ Takes(s, m[2], m[3])
  <2>1. slot[s].gen = m[2]
    BY <1>5 DEF Takes
  <2>2. /\ slot'[s].gen = slot[s].gen
        /\ \A o \in Slots \ {s} : slot'[o] = slot[o]
    BY <1>1, <1>5 DEF Finished, IInv, TypeOK, SlotType
  <2>3. ASSUME NEW n \in posted'
        PROVE  /\ n[2] <= slot'[n[1]].gen
               /\ slot'[n[1]].thread /\ slot'[n[1]].gen = n[2]
                  => slot'[n[1]].job = n[3]
    <3>1. n \in posted /\ n # m /\ n[1] \in Slots
      BY <1>1, RequestTypes
    <3>2. /\ n[2] <= slot[n[1]].gen
          /\ slot[n[1]].thread /\ slot[n[1]].gen = n[2] => slot[n[1]].job = n[3]
      BY <3>1 DEF Requested
    <3>3. ~(n[1] = s /\ n[2] = m[2])
      BY <3>1 DEF Requested
    <3> QED BY <2>1, <2>2, <3>1, <3>2, <3>3
  <2>4. \A n, o \in posted' : n[3] = o[3] \/ (n[1] = o[1] /\ n[2] = o[2]) => n = o
    BY <1>1 DEF Requested
  <2> QED BY <1>1, <1>2, <2>3, <2>4 DEF Requested
<1> QED BY <1>3, <1>4, <1>5 DEF Answer

(* A post: an idle thread has nothing left to answer, and the job was only    *)
(* queued so far.                                                           *)
LEMMA PumpTakesKeepsRequested ==
  ASSUME IInv, IInv', Requested, PumpTakes PROVE Requested'
<1> DEFINE h == Head(queue)
<1>1. /\ queue # <<>> /\ queue' = Tail(queue) /\ queue \in Seq(Jobs)
      /\ Distinct(queue) /\ fate \in [Jobs -> Fates]
  BY HeldOnce DEF IInv, TypeOK, Fates, PumpTakes
<1>2. /\ h \in Jobs /\ Queued(queue) = Queued(queue') \union {h}
      /\ h \notin Queued(queue')
  BY <1>1, QueuedTail
<1>3. fate[h] # "new" /\ fate'[h] # "new" /\ \A j \in Jobs \ {h} : fate'[j] = fate[j]
  <2>1. fate[h] \in Open
    BY <1>2, HeldOnce DEF IInv
  <2> QED BY <1>1, <1>2, <2>1 DEF PumpTakes, Open
<1>4. ASSUME NEW n \in posted
      PROVE  n[3] \notin Queued(queue') /\ fate'[n[3]] # "new" /\ n[3] # h
  BY <1>2, <1>3, RequestTypes DEF Requested
<1>5. CASE UNCHANGED <<slot, posted>>
  BY <1>4, <1>5, RequestedKept DEF Kept
<1>6. CASE \E s \in Free :
             /\ slot' = [slot EXCEPT ![s].state = "busy", ![s].job = h]
             /\ posted' = posted \union {<<s, slot[s].gen, h>>}
  <2> PICK s \in Free :
        /\ slot' = [slot EXCEPT ![s].state = "busy", ![s].job = h]
        /\ posted' = posted \union {<<s, slot[s].gen, h>>}
    BY <1>6
  <2>1. s \in Slots /\ slot[s] \in SlotType /\ slot[s].thread /\ slot[s].job = NoJob
    BY FreeSlot
  <2>2. /\ slot'[s].gen = slot[s].gen /\ slot'[s].job = h
        /\ \A o \in Slots \ {s} : slot'[o] = slot[o]
        /\ slot[s].gen \in Nat
    BY <2>1 DEF IInv, TypeOK, SlotType
  <2>3. ASSUME NEW n \in posted
        PROVE  ~(n[1] = s /\ n[2] = slot[s].gen)
    <3>1. n[3] \in Jobs /\ NoJob \notin Jobs
      BY RequestTypes, PoolAssumption
    <3> QED BY <2>1, <3>1 DEF Requested
  <2>4. ASSUME NEW n \in posted'
        PROVE  /\ n[2] <= slot'[n[1]].gen
               /\ n[3] \notin Queued(queue') /\ fate'[n[3]] # "new"
               /\ slot'[n[1]].thread /\ slot'[n[1]].gen = n[2]
                  => slot'[n[1]].job = n[3]
    <3>1. CASE n = <<s, slot[s].gen, h>>
      <4>1. n[1] = s /\ n[2] = slot[s].gen /\ n[3] = h
        BY <3>1
      <4> QED BY <1>2, <1>3, <2>2, <4>1
    <3>2. CASE n \in posted
      <4>1. /\ n[1] \in Slots /\ n[2] <= slot[n[1]].gen
            /\ slot[n[1]].thread /\ slot[n[1]].gen = n[2] => slot[n[1]].job = n[3]
        BY <3>2, RequestTypes DEF Requested
      <4> QED BY <1>4, <2>2, <2>3, <3>2, <4>1
    <3> QED BY <3>1, <3>2
  <2>5. ASSUME NEW n \in posted', NEW o \in posted',
               n[3] = o[3] \/ (n[1] = o[1] /\ n[2] = o[2])
        PROVE  n = o
    <3> DEFINE p == <<s, slot[s].gen, h>>
    <3>1. p[1] = s /\ p[2] = slot[s].gen /\ p[3] = h
      OBVIOUS
    <3> HIDE DEF p
    <3>2. posted' = posted \union {p}
      BY DEF p
    <3>3. CASE n \in posted /\ o \in posted
      BY <2>5, <3>3 DEF Requested
    <3>4. CASE n = p /\ o \in posted
      BY <1>4, <2>3, <2>5, <3>1, <3>4
    <3>5. CASE n \in posted /\ o = p
      BY <1>4, <2>3, <2>5, <3>1, <3>5
    <3> QED BY <3>2, <3>3, <3>4, <3>5
  <2> QED BY <2>4, <2>5 DEF Requested
<1> QED BY <1>5, <1>6 DEF PumpTakes

LEMMA RequestedInv == IInv /\ Requested /\ [Next]_vars => Requested'
<1> SUFFICES ASSUME IInv, Requested, [Next]_vars PROVE Requested'
  OBVIOUS
<1>0. IInv'
  BY NextInv
<1>1. CASE \E j \in Jobs : Dispatch(j)
  <2> PICK j \in Jobs : Dispatch(j)
    BY <1>1
  <2>1. /\ \A s \in Slots : Kept(s)
        /\ UNCHANGED posted
        /\ fate[j] = "new" /\ fate'[j] # "new"
        /\ \A i \in Jobs \ {j} : fate'[i] = fate[i]
        /\ queue' = queue \/ Queued(queue') = Queued(queue) \union {j}
    BY DispatchKeeps
  <2>2. ASSUME NEW m \in posted
        PROVE  m[3] \notin Queued(queue') /\ fate'[m[3]] # "new"
    BY <2>1, RequestTypes DEF Requested
  <2> QED BY <1>0, <2>1, <2>2, RequestedKept
<1>2. CASE PumpTakes
  BY <1>0, <1>2, PumpTakesKeepsRequested
<1>3. CASE \E m \in posted : Answer(m[1], m[2], m[3])
  BY <1>0, <1>3, AnswerKeepsRequested
<1>4. CASE \E j \in Jobs : TimePasses(j)
  <2> PICK j \in Jobs : TimePasses(j)
    BY <1>4
  <2>1. AsksNothing
    BY OthersAskNothing
  <2>2. \A i \in Jobs : fate'[i] = "new" => fate[i] = "new"
    BY DEF TimePasses, IInv, TypeOK
  <2>3. ASSUME NEW m \in posted
        PROVE  m[3] \notin Queued(queue') /\ fate'[m[3]] # "new"
    BY <2>1, <2>2, RequestTypes DEF Requested, AsksNothing
  <2> QED BY <1>0, <2>1, <2>3, RequestedKept DEF AsksNothing
<1>5. CASE \/ PumpPostFails \/ PumpEnds
           \/ \E s \in Slots : ThreadFails(s) \/ JobTimesOut(s) \/ TerminateDone(s)
                                              \/ RestartTimer(s)
           \/ Shutdown \/ ShutdownEnds
           \/ UNCHANGED vars
  <2>1. AsksNothing
    BY <1>5, OthersAskNothing
  <2>2. UNCHANGED fate => Settled
    BY DEF Settled
  <2>3. Shutdown => Settled
    BY ShutdownSettles
  <2>4. Settled
    BY <1>5, <2>2, <2>3, PumpPostFailsInv, ThreadFailsInv, JobTimesOutInv,
       TerminateDoneInv, RestartTimerInv DEF PumpEnds, ShutdownEnds, vars
  <2> QED BY <1>0, <2>1, <2>4, AsksNothingKeeps
<1> QED BY <1>1, <1>2, <1>3, <1>4, <1>5 DEF Next

(* Threads are asked one thing at a time, and each job is asked of one thread *)
(* only: the thread a slot has never owes the answer of an earlier job.       *)
THEOREM AsksOnce == Spec => []Requested
<1>1. Init => Requested
  BY DEF Init, Requested
<1> QED BY <1>1, RequestedInv, Invariance, PTL DEF Spec

(* An answer that carries the generation of a slot that runs a job is the     *)
(* answer to that job: comparing the job, as handleWorkerMessage also does,   *)
(* never decides anything there.                                            *)
GenerationTells ==
  \A m \in posted :
    slot[m[1]].job # NoJob /\ slot[m[1]].gen = m[2] => slot[m[1]].job = m[3]

(* The generation of a slot is enough to tell an answer from a stale one.   *)
THEOREM GenerationTellsAnswers == Spec => []GenerationTells
<1>1. IInv /\ Requested => GenerationTells
  <2> SUFFICES ASSUME IInv, Requested, NEW m \in posted,
                      slot[m[1]].job # NoJob, slot[m[1]].gen = m[2]
               PROVE  slot[m[1]].job = m[3]
    BY DEF GenerationTells
  <2>1. m[1] \in Slots
    BY RequestTypes
  <2>2. slot[m[1]].thread
    BY <2>1 DEF IInv, SlotOK, Sound
  <2> QED BY <2>2 DEF Requested
<1> QED BY <1>1, AsksOnce, Invariance, PTL

(* A job that left the queue is not queued again and is asked of no further   *)
(* thread, whatever became of the one it went to: the pool retries nothing.   *)
NothingIsRetried ==
  [][\A j \in Jobs : fate[j] # "new" /\ j \notin Queued(queue) =>
       /\ j \notin Queued(queue')
       /\ \A m \in posted' : m[3] = j => m \in posted]_vars

(* Threads that crash, hang or are replaced make the pool ask nothing twice. *)
THEOREM RetriesNothing == Spec => NothingIsRetried
<1>1. IInv /\ [Next]_vars =>
        [\A j \in Jobs : fate[j] # "new" /\ j \notin Queued(queue) =>
           /\ j \notin Queued(queue')
           /\ \A m \in posted' : m[3] = j => m \in posted]_vars
  <2> SUFFICES ASSUME IInv, Next, NEW j \in Jobs, fate[j] # "new",
                      j \notin Queued(queue)
               PROVE  /\ j \notin Queued(queue')
                      /\ \A m \in posted' : m[3] = j => m \in posted
    BY Zenon
  <2>1. CASE \E i \in Jobs : Dispatch(i)
    <3> PICK i \in Jobs : Dispatch(i)
      BY <2>1
    <3> QED BY DispatchKeeps
  <2>2. CASE PumpTakes
    <3>1. /\ queue # <<>> /\ queue' = Tail(queue) /\ queue \in Seq(Jobs)
          /\ Distinct(queue)
      BY <2>2, HeldOnce DEF IInv, TypeOK, PumpTakes
    <3>2. Queued(queue) = Queued(queue') \union {Head(queue)}
      BY <3>1, QueuedTail
    <3>3. ASSUME NEW m \in posted', m \notin posted PROVE m[3] = Head(queue)
      <4>1. PICK s \in Free : posted' = posted \union {<<s, slot[s].gen, Head(queue)>>}
        BY <2>2, <3>3 DEF PumpTakes
      <4> QED BY <3>3, <4>1
    <3> QED BY <3>2, <3>3
  <2>3. CASE \E m \in posted : Answer(m[1], m[2], m[3])
    BY <2>3 DEF Answer
  <2>4. CASE ~(\/ \E i \in Jobs : Dispatch(i)
               \/ PumpTakes
               \/ \E m \in posted : Answer(m[1], m[2], m[3]))
    <3>1. AsksNothing
      BY <2>4, OthersAskNothing DEF Next
    <3> QED BY <3>1 DEF AsksNothing
  <2> QED BY <2>1, <2>2, <2>3, <2>4
<1> QED BY <1>1, Invariance, PTL DEF Spec, NothingIsRetried
=============================================================================
