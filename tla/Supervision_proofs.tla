------------------------- MODULE Supervision_proofs -------------------------
(***************************************************************************)
(* Proofs about Supervision, for any messages, any number of evaluations    *)
(* and audit runs in flight, and any limits.                                *)
(***************************************************************************)
EXTENDS Supervision, SequenceTheorems, TLAPS

-----------------------------------------------------------------------------
(* The inductive invariant.                                                 *)

Deciding(s) ==
  \E j \in Jobs : s.jobs[j].stage = "deciding" /\ s.jobs[j].gen = s.run.gen
Driven(s) ==
  \E j \in Jobs : /\ s.jobs[j].stage \in {"deciding", "baseline"}
                  /\ s.jobs[j].gen = s.run.gen

(* What the maps satisfy whatever the session does: no run means NoRun, a   *)
(* continuation that holds the active run means that there is one, and the  *)
(* evaluating flag means that an evaluation of this generation will answer. *)
Sound(s) ==
  /\ s \in SupType
  /\ s.run.phase = "none" => s.run = NoRun
  /\ \A j \in Jobs : s.jobs[j].own => s.run # NoRun
  /\ s.run.evaluating => s.run.phase = "execution" /\ Deciding(s)

(* What may be left once supervision is off: the task of a late send, as run  *)
(* or as intent.                                                             *)
OffOK(s, l) ==
  /\ s.run # NoRun => s.run.task \in l
  /\ s.pending # None => s.pending \in l

(* The sends that still carry "on" are the late ones.                        *)
LateSends == mode = "off" => \A t \in Tasks : sends[t] = "on" => t \in late

(* A killed runtime has no turn, no queue and no send behind its mutex; a    *)
(* runtime in the map has drained the resend queue.                          *)
Served ==
  /\ life = "none" => /\ turn # "running" /\ queue = <<>>
                      /\ \A t \in Tasks : sends[t] \notin Modes
  /\ life = "up" => resend = <<>>

IInv ==
  /\ TypeOK /\ Sound(sup) /\ OffMeansInert /\ IntentIsQueued /\ RunIsDriven
  /\ LateSends /\ Served

(* t is s with at most the task and the intent of s.                         *)
Tame(s, t) ==
  /\ t.run # NoRun => s.run # NoRun /\ t.run.task = s.run.task
  /\ t.pending \in {s.pending, None}

LEMMA TameIsOff ==
  ASSUME NEW s, NEW t, NEW l, Tame(s, t), OffOK(s, l)
  PROVE  OffOK(t, l)
BY DEF Tame, OffOK

-----------------------------------------------------------------------------
(* The methods keep the maps sound.                                         *)

LEMMA Idle ==
  /\ NoRun \in RunType /\ NoRun.phase = "none" /\ ~NoRun.evaluating
  /\ NoRun.gen = 0
  /\ NoPoller \in [gen : Nat, audit : Audits \union {None}]
  /\ FreeJob \in JobType /\ ~FreeJob.own /\ FreeJob.stage = "none"
BY DEF NoRun, FreshRun, NoPoller, FreeJob, RunType, JobType

LEMMA DetachedFacts ==
  ASSUME NEW jobs \in [Jobs -> JobType]
  PROVE  /\ Detached(jobs) \in [Jobs -> JobType]
         /\ \A j \in Jobs : /\ Detached(jobs)[j].stage = jobs[j].stage
                            /\ Detached(jobs)[j].gen = jobs[j].gen
                            /\ ~Detached(jobs)[j].own
BY DEF Detached, JobType

LEMMA SameRun ==
  ASSUME NEW s, Sound(s), NEW t \in SupType, t.run = s.run, t.jobs = s.jobs
  PROVE  Sound(t)
BY DEF Sound, Deciding

(* The maps that only remember messages.                                    *)
LEMMA NewPending ==
  ASSUME NEW s, Sound(s), NEW m \in Tasks \union {None},
         NEW t, t = [s EXCEPT !.pending = m]
  PROVE  Sound(t) /\ t.run = s.run /\ t.jobs = s.jobs /\ t.pending = m
<1>1. s \in SupType
  BY DEF Sound
<1>2. t \in SupType /\ t.run = s.run /\ t.jobs = s.jobs /\ t.pending = m
  BY <1>1 DEF SupType
<1> QED BY <1>2, SameRun

LEMMA NewCandidate ==
  ASSUME NEW s, Sound(s), NEW m \in Messages,
         NEW t, t = [s EXCEPT !.candidate = m, !.answered = FALSE]
  PROVE  Sound(t) /\ t.run = s.run /\ t.jobs = s.jobs /\ t.pending = s.pending
<1>1. s \in SupType
  BY DEF Sound
<1>2. t \in SupType /\ t.run = s.run /\ t.jobs = s.jobs /\ t.pending = s.pending
  BY <1>1 DEF SupType
<1> QED BY <1>2, SameRun

LEMMA DropRunFacts ==
  ASSUME NEW s, Sound(s)
  PROVE  /\ Sound(DropRun(s)) /\ DropRun(s).run = NoRun
         /\ DropRun(s).pending = s.pending
         /\ \A j \in Jobs : DropRun(s).jobs[j].stage = s.jobs[j].stage
<1> DEFINE d == DropRun(s)
<1>1. s \in SupType /\ s.jobs \in [Jobs -> JobType]
  BY DEF Sound, SupType
<1>2. /\ d \in SupType /\ d.run = NoRun /\ d.jobs = Detached(s.jobs)
      /\ d.pending = s.pending
  BY <1>1, Idle, DetachedFacts DEF DropRun, SupType
<1> QED BY <1>1, <1>2, Idle, DetachedFacts DEF Sound

LEMMA FinishRunFacts ==
  ASSUME NEW s, Sound(s)
  PROVE  /\ Sound(FinishRun(s)) /\ FinishRun(s).run = NoRun
         /\ FinishRun(s).pending = s.pending
BY DropRunFacts DEF FinishRun, Active

LEMMA CancelSessionFacts ==
  ASSUME NEW s, Sound(s)
  PROVE  /\ Sound(CancelSession(s)) /\ CancelSession(s).run = NoRun
         /\ CancelSession(s).pending = None
<1> DEFINE d == DropRun(s)  c == CancelSession(s)
<1>1. Sound(d) /\ d.run = NoRun /\ d \in SupType
  BY DropRunFacts DEF Sound
<1> HIDE DEF d
<1>2. c \in SupType /\ c.run = d.run /\ c.jobs = d.jobs /\ c.pending = None
  <2>1. c = [d EXCEPT !.pending = None, !.candidate = None, !.answered = FALSE]
    BY DEF CancelSession, d
  <2> HIDE DEF c
  <2> QED BY <1>1, <2>1 DEF SupType
<1> QED BY <1>1, <1>2, SameRun

LEMMA RegisterTaskFacts ==
  ASSUME NEW s, Sound(s), NEW t \in Messages
  PROVE  LET r == RegisterTask(s, t)
         IN  /\ Sound(r) /\ r.run.phase = "execution" /\ r.run # NoRun
             /\ ~r.run.evaluating /\ r.pending = s.pending /\ r.run.task = t
             /\ \A j \in Jobs : r.jobs[j].stage = s.jobs[j].stage
<1> DEFINE r == RegisterTask(s, t)
           n == FreshRun(s.run.gen + 1, t, "execution")
<1>1. s \in SupType /\ s.jobs \in [Jobs -> JobType] /\ s.run \in RunType
  BY DEF Sound, SupType
<1>2. n \in RunType /\ n.phase = "execution" /\ ~n.evaluating /\ n.task = t
  <2>1. s.run.gen + 1 \in Nat
    BY <1>1 DEF RunType
  <2> QED BY <2>1 DEF FreshRun, RunType
<1> HIDE DEF n
<1>3. /\ r \in SupType /\ r.run = n /\ r.jobs = Detached(s.jobs)
      /\ r.pending = s.pending
  <2>1. r = [s EXCEPT !.run = n, !.poller = NoPoller, !.jobs = Detached(@),
                      !.candidate = None, !.answered = FALSE]
    BY DEF RegisterTask, n
  <2> HIDE DEF r
  <2> QED BY <1>1, <1>2, <2>1, Idle, DetachedFacts DEF SupType
<1>4. n # NoRun
  BY <1>2, Idle
<1> QED BY <1>1, <1>2, <1>3, <1>4, DetachedFacts DEF Sound

LEMMA EvaluateFacts ==
  ASSUME NEW s, Sound(s), NEW j \in Jobs, s.run.phase = "execution"
  PROVE  LET e == Evaluate(s, j)
         IN  /\ Sound(e) /\ e.run # NoRun /\ e.run.phase = "execution"
             /\ Driven(e) /\ e.pending = s.pending /\ Tame(s, e)
<1> DEFINE e == Evaluate(s, j)
           job == [stage |-> "deciding", gen |-> s.run.gen, own |-> TRUE]
<1>1. s \in SupType /\ s.jobs \in [Jobs -> JobType] /\ s.run \in RunType
  BY DEF Sound, SupType
<1>2. job \in JobType
  BY <1>1 DEF JobType, RunType
<1>3. /\ [s.run EXCEPT !.evaluating = TRUE] \in RunType
      /\ [s.jobs EXCEPT ![j] = job] \in [Jobs -> JobType]
  BY <1>1, <1>2 DEF RunType
<1>4. /\ e \in SupType /\ e.run = [s.run EXCEPT !.evaluating = TRUE]
      /\ e.jobs = [s.jobs EXCEPT ![j] = job] /\ e.pending = s.pending
  BY <1>1, <1>3 DEF Evaluate, SupType
<1> HIDE DEF e
<1>5. /\ e.run.phase = "execution" /\ e.run.gen = s.run.gen
      /\ e.run.task = s.run.task
  BY <1>1, <1>4 DEF RunType
<1>6. e.run # NoRun
  BY <1>5, Idle
<1>7. e.jobs[j].stage = "deciding" /\ e.jobs[j].gen = e.run.gen
  BY <1>1, <1>4, <1>5
<1>8. Tame(s, e)
  BY <1>4, <1>5, Idle DEF Tame
<1> QED BY <1>4, <1>5, <1>6, <1>7, <1>8 DEF Sound, Deciding, Driven, e

LEMMA WithoutIntentFacts ==
  ASSUME NEW s, Sound(s), NEW m
  PROVE  LET w == WithoutIntent(s, m)
         IN  /\ Sound(w) /\ w.run = s.run /\ w.jobs = s.jobs
             /\ w.pending \in {s.pending, None}
             /\ w.pending # None => w.pending # m
             /\ Tame(s, w)
BY NewPending DEF WithoutIntent, Tame

LEMMA StartImplicitRunFacts ==
  ASSUME NEW s, Sound(s), NEW j \in Jobs, s.run = NoRun
  PROVE  LET i == StartImplicitRun(s, j)
         IN  /\ Sound(i) /\ i.pending = s.pending
             /\ i.run.phase = "execution" => Driven(i)
<1>1. s \in SupType /\ NoRun.phase # "execution"
  BY Idle DEF Sound
<1>2. CASE s.candidate = None
  BY <1>1, <1>2 DEF StartImplicitRun
<1>3. CASE s.candidate # None /\ ~s.answered
  <2>1. StartImplicitRun(s, j) = [s EXCEPT !.candidate = None]
    BY <1>3 DEF StartImplicitRun
  <2>2. LET t == [s EXCEPT !.candidate = None]
        IN  t \in SupType /\ t.run = s.run /\ t.jobs = s.jobs /\ t.pending = s.pending
    BY <1>1 DEF SupType
  <2> QED BY <1>1, <2>1, <2>2, SameRun
<1>4. CASE s.candidate # None /\ s.answered
  <2> DEFINE r == RegisterTask(s, s.candidate)
             t == [r EXCEPT !.run.saw = TRUE]
  <2>1. s.candidate \in Messages
    BY <1>1, <1>4 DEF SupType
  <2>2. /\ Sound(r) /\ r.run.phase = "execution" /\ ~r.run.evaluating
        /\ r.run # NoRun /\ r.pending = s.pending /\ r \in SupType
    BY <2>1, RegisterTaskFacts DEF Sound
  <2> HIDE DEF r
  <2>3. r.run \in RunType
    BY <2>2 DEF SupType
  <2>4. [r.run EXCEPT !.saw = TRUE] \in RunType
    BY <2>3 DEF RunType
  <2>5. /\ t \in SupType /\ t.run = [r.run EXCEPT !.saw = TRUE]
        /\ t.jobs = r.jobs /\ t.pending = r.pending
    BY <2>2, <2>4 DEF SupType
  <2>6. t.run.phase = "execution" /\ ~t.run.evaluating
    BY <2>2, <2>3, <2>5 DEF RunType
  <2>7. t.run # NoRun
    BY <2>6, Idle
  <2>8. Sound(t)
    BY <2>5, <2>6, <2>7 DEF Sound
  <2>9. StartImplicitRun(s, j) = Evaluate(t, j)
    BY <1>4 DEF StartImplicitRun, r
  <2> HIDE DEF t
  <2> DEFINE e == Evaluate(t, j)
  <2>10. Sound(e) /\ Driven(e) /\ e.pending = t.pending
    BY <2>6, <2>8, EvaluateFacts
  <2> HIDE DEF e
  <2>11. StartImplicitRun(s, j) = e
    BY <2>9 DEF e
  <2> QED BY <2>2, <2>5, <2>10, <2>11
<1> QED BY <1>2, <1>3, <1>4

LEMMA OnIdleFacts ==
  ASSUME NEW s, Sound(s), NEW j \in Jobs
  PROVE  LET i == OnIdle(s, j)
         IN  /\ Sound(i) /\ i.pending = s.pending
             /\ i.run.phase = "execution" => Driven(i)
             /\ mode = "off" => Tame(s, i)
<1>1. NoRun.phase = "none"
  BY Idle
<1>2. CASE s.run = NoRun /\ mode = "off"
  BY <1>1, <1>2 DEF OnIdle, Active, Tame
<1>3. CASE s.run = NoRun /\ mode # "off"
  BY <1>3, StartImplicitRunFacts DEF OnIdle, Active
<1>4. CASE s.run # NoRun /\ (s.run.phase # "execution" \/ s.run.evaluating)
  <2>1. OnIdle(s, j) = s
    BY <1>4 DEF OnIdle, Active
  <2> QED BY <1>4, <2>1 DEF Sound, Deciding, Driven, Tame
<1>5. CASE s.run # NoRun /\ s.run.phase = "execution" /\ ~s.run.evaluating
  <2>1. OnIdle(s, j) = IF s.run.saw THEN Evaluate(s, j) ELSE FinishRun(s)
    BY <1>5 DEF OnIdle, Active
  <2> QED BY <1>1, <1>5, <2>1, EvaluateFacts, FinishRunFacts DEF Tame
<1> QED BY <1>2, <1>3, <1>4, <1>5

LEMMA OnBlockedFacts ==
  ASSUME NEW s, Sound(s)
  PROVE  LET b == OnBlocked(s)
         IN  /\ Sound(b) /\ b.pending = s.pending
             /\ b.run.phase # "execution"
             /\ Tame(s, b)
BY FinishRunFacts, Idle DEF OnBlocked, Tame

LEMMA OnAssistantTextFacts ==
  ASSUME NEW s, Sound(s)
  PROVE  LET t == OnAssistantText(s)
         IN  /\ Sound(t) /\ t.pending = s.pending /\ Tame(s, t)
<1> DEFINE t == [s EXCEPT !.answered = (s.candidate # None)]
           u == [t EXCEPT !.run.saw = TRUE]
           n == [s.run EXCEPT !.saw = TRUE]
<1>1. s \in SupType /\ s.run \in RunType /\ (s.candidate # None) \in BOOLEAN
  BY DEF Sound, SupType
<1>2. t \in SupType /\ t.run = s.run /\ t.jobs = s.jobs /\ t.pending = s.pending
  BY <1>1 DEF SupType
<1>3. Sound(t)
  BY <1>2, SameRun
<1>4. /\ n \in RunType /\ n.phase = s.run.phase /\ n.gen = s.run.gen
      /\ n.evaluating = s.run.evaluating /\ n.saw /\ n.task = s.run.task
  BY <1>1 DEF RunType
<1>5. n # NoRun
  BY <1>4 DEF NoRun, FreshRun
<1> HIDE DEF t
<1>6. u \in SupType /\ u.run = n /\ u.jobs = s.jobs /\ u.pending = s.pending
  BY <1>2, <1>4 DEF SupType
<1> HIDE DEF n, u
<1>7. s.run # NoRun => Sound(u)
  BY <1>4, <1>5, <1>6 DEF Sound, Deciding
<1>8. OnAssistantText(s) = IF s.run # NoRun THEN u ELSE t
  BY DEF OnAssistantText, Active, t, u
<1> QED BY <1>2, <1>3, <1>4, <1>6, <1>7, <1>8 DEF Tame

LEMMA OnDeliveredFacts ==
  ASSUME NEW s, Sound(s), NEW q \in Seq(Messages), q # <<>>
  PROVE  LET d == OnDelivered(s, q)
         IN  /\ Sound(d)
             /\ d.pending = IF In(s.pending, q) THEN None ELSE s.pending
             /\ ~In(s.pending, q) => d.run = s.run /\ d.jobs = s.jobs
             /\ In(s.pending, q) => s.pending \in Tasks
             /\ \A l : OffOK(s, l) => OffOK(d, l)
<1> DEFINE last == q[Len(q)]
           c == [s EXCEPT !.pending = None]
           r == RegisterTask(c, s.pending)
           d == OnDelivered(s, q)
<1>1. Len(q) \in 1..Len(q) /\ last \in Messages
  BY DEF Messages
<1>2. None \notin Messages /\ s \in SupType
  BY SupervisionAssumption DEF Messages, Sound
<1>3. CASE ~In(s.pending, q)
  <2>1. d = [s EXCEPT !.candidate = last, !.answered = FALSE]
    BY <1>3 DEF OnDelivered
  <2> HIDE DEF last, d
  <2>2. Sound(d) /\ d.run = s.run /\ d.jobs = s.jobs /\ d.pending = s.pending
    BY <1>1, <2>1, NewCandidate
  <2>3. \A l : OffOK(s, l) => OffOK(d, l)
    BY <2>2 DEF OffOK
  <2> QED BY <1>3, <2>2, <2>3 DEF d
<1>4. CASE In(s.pending, q)
  <2>0. s.pending # None /\ s.pending \in Tasks
    BY <1>2, <1>4 DEF In, SupType
  <2>1. s.pending \in Messages
    BY <2>0 DEF Messages
  <2> HIDE DEF last, r, d
  <2>a. c = [s EXCEPT !.pending = None] /\ None \in Tasks \union {None}
    OBVIOUS
  <2> HIDE DEF c
  <2>2. Sound(c) /\ c.pending = None
    BY <2>a, NewPending
  <2>3. Sound(r) /\ r.pending = None /\ r.run.task = s.pending
    BY <2>1, <2>2, RegisterTaskFacts DEF r
  <2>4. d = IF last = s.pending THEN r
            ELSE [r EXCEPT !.candidate = last, !.answered = FALSE]
    BY <1>4 DEF OnDelivered, d, r, c, last
  <2> DEFINE e == [r EXCEPT !.candidate = last, !.answered = FALSE]
  <2>5. Sound(e) /\ e.pending = r.pending /\ e.run = r.run
    BY <1>1, <2>3, NewCandidate
  <2> HIDE DEF e
  <2>6. d = r \/ d = e
    BY <2>4 DEF e
  <2>7. Sound(d) /\ d.pending = None /\ d.run.task = s.pending
    BY <2>3, <2>5, <2>6
  <2>8. \A l : OffOK(s, l) => OffOK(d, l)
    BY <2>0, <2>7 DEF OffOK
  <2> QED BY <1>4, <2>0, <2>7, <2>8 DEF d
<1> QED BY <1>3, <1>4

LEMMA AuditCancelledType ==
  ASSUME TypeOK, NEW s
  PROVE  AuditCancelled(s) \in [Audits -> AuditStatus]
BY DEF TypeOK, AuditCancelled, AuditStatus, Terminal

LEMMA FreeFacts ==
  ASSUME NEW s, Sound(s), NEW j \in Jobs,
         s.run.evaluating => s.jobs[j].gen # s.run.gen \/ s.jobs[j].stage # "deciding"
  PROVE  LET f == Free(s, j)
         IN  /\ Sound(f) /\ f.run = s.run /\ f.pending = s.pending
             /\ f.jobs = [s.jobs EXCEPT ![j] = FreeJob]
<1> DEFINE f == Free(s, j)
<1>1. s \in SupType /\ s.jobs \in [Jobs -> JobType]
  BY DEF Sound, SupType
<1>2. [s.jobs EXCEPT ![j] = FreeJob] \in [Jobs -> JobType]
  BY <1>1, Idle
<1>3. /\ f \in SupType /\ f.run = s.run /\ f.pending = s.pending
      /\ f.jobs = [s.jobs EXCEPT ![j] = FreeJob]
  BY <1>1, <1>2 DEF Free, SupType
<1> HIDE DEF f
<1>4. \A k \in Jobs : f.jobs[k].own => s.jobs[k].own
  BY <1>1, <1>3, Idle
<1>5. s.run.evaluating => Deciding(f)
  BY <1>1, <1>3, Idle DEF Sound, Deciding
<1> QED BY <1>3, <1>4, <1>5 DEF Sound, f

(* A continuation that ends its run: the flag no longer matters.            *)
LEMMA HandedBackFacts ==
  ASSUME NEW s, Sound(s), NEW j \in Jobs
  PROVE  /\ LET f == FinishRun(Free(s, j))
            IN  Sound(f) /\ f.run = NoRun /\ f.pending = s.pending
         /\ LET f == DropRun(Free(s, j))
            IN  Sound(f) /\ f.run = NoRun /\ f.pending = s.pending
<1> DEFINE f == Free(s, j)  d == DropRun(f)
<1>1. s \in SupType /\ s.jobs \in [Jobs -> JobType]
  BY DEF Sound, SupType
<1>2. [s.jobs EXCEPT ![j] = FreeJob] \in [Jobs -> JobType]
  BY <1>1, Idle
<1>3. /\ f \in SupType /\ f.run = s.run /\ f.pending = s.pending
      /\ f.jobs = [s.jobs EXCEPT ![j] = FreeJob]
  BY <1>1, <1>2 DEF Free, SupType
<1> HIDE DEF f
<1>4. f.jobs \in [Jobs -> JobType]
  BY <1>2, <1>3
<1>5. /\ d \in SupType /\ d.run = NoRun /\ d.pending = s.pending
      /\ d.jobs = Detached(f.jobs)
  BY <1>3, <1>4, Idle, DetachedFacts DEF DropRun, SupType
<1>6. Sound(d)
  BY <1>4, <1>5, Idle, DetachedFacts DEF Sound
<1>7. f.run = NoRun => Sound(f)
  BY <1>1, <1>3, Idle DEF Sound
<1>8. FinishRun(f) = IF f.run # NoRun THEN d ELSE f
  BY DEF FinishRun, Active
<1> HIDE DEF d
<1>9. DropRun(f) = d /\ Free(s, j) = f
  BY DEF d, f
<1> QED BY <1>3, <1>5, <1>6, <1>7, <1>8, <1>9

-----------------------------------------------------------------------------
(* Every action preserves the invariant.                                    *)

SessionOK ==
  /\ mode \in Modes /\ late \subseteq Tasks
  /\ sends \in [Tasks -> SendStage]
  /\ life \in {"up", "ending", "none"} /\ turn \in Turns
  /\ queue \in Seq(Messages) /\ active \in Seq(Messages)
  /\ resend \in Seq(Messages) /\ lost \subseteq Tasks
  /\ LateSends /\ Served

LEMMA Assemble ==
  ASSUME SessionOK', Sound(sup'), audits' \in [Audits -> AuditStatus],
         mode' = "off" => OffOK(sup', late'),
         sup'.pending # None => \/ In(sup'.pending, queue')
                                \/ In(sup'.pending, resend')
                                \/ sup'.pending \in lost',
         sup'.run.phase = "execution" => turn' = "running" \/ Driven(sup')
  PROVE  IInv'
BY DEF IInv, SessionOK, TypeOK, Sound, OffMeansInert, OffOK, IntentIsQueued,
       RunIsDriven, Driven, Active, Running, LateSends, Served

(* The hypotheses, in the form Assemble asks for.                           *)
LEMMA Unfold ==
  ASSUME IInv
  PROVE  /\ SessionOK /\ Sound(sup) /\ audits \in [Audits -> AuditStatus]
         /\ mode = "off" => OffOK(sup, late)
         /\ sup.pending # None => \/ In(sup.pending, queue)
                                  \/ In(sup.pending, resend)
                                  \/ sup.pending \in lost
         /\ sup.run.phase = "execution" => turn = "running" \/ Driven(sup)
         /\ sup \in SupType /\ sup.run \in RunType
         /\ sup.pending \in Tasks \union {None}
         /\ sup.jobs \in [Jobs -> JobType]
         /\ NoRun.phase = "none"
BY Idle DEF IInv, SessionOK, TypeOK, Sound, OffMeansInert, OffOK, IntentIsQueued,
            RunIsDriven, Driven, Active, Running, LateSends, Served, SupType

LEMMA Appended ==
  ASSUME NEW q \in Seq(Messages), NEW m \in Messages
  PROVE  /\ Append(q, m) \in Seq(Messages) /\ In(m, Append(q, m))
         /\ \A x : In(x, q) => In(x, Append(q, m))
         /\ \A x : In(x, Append(q, m)) => x = m \/ In(x, q)
<1>1. /\ Append(q, m) \in Seq(Messages) /\ Len(Append(q, m)) = Len(q) + 1
      /\ Append(q, m)[Len(q) + 1] = m
      /\ \A i \in 1..Len(q) : Append(q, m)[i] = q[i]
  BY AppendProperties
<1>2. /\ Len(q) + 1 \in 1..(Len(q) + 1)
      /\ \A i \in 1..Len(q) : i \in 1..(Len(q) + 1)
      /\ \A i \in 1..(Len(q) + 1) : i = Len(q) + 1 \/ i \in 1..Len(q)
  OBVIOUS
<1> QED BY <1>1, <1>2 DEF In

(* The suffixes that the resend queue and its drain keep.                   *)
LEMMA Suffix ==
  ASSUME NEW q \in Seq(Messages), NEW i \in 1..(Len(q) + 1)
  PROVE  /\ SubSeq(q, i, Len(q)) \in Seq(Messages)
         /\ \A x : In(x, SubSeq(q, i, Len(q))) => In(x, q)
         /\ i <= Len(q) => In(q[Len(q)], SubSeq(q, i, Len(q)))
<1> DEFINE s == SubSeq(q, i, Len(q))
<1>1. /\ i \in Int /\ Len(q) \in Int
      /\ \A k \in i..Len(q) : q[k] \in Messages
  OBVIOUS
<1>2. /\ s \in Seq(Messages)
      /\ Len(s) = IF i <= Len(q) THEN Len(q) - i + 1 ELSE 0
      /\ \A k \in 1..(Len(q) - i + 1) : s[k] = q[i + k - 1]
  BY <1>1, SubSeqProperties
<1> HIDE DEF s
<1>3. \A k \in 1..Len(s) : s[k] = q[i + k - 1] /\ i + k - 1 \in 1..Len(q)
  BY <1>2
<1>4. i <= Len(q) => s[Len(s)] = q[Len(q)] /\ Len(s) \in 1..Len(s)
  BY <1>2
<1> QED BY <1>2, <1>3, <1>4 DEF In, s

LEMMA CappedFacts ==
  ASSUME NEW q \in Seq(Messages)
  PROVE  /\ Capped(q) \in Seq(Messages)
         /\ \A x : In(x, Capped(q)) => In(x, q)
         /\ q # <<>> => In(q[Len(q)], Capped(q))
<1> DEFINE i == IF Len(q) > ResendCap THEN Len(q) - ResendCap + 1 ELSE 1
<1>1. ResendCap \in Nat \ {0} /\ Len(q) \in Nat /\ (q # <<>> => Len(q) > 0)
  BY SupervisionAssumption
<1>2. i \in 1..(Len(q) + 1) /\ (q # <<>> => i <= Len(q))
  BY <1>1
<1>3. Capped(q) = SubSeq(q, i, Len(q))
  BY DEF Capped
<1> HIDE DEF i
<1> QED BY <1>2, <1>3, Suffix

LEMMA Empty == <<>> \in Seq(Messages) /\ \A x : ~In(x, <<>>)
BY DEF In

LEMMA Singleton ==
  ASSUME NEW m \in Messages
  PROVE  /\ <<m>> \in Seq(Messages) /\ <<m>> # <<>>
         /\ \A x : In(x, <<m>>) <=> x = m
BY DEF In

LEMMA InitIInv == Init => IInv
<1> SUFFICES ASSUME Init PROVE IInv
  OBVIOUS
<1>1. sup \in SupType
  <2>1. [j \in Jobs |-> FreeJob] \in [Jobs -> JobType]
    BY Idle
  <2> QED BY <2>1, Idle DEF Init, SupType
<1>2. sup.run = NoRun /\ sup.pending = None /\ \A j \in Jobs : ~sup.jobs[j].own
  BY Idle DEF Init
<1>3. Sound(sup)
  BY <1>1, <1>2, Idle DEF Sound
<1>4. TypeOK
  BY <1>1 DEF Init, TypeOK, AuditStatus, SendStage, Turns
<1>5. LateSends /\ Served
  BY DEF Init, LateSends, Served
<1> QED BY <1>2, <1>3, <1>4, <1>5, Idle
        DEF IInv, OffMeansInert, IntentIsQueued, RunIsDriven, Active

(* The session is as it was, or has done one thing more.                    *)
LEMMA SameSession ==
  ASSUME IInv, UNCHANGED <<settings, sends, runtime>>
  PROVE  SessionOK'
BY Unfold DEF SessionOK, LateSends, Served, settings, runtime

LEMMA SentDone ==
  ASSUME IInv, NEW t \in Tasks, UNCHANGED settings,
         sends' = [sends EXCEPT ![t] = "done"]
  PROVE  /\ sends' \in [Tasks -> SendStage] /\ LateSends'
         /\ \A u \in Tasks : sends'[u] \in Modes => sends[u] \in Modes
BY Unfold DEF SessionOK, LateSends, SendStage, Modes, settings

(* What a step does to the intent: it is the old one, or none, and the       *)
(* queues keep it.                                                          *)
LEMMA IntentKept ==
  ASSUME IInv, sup'.pending \in {sup.pending, None},
         sup'.pending # None =>
           /\ In(sup'.pending, queue) =>
                \/ In(sup'.pending, queue') \/ In(sup'.pending, resend')
                \/ sup'.pending \in lost'
           /\ In(sup'.pending, resend) =>
                \/ In(sup'.pending, queue') \/ In(sup'.pending, resend')
                \/ sup'.pending \in lost',
         lost \subseteq lost'
  PROVE  sup'.pending # None => \/ In(sup'.pending, queue')
                                \/ In(sup'.pending, resend')
                                \/ sup'.pending \in lost'
BY Unfold

LEMMA ArriveStep ==
  ASSUME IInv, NEW t \in Tasks, Arrive(t) PROVE IInv'
<1> USE Unfold
<1>1. /\ sends' = [sends EXCEPT ![t] = mode] /\ life = "up"
      /\ UNCHANGED <<mode, late, life, turn, queue, active, resend, lost, sup, audits>>
  BY DEF Arrive, settings, runtime
<1>2. SessionOK'
  BY <1>1 DEF SessionOK, LateSends, Served, SendStage, Modes
<1>3. sup' = sup
  BY <1>1
<1> QED BY <1>1, <1>2, <1>3, Assemble DEF Driven

LEMMA ArriveUnreadyStep ==
  ASSUME IInv, NEW t \in Tasks, ArriveUnready(t) PROVE IInv'
<1> USE Unfold
<1> DEFINE c == CancelSession(sup)  q == Append(resend, t)
<1>1. t \in Messages /\ t # None
  BY SupervisionAssumption DEF Messages
<1>2. /\ mode' = mode /\ late' = late /\ life' = life /\ queue' = queue
      /\ active' = active /\ life # "up" /\ resend' = Capped(q)
      /\ sends' = [sends EXCEPT ![t] = "done"]
      /\ turn' = IF turn = "running" THEN turn ELSE "other"
      /\ lost' = lost \union Dropped(resend, resend')
  BY DEF ArriveUnready, settings, Running
<1>3. /\ q \in Seq(Messages) /\ q # <<>> /\ q[Len(q)] = t
      /\ \A x : In(x, resend) => In(x, q)
  <2>1. resend \in Seq(Messages)
    BY DEF SessionOK
  <2> QED BY <1>1, <2>1, AppendProperties, Appended
<1> HIDE DEF q
<1>4. resend' \in Seq(Messages) /\ In(t, resend')
  BY <1>2, <1>3, CappedFacts
<1>5. Dropped(resend, resend') \subseteq Tasks
  BY DEF Dropped
<1>6. SessionOK'
  <2>1. /\ sends' \in [Tasks -> SendStage] /\ LateSends'
        /\ \A u \in Tasks : sends'[u] \in Modes => sends[u] \in Modes
    BY <1>2, SentDone DEF settings
  <2>2. Served'
    BY <1>2, <2>1 DEF SessionOK, Served
  <2> QED BY <1>2, <1>4, <1>5, <2>1, <2>2 DEF SessionOK, Turns
<1>7. audits' \in [Audits -> AuditStatus]
  BY AuditCancelledType DEF ArriveUnready, QueueIntent, IInv
<1>8. CASE mode # "on"
  <2>1. sup' = sup /\ mode = "off"
    BY <1>8 DEF ArriveUnready, SessionOK, Modes
  <2>2. In(sup.pending, resend) /\ sup.pending # None =>
          In(sup.pending, resend') \/ sup.pending \in lost'
    BY <1>2 DEF Dropped
  <2>3. sup'.run.phase = "execution" => turn' = "running" \/ Driven(sup')
    BY <1>2, <2>1
  <2>4. sup'.pending # None => \/ In(sup'.pending, queue')
                               \/ In(sup'.pending, resend')
                               \/ sup'.pending \in lost'
    BY <1>2, <2>1, <2>2
  <2> QED BY <1>2, <1>6, <1>7, <2>1, <2>3, <2>4, Assemble
<1>9. CASE mode = "on"
  <2>1. sup' = [c EXCEPT !.pending = t] /\ Sound(c) /\ c.run = NoRun
    BY <1>9, CancelSessionFacts DEF ArriveUnready, QueueIntent
  <2> HIDE DEF c
  <2>2. Sound(sup') /\ sup'.pending = t /\ sup'.run = NoRun
    BY <2>1, NewPending
  <2> QED BY <1>2, <1>4, <1>6, <1>7, <1>9, <2>2, Assemble
<1> QED BY <1>8, <1>9

LEMMA SendNowStep ==
  ASSUME IInv, NEW t \in Tasks, SendNow(t) PROVE IInv'
<1> USE Unfold
<1> DEFINE s == IF sends[t] = "on" THEN RegisterTask(sup, t) ELSE sup
<1>1. t \in Messages
  BY DEF Messages
<1>2. /\ Sound(s) /\ s.pending = sup.pending
      /\ sends[t] = "on" => s.run.task = t
      /\ sends[t] # "on" => s.run = sup.run
  BY <1>1, RegisterTaskFacts
<1>3. sup' = [s EXCEPT !.candidate = t, !.answered = FALSE]
  BY DEF SendNow
<1> HIDE DEF s
<1>4. Sound(sup') /\ sup'.run = s.run /\ sup'.pending = s.pending
  BY <1>1, <1>2, <1>3, NewCandidate
<1>5. audits' \in [Audits -> AuditStatus]
  BY AuditCancelledType DEF SendNow, IInv
<1>6. /\ mode' = mode /\ late' = late /\ life' = life /\ queue' = queue
      /\ resend' = resend /\ lost' = lost /\ turn' = "running"
      /\ active' = <<t>> /\ sends' = [sends EXCEPT ![t] = "done"]
      /\ sends[t] \in Modes
  BY DEF SendNow, settings
<1>7. SessionOK'
  <2>1. /\ sends' \in [Tasks -> SendStage] /\ LateSends'
    BY <1>6, SentDone DEF settings
  <2>2. Served' /\ life # "none"
    BY <1>6 DEF SessionOK, Served
  <2> QED BY <1>1, <1>6, <2>1, <2>2, Singleton DEF SessionOK, Turns
<1>8. mode = "off" => OffOK(sup', late)
  BY <1>2, <1>4 DEF OffOK, SessionOK, LateSends
<1>9. sup'.pending # None => \/ In(sup'.pending, queue')
                             \/ In(sup'.pending, resend')
                             \/ sup'.pending \in lost'
  BY <1>2, <1>4, <1>6
<1> QED BY <1>4, <1>5, <1>6, <1>7, <1>8, <1>9, Assemble

LEMMA SendQueuedStep ==
  ASSUME IInv, NEW t \in Tasks, SendQueued(t) PROVE IInv'
<1> USE Unfold
<1> DEFINE c == CancelSession(sup)
<1>1. t \in Messages
  BY DEF Messages
<1>2. /\ mode' = mode /\ late' = late /\ life' = life /\ active' = active
      /\ resend' = resend /\ lost' = lost /\ turn' = turn /\ turn = "running"
      /\ queue' = Append(queue, t) /\ sends' = [sends EXCEPT ![t] = "done"]
      /\ sends[t] \in Modes
  BY DEF SendQueued, settings, Running
<1>3. audits' \in [Audits -> AuditStatus]
  BY AuditCancelledType DEF SendQueued, QueueIntent, IInv
<1>4. queue' \in Seq(Messages) /\ In(t, queue') /\ \A x : In(x, queue) => In(x, queue')
  BY <1>1, <1>2, Appended DEF SessionOK
<1>5. SessionOK'
  <2>1. sends' \in [Tasks -> SendStage] /\ LateSends'
    BY <1>2, SentDone DEF settings
  <2>2. Served'
    BY <1>2 DEF SessionOK, Served
  <2> QED BY <1>2, <1>4, <2>1, <2>2 DEF SessionOK
<1>6. CASE sends[t] # "on"
  <2>1. sup' = sup
    BY <1>6 DEF SendQueued
  <2>2. sup.pending # None => \/ In(sup.pending, queue')
                              \/ In(sup.pending, resend')
                              \/ sup.pending \in lost'
    BY <1>2, <1>4
  <2> QED BY <1>2, <1>3, <1>5, <2>1, <2>2, Assemble
<1>7. CASE sends[t] = "on"
  <2>1. sup' = [c EXCEPT !.pending = t] /\ Sound(c) /\ c.run = NoRun
    BY <1>7, CancelSessionFacts DEF SendQueued, QueueIntent
  <2> HIDE DEF c
  <2>2. Sound(sup') /\ sup'.pending = t /\ sup'.run = NoRun
    BY <2>1, NewPending
  <2>3. mode = "off" => OffOK(sup', late)
    BY <1>7, <2>2 DEF OffOK, SessionOK, LateSends
  <2> QED BY <1>2, <1>3, <1>4, <1>5, <2>2, <2>3, Assemble
<1> QED BY <1>6, <1>7

LEMMA SendThrowsStep ==
  ASSUME IInv, NEW t \in Tasks, NEW j \in Jobs, SendThrows(t, j) PROVE IInv'
<1> USE Unfold
<1>1. /\ mode' = mode /\ late' = late /\ life' = life /\ queue' = queue
      /\ active' = active /\ resend' = resend /\ lost' = lost /\ audits' = audits
      /\ sends' = [sends EXCEPT ![t] = "done"]
      /\ turn' = IF turn = "running" THEN turn ELSE "idle"
      /\ sup' = OnIdle(sup, j)
  BY DEF SendThrows, settings, ReportsIdle, Running
<1>2. SessionOK'
  <2>1. /\ sends' \in [Tasks -> SendStage] /\ LateSends'
        /\ \A u \in Tasks : sends'[u] \in Modes => sends[u] \in Modes
    BY <1>1, SentDone DEF settings
  <2>2. Served'
    BY <1>1, <2>1 DEF SessionOK, Served
  <2> QED BY <1>1, <2>1, <2>2 DEF SessionOK, Turns
<1>3. /\ Sound(sup') /\ sup'.pending = sup.pending
      /\ sup'.run.phase = "execution" => Driven(sup')
      /\ mode = "off" => Tame(sup, sup')
  BY <1>1, OnIdleFacts
<1>4. mode = "off" => OffOK(sup', late)
  BY <1>3, TameIsOff
<1> QED BY <1>1, <1>2, <1>3, <1>4, Assemble

LEMMA UndoStep ==
  ASSUME IInv, NEW i \in 1..Len(queue), NEW j \in Jobs, Undo(i, j) PROVE IInv'
<1> USE Unfold
<1> DEFINE s == WithoutIntent(sup, queue[i])
<1>1. /\ Sound(s) /\ s.run = sup.run /\ s.jobs = sup.jobs
      /\ s.pending \in {sup.pending, None}
      /\ s.pending # None => s.pending # queue[i]
      /\ Tame(sup, s)
  BY WithoutIntentFacts
<1>2. /\ sup' = IF turn = "running" THEN s ELSE OnIdle(s, j)
      /\ turn' = IF turn = "running" THEN turn ELSE "idle"
      /\ mode' = mode /\ late' = late /\ sends' = sends /\ life' = life
      /\ active' = active /\ resend' = resend /\ lost' = lost /\ audits' = audits
      /\ queue' = [k \in 1..(Len(queue) - 1) |->
                     IF k < i THEN queue[k] ELSE queue[k + 1]]
  BY DEF Undo, Running, ReportsIdle, settings
<1>q. queue \in Seq(Messages)
  BY DEF SessionOK
<1> HIDE DEF s
<1>3. Len(queue') = Len(queue) - 1 /\ queue' \in Seq(Messages)
  <2>1. Len(queue) - 1 \in Nat
    BY <1>q
  <2>2. \A k \in 1..(Len(queue) - 1) :
          (IF k < i THEN queue[k] ELSE queue[k + 1]) \in Messages
    BY <1>q
  <2> QED BY <1>2, <2>1, <2>2
<1>4. ASSUME s.pending # None, In(s.pending, queue)
      PROVE  In(s.pending, queue')
  <2>1. PICK k \in 1..Len(queue) : queue[k] = s.pending
    BY <1>4 DEF In
  <2>2. k # i /\ k \in Nat /\ i \in Nat
    BY <1>1, <1>4, <2>1
  <2>3. CASE k < i
    <3>1. k \in 1..(Len(queue) - 1) /\ queue'[k] = queue[k]
      BY <1>2, <1>q, <2>3
    <3> QED BY <1>3, <2>1, <3>1 DEF In
  <2>4. CASE k > i
    <3>1. k - 1 \in 1..(Len(queue) - 1) /\ ~(k - 1 < i)
      BY <1>q, <2>4
    <3>2. queue'[k - 1] = queue[k]
      BY <1>2, <3>1
    <3> QED BY <1>3, <2>1, <3>1, <3>2 DEF In
  <2> QED BY <2>2, <2>3, <2>4
<1>5. SessionOK'
  <2>1. queue = <<>> => FALSE
    BY <1>q
  <2>2. Served' /\ LateSends'
    BY <1>2, <2>1 DEF SessionOK, Served, LateSends
  <2> QED BY <1>2, <1>3, <2>2 DEF SessionOK, Turns
<1>6. /\ Sound(sup') /\ sup'.pending = s.pending
      /\ mode = "off" => Tame(s, sup')
      /\ sup'.run.phase = "execution" => turn' = "running" \/ Driven(sup')
  <2>1. CASE turn = "running"
    BY <1>1, <1>2, <2>1 DEF Tame
  <2>2. CASE turn # "running"
    BY <1>1, <1>2, <2>2, OnIdleFacts
  <2> QED BY <2>1, <2>2
<1>7. mode = "off" => OffOK(sup', late)
  BY <1>1, <1>6, TameIsOff
<1>8. sup'.pending # None => \/ In(sup'.pending, queue')
                             \/ In(sup'.pending, resend')
                             \/ sup'.pending \in lost'
  <2>1. s.pending # None => s.pending = sup.pending
    BY <1>1
  <2> QED BY <1>2, <1>4, <1>6, <2>1
<1> QED BY <1>2, <1>5, <1>6, <1>7, <1>8, Assemble

LEMMA SaveSettingsStep ==
  ASSUME IInv, NEW m \in Modes, NEW j \in Jobs, SaveSettings(m, j) PROVE IInv'
<1> USE Unfold
<1>1. /\ mode' = m /\ audits' \in [Audits -> AuditStatus]
      /\ sends' = sends /\ life' = life /\ turn' = turn /\ queue' = queue
      /\ active' = active /\ resend' = resend /\ lost' = lost
  BY AuditCancelledType DEF SaveSettings, IInv, runtime
<1>2. SessionOK'
  <2>1. late' \subseteq Tasks /\ LateSends'
    BY <1>1 DEF SaveSettings, LateSends
  <2>2. Served'
    BY <1>1 DEF SessionOK, Served
  <2> QED BY <1>1, <2>1, <2>2 DEF SessionOK
<1>3. CASE m = "off"
  <2>1. Sound(sup') /\ sup'.run = NoRun /\ sup'.pending = None
    BY <1>3, CancelSessionFacts DEF SaveSettings
  <2> QED BY <1>1, <1>2, <2>1, Assemble DEF OffOK
<1>4. CASE m # "off" /\ (sup.run # NoRun \/ turn # "idle")
  <2>1. sup' = sup
    BY <1>4 DEF SaveSettings, Active
  <2> QED BY <1>1, <1>2, <1>4, <2>1, Assemble
<1>5. CASE m # "off" /\ sup.run = NoRun /\ turn = "idle"
  <2>1. sup' = StartImplicitRun(sup, j)
    BY <1>5 DEF SaveSettings, Active
  <2>2. /\ Sound(sup') /\ sup'.pending = sup.pending
        /\ sup'.run.phase = "execution" => Driven(sup')
    BY <1>5, <2>1, StartImplicitRunFacts
  <2> QED BY <1>1, <1>2, <1>5, <2>2, Assemble
<1> QED BY <1>3, <1>4, <1>5

LEMMA StopStep ==
  ASSUME IInv, NEW j \in Jobs, Stop(j) PROVE IInv'
<1> USE Unfold
<1> DEFINE s == OnIdle(sup, j)
<1>1. /\ mode' = mode /\ late' = late /\ sends' = sends /\ life' = life
      /\ queue' = queue /\ active' = active /\ resend' = <<>>
      /\ lost' = lost \union Dropped(resend, <<>>)
  BY DEF Stop, settings
<1>2. audits' \in [Audits -> AuditStatus]
  BY AuditCancelledType DEF Stop, IInv
<1>3. SessionOK'
  <2>1. turn' \in Turns /\ (life = "none" => turn' # "running")
    BY DEF Stop, ReportsIdle, Running, SessionOK, Turns, Served
  <2>2. Served' /\ LateSends'
    BY <1>1, <2>1 DEF SessionOK, Served, LateSends
  <2>3. Dropped(resend, <<>>) \subseteq Tasks
    BY DEF Dropped
  <2> QED BY <1>1, <2>1, <2>2, <2>3, Empty DEF SessionOK
<1>4. /\ Sound(s) /\ s.pending = sup.pending
      /\ s.run.phase = "execution" => Driven(s)
      /\ mode = "off" => Tame(sup, s)
  BY OnIdleFacts
<1>5. CASE life = "up"
  <2>1. sup' = CancelSession(s)
    BY <1>5 DEF Stop
  <2> HIDE DEF s
  <2>2. Sound(sup') /\ sup'.run = NoRun /\ sup'.pending = None
    BY <1>4, <2>1, CancelSessionFacts
  <2> QED BY <1>2, <1>3, <2>2, Assemble DEF OffOK
<1>6. CASE life # "up"
  <2>1. sup' = s
    BY <1>6 DEF Stop
  <2> HIDE DEF s
  <2>2. mode = "off" => OffOK(sup', late)
    BY <1>4, <2>1, TameIsOff
  <2>3. In(sup.pending, resend) /\ sup.pending # None => sup.pending \in lost'
    BY <1>1, Empty DEF Dropped
  <2> QED BY <1>1, <1>2, <1>3, <1>4, <2>1, <2>2, <2>3, Assemble
<1> QED BY <1>5, <1>6

LEMMA AssistantTextStep == ASSUME IInv, AssistantText PROVE IInv'
<1> USE Unfold
<1>1. /\ UNCHANGED <<mode, late, turn, queue, resend, lost, audits>>
      /\ UNCHANGED <<settings, sends, runtime>> /\ turn = "running"
      /\ sup' = OnAssistantText(sup)
  BY DEF AssistantText, Running, settings, runtime
<1>2. Sound(sup') /\ sup'.pending = sup.pending /\ Tame(sup, sup')
  BY <1>1, OnAssistantTextFacts
<1>3. mode = "off" => OffOK(sup', late)
  BY <1>2, TameIsOff
<1>4. SessionOK'
  BY <1>1, SameSession
<1> QED BY <1>1, <1>2, <1>3, <1>4, Assemble

LEMMA TurnEndsStep ==
  ASSUME IInv, NEW j \in Jobs, TurnEnds(j) PROVE IInv'
<1> USE Unfold
<1>1. /\ mode' = mode /\ late' = late /\ sends' = sends /\ life' = life
      /\ queue' = <<>> /\ active' = queue /\ resend' = resend /\ lost' = lost
      /\ turn = "running" /\ life = "up"
  BY DEF TurnEnds, settings, Running
<1>2. audits' \in [Audits -> AuditStatus]
  BY AuditCancelledType DEF TurnEnds, Delivered, IInv
<1>3. SessionOK'
  <2>1. turn' \in Turns
    BY DEF TurnEnds, Turns, SessionOK
  <2>2. Served' /\ LateSends'
    BY <1>1 DEF SessionOK, Served, LateSends
  <2> QED BY <1>1, <2>1, <2>2, Empty DEF SessionOK
<1>4. queue \in Seq(Messages)
  BY DEF SessionOK
<1>5. CASE queue # <<>>
  <2>1. sup' = OnDelivered(sup, queue) /\ turn' = turn
    BY <1>5 DEF TurnEnds, Delivered
  <2>2. /\ Sound(sup')
        /\ sup'.pending = IF In(sup.pending, queue) THEN None ELSE sup.pending
        /\ mode = "off" => OffOK(sup', late)
    BY <1>4, <1>5, <2>1, OnDeliveredFacts
  <2> QED BY <1>1, <1>2, <1>3, <2>1, <2>2, Assemble
<1>6. CASE queue = <<>>
  <2>1. sup' = OnIdle(sup, j) /\ ~In(sup.pending, queue)
    BY <1>6, Empty DEF TurnEnds
  <2>2. /\ Sound(sup') /\ sup'.pending = sup.pending
        /\ mode = "off" => Tame(sup, sup')
        /\ sup'.run.phase = "execution" => Driven(sup')
    BY <2>1, OnIdleFacts
  <2>3. mode = "off" => OffOK(sup', late)
    BY <2>2, TameIsOff
  <2> QED BY <1>1, <1>2, <1>3, <2>1, <2>2, <2>3, Assemble
<1> QED BY <1>5, <1>6

LEMMA TurnFailsStep == ASSUME IInv, TurnFails PROVE IInv'
<1> USE Unfold
<1>1. /\ mode' = mode /\ late' = late /\ sends' = sends /\ queue' = queue
      /\ lost' = lost /\ audits' = audits /\ turn' = "other" /\ active' = <<>>
      /\ life = "up" /\ sup' = OnBlocked(sup)
  BY DEF TurnFails, settings
<1>2. /\ resend = <<>>
      /\ \/ life' = "up" /\ resend' = resend
         \/ /\ life' = "ending"
            /\ resend' \in {Capped(resend \o active), resend}
  BY <1>1 DEF TurnFails, SessionOK, Served
<1>3. SessionOK'
  <2>1. resend' \in Seq(Messages)
    <3>1. resend \in Seq(Messages) /\ active \in Seq(Messages)
      BY DEF SessionOK
    <3>2. resend \o active \in Seq(Messages)
      BY <3>1, ConcatProperties
    <3> QED BY <1>2, <3>1, <3>2, CappedFacts
  <2>2. Served' /\ LateSends'
    BY <1>1, <1>2 DEF SessionOK, Served, LateSends
  <2> QED BY <1>1, <1>2, <2>1, <2>2, Empty DEF SessionOK, Turns
<1>4. /\ Sound(sup') /\ sup'.pending = sup.pending
      /\ sup'.run.phase # "execution" /\ Tame(sup, sup')
  BY <1>1, OnBlockedFacts
<1>5. mode = "off" => OffOK(sup', late)
  BY <1>4, TameIsOff
<1>6. ~In(sup.pending, resend)
  BY <1>2, Empty
<1> QED BY <1>1, <1>3, <1>4, <1>5, <1>6, Assemble

LEMMA RelaunchStep == ASSUME IInv, Relaunch PROVE IInv'
<1> USE Unfold
<1>1. /\ mode' = mode /\ late' = late /\ sends' = sends /\ turn' = turn
      /\ queue' = queue /\ resend' = resend /\ lost' = lost /\ audits' = audits
      /\ life' = "ending" /\ active' = <<>> /\ sup' = sup
  BY DEF Relaunch, settings
<1>2. SessionOK'
  <2>1. Served' /\ LateSends'
    BY <1>1 DEF SessionOK, Served, LateSends
  <2> QED BY <1>1, <2>1, Empty DEF SessionOK
<1> QED BY <1>1, <1>2, Assemble DEF Driven

LEMMA KillReturnsStep ==
  ASSUME IInv, NEW j \in Jobs, KillReturns(j) PROVE IInv'
<1> USE Unfold
<1>1. /\ mode' = mode /\ late' = late /\ life' = "none"
      /\ turn' = "idle" \/ (turn # "running" /\ turn' = turn)
      /\ queue' = <<>> /\ active' = <<>> /\ resend' = resend /\ audits' = audits
      /\ lost' = lost \union Dropped(queue, <<>>)
      /\ sends' = [t \in Tasks |-> IF sends[t] \in Modes THEN "orphaned" ELSE sends[t]]
      /\ sup' = OnIdle(sup, j) \/ (turn # "running" /\ sup' = sup)
  BY DEF KillReturns, settings, Running
<1>r. turn' \in Turns /\ turn' # "running"
  BY <1>1 DEF SessionOK, Turns
<1>2. SessionOK'
  <2>1. /\ sends' \in [Tasks -> SendStage]
        /\ \A t \in Tasks : sends'[t] \notin Modes
    BY <1>1 DEF SessionOK, SendStage, Modes
  <2>2. Served' /\ LateSends'
    BY <1>1, <1>r, <2>1 DEF Served, LateSends, Modes
  <2>3. Dropped(queue, <<>>) \subseteq Tasks
    BY DEF Dropped
  <2> QED BY <1>1, <1>r, <2>1, <2>2, <2>3, Empty DEF SessionOK
<1>3. /\ Sound(sup') /\ sup'.pending = sup.pending
      /\ sup'.run.phase = "execution" => Driven(sup')
      /\ mode = "off" => Tame(sup, sup')
  <2>1. CASE sup' = OnIdle(sup, j)
    BY <2>1, OnIdleFacts
  <2>2. CASE turn # "running" /\ sup' = sup
    BY <2>2 DEF Tame
  <2> QED BY <1>1, <2>1, <2>2
<1>4. mode = "off" => OffOK(sup', late)
  BY <1>3, TameIsOff
<1>5. In(sup.pending, queue) /\ sup.pending # None => sup.pending \in lost'
  BY <1>1, Empty DEF Dropped
<1> QED BY <1>1, <1>2, <1>3, <1>4, <1>5, Assemble

LEMMA LaunchSucceedsStep == ASSUME IInv, LaunchSucceeds PROVE IInv'
<1> USE Unfold
<1>1. PICK expired \in 0..Len(resend) :
        LET fit == SubSeq(resend, expired + 1, Len(resend)) IN
        /\ lost' = lost \union Dropped(resend, fit)
        /\ IF fit = <<>>
             THEN /\ turn' = "other"
                  /\ UNCHANGED <<queue, active, sup, audits>>
             ELSE /\ turn' = "running"
                  /\ active' = <<Head(fit)>> /\ queue' = Tail(fit)
                  /\ Delivered(<<Head(fit)>>)
  BY DEF LaunchSucceeds
<1> DEFINE fit == SubSeq(resend, expired + 1, Len(resend))
<1>2. /\ mode' = mode /\ late' = late /\ sends' = sends
      /\ life = "none" /\ life' = "up" /\ resend' = <<>>
  BY DEF LaunchSucceeds, settings
<1>3. turn # "running" /\ queue = <<>> /\ resend \in Seq(Messages)
  BY <1>2 DEF SessionOK, Served
<1>4. fit \in Seq(Messages)
  <2>1. expired + 1 \in 1..(Len(resend) + 1)
    BY <1>3
  <2> QED BY <1>3, <2>1, Suffix
<1>5. /\ lost' = lost \union Dropped(resend, fit)
      /\ fit = <<>> => turn' = "other" /\ UNCHANGED <<queue, active, sup, audits>>
      /\ fit # <<>> => /\ turn' = "running" /\ active' = <<Head(fit)>>
                       /\ queue' = Tail(fit) /\ Delivered(<<Head(fit)>>)
  BY <1>1
<1> HIDE DEF fit
<1>6. fit # <<>> =>
        /\ Head(fit) \in Messages /\ Tail(fit) \in Seq(Messages)
        /\ \A x : In(x, fit) => x = Head(fit) \/ In(x, Tail(fit))
  <2> SUFFICES ASSUME fit # <<>>
               PROVE  /\ Head(fit) \in Messages /\ Tail(fit) \in Seq(Messages)
                      /\ \A x : In(x, fit) => x = Head(fit) \/ In(x, Tail(fit))
    OBVIOUS
  <2>1. /\ Head(fit) \in Messages /\ Tail(fit) \in Seq(Messages)
        /\ Len(Tail(fit)) = Len(fit) - 1
        /\ \A i \in 1..Len(Tail(fit)) : Tail(fit)[i] = fit[i + 1]
    BY <1>4, HeadTailProperties
  <2>2. Head(fit) = fit[1]
    BY <1>4
  <2>3. ASSUME NEW i \in 1..Len(fit)
        PROVE  fit[i] = Head(fit) \/ In(fit[i], Tail(fit))
    <3>1. CASE i = 1
      BY <2>2, <3>1
    <3>2. CASE i # 1
      <4>1. i - 1 \in 1..Len(Tail(fit)) /\ (i - 1) + 1 = i
        BY <1>4, <2>1, <3>2
      <4>2. Tail(fit)[i - 1] = fit[i]
        BY <2>1, <4>1
      <4> QED BY <4>1, <4>2 DEF In
    <3> QED BY <3>1, <3>2
  <2> QED BY <2>1, <2>3 DEF In
<1>7. Dropped(resend, fit) \subseteq Tasks
  BY DEF Dropped
<1>8. In(sup.pending, resend) /\ sup.pending # None =>
        In(sup.pending, fit) \/ sup.pending \in lost'
  BY <1>5 DEF Dropped
<1>9. ~In(sup.pending, queue)
  BY <1>3, Empty
<1>10. CASE fit = <<>>
  <2>1. /\ turn' = "other" /\ queue' = queue /\ active' = active /\ sup' = sup
        /\ audits' = audits
    BY <1>5, <1>10
  <2>2. SessionOK'
    <3>1. Served' /\ LateSends'
      BY <1>2, <2>1 DEF SessionOK, Served, LateSends
    <3> QED BY <1>2, <1>5, <1>7, <2>1, <3>1, Empty DEF SessionOK, Turns
  <2>3. sup.pending # None => sup.pending \in lost'
    BY <1>5, <1>8, <1>9, <1>10, Empty
  <2> QED BY <1>2, <1>3, <2>1, <2>2, <2>3, Assemble
<1>11. CASE fit # <<>>
  <2>1. /\ turn' = "running" /\ active' = <<Head(fit)>> /\ queue' = Tail(fit)
        /\ sup' = OnDelivered(sup, <<Head(fit)>>)
    BY <1>5, <1>11 DEF Delivered
  <2>2. audits' \in [Audits -> AuditStatus]
    BY <1>5, <1>11, AuditCancelledType DEF Delivered, IInv
  <2>3. /\ <<Head(fit)>> \in Seq(Messages) /\ <<Head(fit)>> # <<>>
        /\ \A x : In(x, <<Head(fit)>>) <=> x = Head(fit)
    BY <1>6, <1>11, Singleton
  <2>4. /\ Sound(sup')
        /\ sup'.pending = IF In(sup.pending, <<Head(fit)>>) THEN None ELSE sup.pending
        /\ mode = "off" => OffOK(sup', late)
    BY <2>1, <2>3, OnDeliveredFacts
  <2>5. SessionOK'
    <3>1. Served' /\ LateSends'
      BY <1>2 DEF SessionOK, Served, LateSends
    <3> QED BY <1>2, <1>5, <1>6, <1>7, <1>11, <2>1, <2>3, <3>1, Empty
            DEF SessionOK, Turns
  <2>6. sup'.pending # None => \/ In(sup'.pending, queue')
                               \/ sup'.pending \in lost'
    <3>1. sup'.pending # None => sup'.pending = sup.pending /\ sup.pending # Head(fit)
      BY <2>3, <2>4
    <3>2. lost \subseteq lost'
      BY <1>5
    <3> QED BY <1>6, <1>8, <1>9, <1>11, <2>1, <3>1, <3>2
  <2> QED BY <1>2, <2>1, <2>2, <2>4, <2>5, <2>6, Assemble
<1> QED BY <1>10, <1>11

(* A continuation, for which the session stands still.                      *)
LEMMA Continued ==
  ASSUME IInv, UNCHANGED <<settings, sends, runtime>>,
         audits' \in [Audits -> AuditStatus],
         Sound(sup'), Tame(sup, sup'), sup'.pending = sup.pending,
         sup'.run.phase = "execution" => turn = "running" \/ Driven(sup')
  PROVE  IInv'
<1> USE Unfold
<1>1. /\ mode' = mode /\ late' = late /\ turn' = turn /\ queue' = queue
      /\ resend' = resend /\ lost' = lost
  BY DEF settings, runtime
<1>2. SessionOK'
  BY SameSession
<1>3. mode = "off" => OffOK(sup', late)
  BY TameIsOff
<1> QED BY <1>1, <1>2, <1>3, Assemble

(* The prompt joins the queue or starts the turn; the intents stay put.     *)
LEMMA Prompted ==
  ASSUME IInv, UNCHANGED <<settings, sends, audits>>, SendPrompt,
         Sound(sup'), Tame(sup, sup'), sup'.pending = sup.pending
  PROVE  IInv'
<1> USE Unfold
<1>1. Prompt \in Messages /\ queue \in Seq(Messages)
  BY DEF Messages, SessionOK
<1>2. /\ mode' = mode /\ late' = late /\ sends' = sends /\ audits' = audits
      /\ life' = life /\ life = "up" /\ resend' = resend /\ lost' = lost
      /\ turn' = "running" /\ queue' \in {queue, Append(queue, Prompt)}
      /\ active' \in {active, <<Prompt>>}
  BY DEF SendPrompt, settings
<1>3. /\ queue' \in Seq(Messages) /\ active' \in Seq(Messages)
      /\ In(sup.pending, queue) => In(sup.pending, queue')
  <2>1. /\ Append(queue, Prompt) \in Seq(Messages)
        /\ In(sup.pending, queue) => In(sup.pending, Append(queue, Prompt))
    BY <1>1, Appended
  <2>2. <<Prompt>> \in Seq(Messages) /\ active \in Seq(Messages)
    BY <1>1, Singleton DEF SessionOK
  <2> QED BY <1>1, <1>2, <2>1, <2>2
<1>4. SessionOK'
  <2>1. Served' /\ LateSends'
    BY <1>2 DEF SessionOK, Served, LateSends
  <2> QED BY <1>2, <1>3, <2>1 DEF SessionOK, Turns
<1>5. mode = "off" => OffOK(sup', late)
  BY TameIsOff
<1> QED BY <1>2, <1>3, <1>4, <1>5, Assemble

(* A continuation that changed neither the run nor the witness of its drive. *)
LEMMA FreeStep ==
  ASSUME IInv, NEW j \in Jobs, sup' = Free(sup, j),
         UNCHANGED <<settings, sends, runtime, audits>>,
         sup.run.phase = "execution" =>
           \/ sup.jobs[j].gen # sup.run.gen
           \/ sup.jobs[j].stage \notin {"deciding", "baseline"}
  PROVE  IInv'
<1> USE Unfold
<1>1. sup.run.evaluating => sup.run.phase = "execution"
  BY DEF Sound
<1>2. /\ Sound(sup') /\ sup'.run = sup.run /\ sup'.pending = sup.pending
      /\ sup'.jobs = [sup.jobs EXCEPT ![j] = FreeJob]
  BY <1>1, FreeFacts
<1>3. sup.run.phase = "execution" /\ Driven(sup) => Driven(sup')
  BY <1>2 DEF Driven
<1> QED BY <1>2, <1>3, Continued DEF Tame

LEMMA DecideStaleStep ==
  ASSUME IInv, NEW j \in Jobs, DecideStale(j) PROVE IInv'
<1>1. sup.run.phase = "execution" => sup.jobs[j].gen # sup.run.gen
  BY Unfold DEF DecideStale, Current, SameGeneration, Active
<1> QED BY <1>1, FreeStep DEF DecideStale

LEMMA HandedBackStep ==
  ASSUME IInv, NEW j \in Jobs,
         \/ sup' = FinishRun(Free(sup, j))
         \/ sup' = DropRun(Free(sup, j)),
         UNCHANGED <<settings, sends, runtime, audits>>
  PROVE  IInv'
<1> USE Unfold
<1>1. Sound(sup') /\ sup'.run = NoRun /\ sup'.pending = sup.pending
  BY HandedBackFacts
<1> QED BY <1>1, Continued DEF Tame

LEMMA DecideContinueStep ==
  ASSUME IInv, NEW j \in Jobs, DecideContinue(j) PROVE IInv'
<1> USE Unfold
<1>1. PICK streak \in {1, sup.run.streak + 1} :
        sup' = [Free(sup, j) EXCEPT
                  !.run.evaluating = FALSE, !.run.saw = FALSE,
                  !.run.loops = @ + 1, !.run.streak = streak]
  BY DEF DecideContinue
<1>2. /\ UNCHANGED <<settings, sends, audits>> /\ SendPrompt
      /\ sup.run # NoRun /\ sup.run.phase = "execution"
  BY DEF DecideContinue, Current, SameGeneration, Active
<1> DEFINE n == [sup.run EXCEPT !.evaluating = FALSE, !.saw = FALSE,
                                !.loops = @ + 1, !.streak = streak]
           f == Free(sup, j)
<1>4. /\ n \in RunType /\ n.phase = "execution" /\ ~n.evaluating
      /\ n.task = sup.run.task
  <2>1. streak \in Nat /\ sup.run.loops + 1 \in Nat
    BY <1>1 DEF RunType
  <2> QED BY <1>2, <2>1 DEF RunType
<1>5. /\ f \in SupType /\ f.run = sup.run /\ f.pending = sup.pending
      /\ f.jobs = [sup.jobs EXCEPT ![j] = FreeJob]
  <2>1. [sup.jobs EXCEPT ![j] = FreeJob] \in [Jobs -> JobType]
    BY Idle
  <2> QED BY <2>1 DEF Free, SupType
<1> HIDE DEF f
<1>6. sup' = [f EXCEPT !.run = n]
  BY <1>1, <1>5 DEF f, SupType
<1> HIDE DEF n
<1>7. /\ sup' \in SupType /\ sup'.run = n /\ sup'.pending = sup.pending
  BY <1>4, <1>5, <1>6 DEF SupType
<1>8. n # NoRun
  BY <1>4, Idle
<1>9. Sound(sup')
  BY <1>4, <1>7, <1>8 DEF Sound
<1> QED BY <1>2, <1>4, <1>7, <1>9, Prompted DEF Tame

LEMMA DecideAuditStep ==
  ASSUME IInv, NEW j \in Jobs, DecideAudit(j) PROVE IInv'
<1> USE Unfold
<1> DEFINE n == [sup.run EXCEPT !.evaluating = FALSE]
           job == [sup.jobs[j] EXCEPT !.stage = "baseline", !.own = TRUE]
           jobs == [sup.jobs EXCEPT ![j] = job]
<1>1. /\ UNCHANGED <<settings, sends, runtime, audits>>
      /\ sup.run # NoRun /\ sup.run.phase = "execution"
      /\ sup.jobs[j].gen = sup.run.gen
      /\ sup' = [sup EXCEPT !.run.evaluating = FALSE,
                            !.jobs[j].stage = "baseline", !.jobs[j].own = TRUE]
  BY DEF DecideAudit, Current, SameGeneration, Active
<1>2. /\ n \in RunType /\ n.phase = "execution" /\ ~n.evaluating
      /\ n.gen = sup.run.gen /\ n.task = sup.run.task
  BY <1>1 DEF RunType
<1>3. job \in JobType /\ job.stage = "baseline" /\ job.gen = sup.run.gen
  BY <1>1 DEF JobType
<1>4. sup' = [sup EXCEPT !.run = n, !.jobs = jobs]
  BY <1>1 DEF SupType
<1> HIDE DEF n, job
<1>5. jobs \in [Jobs -> JobType] /\ jobs[j] = job
  BY <1>3
<1> HIDE DEF jobs
<1>6. /\ sup' \in SupType /\ sup'.run = n /\ sup'.jobs = jobs
      /\ sup'.pending = sup.pending
  BY <1>2, <1>4, <1>5 DEF SupType
<1>7. n # NoRun
  BY <1>2, Idle
<1>8. Sound(sup') /\ Driven(sup')
  BY <1>2, <1>3, <1>5, <1>6, <1>7 DEF Sound, Driven
<1> QED BY <1>1, <1>2, <1>6, <1>8, Continued DEF Tame

LEMMA BaselineReadyStep ==
  ASSUME IInv, NEW j \in Jobs, BaselineReady(j) PROVE IInv'
<1> USE Unfold
<1>1. /\ UNCHANGED <<settings, sends, runtime, audits>>
      /\ sup.jobs[j].stage = "baseline"
  BY DEF BaselineReady
<1>2. CASE ~SameGeneration(j)
  <2>1. sup' = Free(sup, j)
    BY <1>2 DEF BaselineReady
  <2>2. sup.run.phase = "execution" => sup.jobs[j].gen # sup.run.gen
    BY <1>2 DEF SameGeneration, Active
  <2> QED BY <1>1, <2>1, <2>2, FreeStep
<1>3. CASE SameGeneration(j)
  <2> DEFINE n == [sup.run EXCEPT !.phase = "auditing", !.evaluating = FALSE]
             job == [sup.jobs[j] EXCEPT !.stage = "launching", !.own = TRUE]
             jobs == [sup.jobs EXCEPT ![j] = job]
  <2>1. /\ sup.run # NoRun
        /\ sup' = [sup EXCEPT !.run.phase = "auditing", !.run.evaluating = FALSE,
                              !.jobs[j].stage = "launching", !.jobs[j].own = TRUE]
    BY <1>3 DEF BaselineReady, SameGeneration, Active
  <2>2. /\ n \in RunType /\ n.phase = "auditing" /\ ~n.evaluating
        /\ n.task = sup.run.task
    BY DEF RunType
  <2>3. job \in JobType
    BY DEF JobType
  <2>4. sup' = [sup EXCEPT !.run = n, !.jobs = jobs]
    BY <2>1 DEF SupType
  <2> HIDE DEF n, job
  <2>5. jobs \in [Jobs -> JobType]
    BY <2>3
  <2> HIDE DEF jobs
  <2>6. /\ sup' \in SupType /\ sup'.run = n /\ sup'.pending = sup.pending
    BY <2>2, <2>4, <2>5 DEF SupType
  <2>7. n # NoRun
    BY <2>2, Idle
  <2>8. Sound(sup')
    BY <2>2, <2>6, <2>7 DEF Sound
  <2> QED BY <1>1, <2>1, <2>2, <2>6, <2>8, Continued DEF Tame
<1> QED BY <1>2, <1>3

LEMMA LaunchAuditStep ==
  ASSUME IInv, NEW j \in Jobs, NEW a \in Audits, LaunchAudit(j, a) PROVE IInv'
<1> USE Unfold
<1> DEFINE f == Free(sup, j)
           s == [f EXCEPT !.poller = [gen |-> sup.jobs[j].gen, audit |-> a]]
           n == [sup.run EXCEPT !.audit = a]
<1>1. /\ UNCHANGED <<settings, sends, runtime>> /\ sup.jobs[j].stage = "launching"
      /\ audits' = [audits EXCEPT ![a] = "live"]
      /\ sup' = IF sup.jobs[j].own THEN [s EXCEPT !.run.audit = a] ELSE s
  BY DEF LaunchAudit
<1>2. audits' \in [Audits -> AuditStatus]
  BY <1>1 DEF AuditStatus
<1>3. /\ Sound(f) /\ f.run = sup.run /\ f.pending = sup.pending
      /\ f.jobs = [sup.jobs EXCEPT ![j] = FreeJob] /\ f \in SupType
  BY <1>1, FreeFacts DEF Sound
<1>4. [gen |-> sup.jobs[j].gen, audit |-> a]
        \in [gen : Nat, audit : Audits \union {None}]
  BY DEF JobType
<1> HIDE DEF f
<1>5. /\ s \in SupType /\ s.run = sup.run /\ s.jobs = f.jobs
      /\ s.pending = sup.pending
  BY <1>3, <1>4 DEF SupType
<1>6. Sound(s)
  BY <1>3, <1>5, SameRun
<1> HIDE DEF s
<1>7. /\ n \in RunType /\ n.phase = sup.run.phase /\ n.gen = sup.run.gen
      /\ n.evaluating = sup.run.evaluating /\ n.task = sup.run.task
  BY DEF RunType
<1>8. CASE ~sup.jobs[j].own
  <2>1. Driven(sup) => Driven(s)
    BY <1>1, <1>3, <1>5, Idle DEF Driven
  <2> QED BY <1>1, <1>2, <1>5, <1>6, <1>8, <2>1, Continued DEF Tame
<1>9. CASE sup.jobs[j].own
  <2>1. sup.run # NoRun /\ sup.run.phase # "none"
    BY <1>9 DEF Sound
  <2>2. n # NoRun
    BY <1>7, <2>1, Idle
  <2>3. sup' = [s EXCEPT !.run = n]
    BY <1>1, <1>5, <1>9 DEF SupType
  <2> HIDE DEF n
  <2>4. /\ sup' \in SupType /\ sup'.run = n /\ sup'.jobs = s.jobs
        /\ sup'.pending = sup.pending
    BY <1>5, <1>7, <2>3 DEF SupType
  <2>5. Sound(sup')
    <3>1. Deciding(s) => Deciding(sup')
      BY <1>5, <1>7, <2>4 DEF Deciding
    <3>2. n.evaluating => n.phase = "execution" /\ Deciding(s)
      BY <1>5, <1>6, <1>7 DEF Sound
    <3>3. n.phase # "none"
      BY <1>7, <2>1
    <3>4. n.evaluating => n.phase = "execution" /\ Deciding(sup')
      BY <3>1, <3>2
    <3> QED BY <2>2, <2>4, <3>3, <3>4 DEF Sound
  <2>6. Driven(sup) => Driven(sup')
    BY <1>1, <1>3, <1>5, <1>7, <2>4, Idle DEF Driven
  <2> QED BY <1>1, <1>2, <1>7, <2>1, <2>4, <2>5, <2>6, Continued DEF Tame
<1> QED BY <1>8, <1>9

LEMMA PollStaleStep == ASSUME IInv, PollStale PROVE IInv'
<1> DEFINE t == [sup EXCEPT !.poller = NoPoller]
<1>1. UNCHANGED <<settings, sends, runtime, audits>> /\ sup' = t
  BY DEF PollStale
<1>2. /\ t \in SupType /\ t.run = sup.run /\ t.jobs = sup.jobs
      /\ t.pending = sup.pending
  BY Unfold, Idle DEF SupType
<1> HIDE DEF t
<1>3. Sound(t)
  BY <1>2, Unfold, SameRun
<1> QED BY <1>1, <1>2, <1>3, Unfold, Continued DEF Driven, Tame

LEMMA PollSettlesStep == ASSUME IInv, PollSettles PROVE IInv'
<1> USE Unfold
<1>1. UNCHANGED <<settings, sends, runtime, audits>> /\ sup' = DropRun(sup)
  BY DEF PollSettles
<1>2. Sound(sup') /\ sup'.run = NoRun /\ sup'.pending = sup.pending
  BY <1>1, DropRunFacts
<1> QED BY <1>1, <1>2, Continued DEF Tame

LEMMA PollReworkStep == ASSUME IInv, PollRework PROVE IInv'
<1> USE Unfold
<1> DEFINE n == [sup.run EXCEPT !.phase = "execution", !.audit = None,
                                !.evaluating = FALSE, !.saw = FALSE,
                                !.reworks = @ + 1]
<1>1. /\ UNCHANGED <<settings, sends, audits>> /\ SendPrompt /\ sup.run # NoRun
      /\ sup' = [sup EXCEPT !.run.phase = "execution", !.run.audit = None,
                        !.run.evaluating = FALSE, !.run.saw = FALSE,
                        !.run.reworks = @ + 1, !.poller = NoPoller]
  BY DEF PollRework, Watching, Active
<1>3. /\ n \in RunType /\ n.phase = "execution" /\ ~n.evaluating
      /\ n.task = sup.run.task
  <2>1. sup.run.reworks + 1 \in Nat
    BY DEF RunType
  <2> QED BY <2>1 DEF RunType
<1>4. sup' = [sup EXCEPT !.run = n, !.poller = NoPoller]
  BY <1>1 DEF SupType
<1> HIDE DEF n
<1>5. /\ sup' \in SupType /\ sup'.run = n /\ sup'.pending = sup.pending
  BY <1>3, <1>4, Idle DEF SupType
<1>6. n # NoRun
  BY <1>3, Idle
<1>7. Sound(sup')
  BY <1>3, <1>5, <1>6 DEF Sound
<1> QED BY <1>1, <1>3, <1>5, <1>7, Prompted DEF Tame

LEMMA AuditStep ==
  ASSUME IInv, NEW a \in Audits,
         \/ \E status \in Terminal : AuditEnds(a, status)
         \/ AuditCancelledByUser(a) \/ AuditLeavesTable(a)
  PROVE  IInv'
<1> USE Unfold
<1>1. UNCHANGED <<settings, sends, runtime>> /\ sup' = sup
  BY DEF AuditEnds, AuditCancelledByUser, AuditLeavesTable
<1>2. audits' \in [Audits -> AuditStatus]
  BY DEF AuditEnds, AuditCancelledByUser, AuditLeavesTable, AuditStatus, Terminal
<1> QED BY <1>1, <1>2, Continued DEF Driven, Tame

LEMMA NextIInv == IInv /\ [Next]_vars => IInv'
<1> SUFFICES ASSUME IInv, [Next]_vars PROVE IInv'
  OBVIOUS
<1>1. ASSUME NEW t \in Tasks,
             Arrive(t) \/ ArriveUnready(t) \/ SendNow(t) \/ SendQueued(t)
      PROVE  IInv'
  BY <1>1, ArriveStep, ArriveUnreadyStep, SendNowStep, SendQueuedStep
<1>2. CASE AssistantText \/ TurnFails \/ Relaunch \/ LaunchSucceeds
  BY <1>2, AssistantTextStep, TurnFailsStep, RelaunchStep, LaunchSucceedsStep
<1>3. ASSUME NEW j \in Jobs, IdleBoundary(j) PROVE IInv'
  BY <1>3, SendThrowsStep, UndoStep, SaveSettingsStep, StopStep, TurnEndsStep,
     KillReturnsStep DEF IdleBoundary
<1>4. ASSUME NEW j \in Jobs, Decide(j) PROVE IInv'
  BY <1>4, DecideStaleStep, HandedBackStep, DecideContinueStep, DecideAuditStep
     DEF Decide, DecideHandBack, HandedBack
<1>5. ASSUME NEW j \in Jobs, Baseline(j) PROVE IInv'
  BY <1>5, BaselineReadyStep, HandedBackStep DEF Baseline, BaselineFails
<1>6. ASSUME NEW j \in Jobs, Launch(j) PROVE IInv'
  BY <1>6, LaunchAuditStep, HandedBackStep DEF Launch, LaunchFails
<1>7. CASE Poll
  BY <1>7, PollStaleStep, PollSettlesStep, PollReworkStep DEF Poll
<1>8. ASSUME NEW a \in Audits,
             \/ \E status \in Terminal : AuditEnds(a, status)
             \/ AuditCancelledByUser(a) \/ AuditLeavesTable(a)
      PROVE  IInv'
  BY <1>8, AuditStep
<1>9. CASE UNCHANGED vars
  <2>1. UNCHANGED <<settings, sends, runtime, audits>> /\ sup' = sup
    BY <1>9 DEF vars
  <2> QED BY <2>1, Unfold, Continued DEF Driven, Tame
<1> QED BY <1>1, <1>2, <1>3, <1>4, <1>5, <1>6, <1>7, <1>8, <1>9 DEF Next

-----------------------------------------------------------------------------
(* Every variable keeps its type, for any tasks, evaluations and audits.    *)
THEOREM TypeCorrect == Spec => []TypeOK
<1>1. IInv => TypeOK
  BY DEF IInv
<1> QED BY InitIInv, NextIInv, <1>1, PTL DEF Spec

(* With supervision off the only run or intent is the task of a send that   *)
(* had read the settings before they were switched off, whatever            *)
(* continuations, drains and relaunches are still to come (cancelSession,   *)
(* handleSend's snapshot).                                                  *)
THEOREM OffIsInert == Spec => []OffMeansInert
<1>1. IInv => OffMeansInert
  BY DEF IInv
<1> QED BY InitIInv, NextIInv, <1>1, PTL DEF Spec

(* A waiting intent has its message in the runtime's queue or in the resend *)
(* queue, through errors, kills, relaunches and drains, unless the session  *)
(* has dropped that message (pendingTaskIntents).                           *)
THEOREM IntentsAreQueued == Spec => []IntentIsQueued
<1>1. IInv => IntentIsQueued
  BY DEF IInv
<1> QED BY InitIInv, NextIInv, <1>1, PTL DEF Spec

(* A run in its execution phase has a turn, an evaluation or a baseline of  *)
(* its own generation that will drive it on, even when its runtime is       *)
(* killed under it.                                                         *)
THEOREM RunsAreDriven == Spec => []RunIsDriven
<1>1. IInv => RunIsDriven
  BY DEF IInv
<1> QED BY InitIInv, NextIInv, <1>1, PTL DEF Spec

-----------------------------------------------------------------------------
(* The audits of a run: a continuation that holds the active run has its    *)
(* generation, and a run under audit without one is being given one.        *)

LaunchPending(s) ==
  \E j \in Jobs : s.jobs[j].stage = "launching" /\ s.jobs[j].own
InBudget(r) ==
  /\ r.loops <= MaxContinue /\ r.streak <= MaxStreak /\ r.streak <= r.loops
  /\ r.reworks <= MaxAuditLoops
Held(s) ==
  /\ \A j \in Jobs : s.jobs[j].own => s.jobs[j].gen = s.run.gen
  /\ s.run.phase = "auditing" /\ s.run.audit = None => LaunchPending(s)
  /\ InBudget(s.run)

WatchedBy(s) ==
  /\ s.run # NoRun /\ s.run.phase = "auditing"
  /\ s.poller = [gen |-> s.run.gen, audit |-> s.run.audit]
(* An audit under watch stays so, or stops being this run's concern.        *)
KeepsWatch(s, t) == WatchedBy(s) => WatchedBy(t) \/ t.run.phase # "auditing"

LEMMA NoBudgetSpent ==
  ASSUME NEW g, NEW t, NEW ph
  PROVE  InBudget(FreshRun(g, t, ph))
<1>1. /\ MaxContinue >= 0 /\ MaxStreak >= 0 /\ MaxAuditLoops >= 0
  BY SupervisionAssumption
<1> QED BY <1>1 DEF FreshRun, InBudget

LEMMA EndedIsHeld ==
  ASSUME NEW s, NEW t, Sound(t), t.run = NoRun
  PROVE  Held(t) /\ KeepsWatch(s, t)
<1>1. InBudget(NoRun)
  BY NoBudgetSpent DEF NoRun
<1>2. \A j \in Jobs : ~t.jobs[j].own
  BY DEF Sound
<1> QED BY <1>1, <1>2, Idle DEF Held, KeepsWatch

LEMMA SameIsHeld ==
  ASSUME NEW s, Held(s), NEW t, t.run = s.run, t.jobs = s.jobs,
         t.poller = s.poller
  PROVE  Held(t) /\ KeepsWatch(s, t)
BY DEF Held, LaunchPending, KeepsWatch, WatchedBy

LEMMA RegisteredIsHeld ==
  ASSUME NEW s, Sound(s), NEW t \in Messages
  PROVE  LET r == RegisterTask(s, t)
         IN  Held(r) /\ r.run.phase = "execution"
<1> DEFINE r == RegisterTask(s, t)
           n == FreshRun(s.run.gen + 1, t, "execution")
<1>1. s \in SupType /\ s.jobs \in [Jobs -> JobType]
  BY DEF Sound, SupType
<1>2. InBudget(n) /\ n.phase = "execution"
  <2>1. n.phase = "execution"
    BY DEF FreshRun
  <2> QED BY <2>1, NoBudgetSpent
<1> HIDE DEF n
<1>3. r.run = n /\ r.jobs = Detached(s.jobs)
  BY <1>1 DEF RegisterTask, n, SupType
<1> HIDE DEF r
<1>4. \A j \in Jobs : ~r.jobs[j].own
  BY <1>1, <1>3, DetachedFacts
<1>5. Held(r) /\ r.run.phase = "execution"
  BY <1>2, <1>3, <1>4 DEF Held
<1> QED BY <1>5 DEF r

LEMMA EvaluatedIsHeld ==
  ASSUME NEW s, Sound(s), Held(s), NEW j \in Jobs, s.run.phase = "execution"
  PROVE  LET e == Evaluate(s, j)
         IN  Held(e) /\ e.run.phase = "execution"
<1> DEFINE e == Evaluate(s, j)
           job == [stage |-> "deciding", gen |-> s.run.gen, own |-> TRUE]
           n == [s.run EXCEPT !.evaluating = TRUE]
<1>1. s \in SupType /\ s.jobs \in [Jobs -> JobType] /\ s.run \in RunType
  BY DEF Sound, SupType
<1>2. /\ n.phase = "execution" /\ n.gen = s.run.gen /\ n.audit = s.run.audit
      /\ n.loops = s.run.loops /\ n.streak = s.run.streak
      /\ n.reworks = s.run.reworks
  BY <1>1 DEF RunType
<1>3. e.run = n /\ e.jobs = [s.jobs EXCEPT ![j] = job]
  BY <1>1 DEF Evaluate, SupType
<1>4. job.gen = s.run.gen
  OBVIOUS
<1> HIDE DEF n, e, job
<1>5. \A k \in Jobs : e.jobs[k].own => e.jobs[k].gen = e.run.gen
  BY <1>1, <1>2, <1>3, <1>4 DEF Held
<1>6. InBudget(e.run)
  BY <1>2, <1>3 DEF Held, InBudget
<1>7. Held(e) /\ e.run.phase = "execution"
  BY <1>2, <1>3, <1>5, <1>6 DEF Held
<1> QED BY <1>7 DEF e

LEMMA StartImplicitRunHeld ==
  ASSUME NEW s, Sound(s), NEW j \in Jobs, s.run = NoRun
  PROVE  LET i == StartImplicitRun(s, j)
         IN  Held(i) /\ KeepsWatch(s, i)
<1>1. s \in SupType
  BY DEF Sound
<1>0. Held(s)
  BY EndedIsHeld
<1>2. CASE s.candidate = None
  BY <1>0, <1>2, SameIsHeld DEF StartImplicitRun
<1>3. CASE s.candidate # None /\ ~s.answered
  <2> DEFINE t == [s EXCEPT !.candidate = None]
  <2>1. StartImplicitRun(s, j) = t
    BY <1>3 DEF StartImplicitRun
  <2>2. t.run = s.run /\ t.jobs = s.jobs /\ t.poller = s.poller
    BY <1>1 DEF SupType
  <2> HIDE DEF t
  <2>3. Held(t) /\ KeepsWatch(s, t)
    BY <1>0, <2>2, SameIsHeld
  <2> QED BY <2>1, <2>3
<1>4. CASE s.candidate # None /\ s.answered
  <2> DEFINE r == RegisterTask(s, s.candidate)
             t == [r EXCEPT !.run.saw = TRUE]
             n == [r.run EXCEPT !.saw = TRUE]
  <2>1. s.candidate \in Messages
    BY <1>1, <1>4 DEF SupType
  <2>2. /\ Sound(r) /\ r.run.phase = "execution" /\ ~r.run.evaluating
        /\ r.run # NoRun /\ r \in SupType /\ Held(r)
    BY <2>1, RegisterTaskFacts, RegisteredIsHeld DEF Sound
  <2>9. StartImplicitRun(s, j) = Evaluate(t, j)
    BY <1>4 DEF StartImplicitRun
  <2> HIDE DEF r
  <2>3. r.run \in RunType
    BY <2>2 DEF SupType
  <2>4. /\ n \in RunType /\ n.phase = "execution" /\ ~n.evaluating
        /\ n.gen = r.run.gen /\ n.audit = r.run.audit
        /\ n.loops = r.run.loops /\ n.streak = r.run.streak
        /\ n.reworks = r.run.reworks
    BY <2>2, <2>3 DEF RunType
  <2> HIDE DEF n
  <2>5. t \in SupType /\ t.run = n /\ t.jobs = r.jobs
    BY <2>2, <2>4 DEF SupType, n
  <2> HIDE DEF t
  <2>6. Sound(t)
    <3>1. n # NoRun
      BY <2>4, Idle
    <3> QED BY <2>4, <2>5, <3>1 DEF Sound
  <2>7. Held(t)
    BY <2>2, <2>4, <2>5 DEF Held, InBudget
  <2> DEFINE e == Evaluate(t, j)
  <2>8. Held(e) /\ e.run.phase = "execution"
    BY <2>4, <2>5, <2>6, <2>7, EvaluatedIsHeld
  <2> HIDE DEF e
  <2>10. StartImplicitRun(s, j) = e
    BY <2>9 DEF e
  <2> QED BY <2>8, <2>10 DEF KeepsWatch
<1> QED BY <1>2, <1>3, <1>4

LEMMA OnIdleHeld ==
  ASSUME NEW s, Sound(s), Held(s), NEW j \in Jobs
  PROVE  LET i == OnIdle(s, j)
         IN  Held(i) /\ KeepsWatch(s, i)
<1>1. CASE s.run = NoRun /\ mode # "off"
  BY <1>1, StartImplicitRunHeld DEF OnIdle, Active
<1>2. CASE \/ s.run = NoRun /\ mode = "off"
           \/ s.run # NoRun /\ (s.run.phase # "execution" \/ s.run.evaluating)
  <2>1. OnIdle(s, j) = s
    BY <1>2 DEF OnIdle, Active
  <2> QED BY <2>1, SameIsHeld
<1>3. CASE s.run # NoRun /\ s.run.phase = "execution" /\ ~s.run.evaluating
  <2>1. OnIdle(s, j) = IF s.run.saw THEN Evaluate(s, j) ELSE FinishRun(s)
    BY <1>3 DEF OnIdle, Active
  <2>2. Held(FinishRun(s)) /\ KeepsWatch(s, FinishRun(s))
    BY FinishRunFacts, EndedIsHeld
  <2>3. Held(Evaluate(s, j)) /\ KeepsWatch(s, Evaluate(s, j))
    BY <1>3, EvaluatedIsHeld DEF KeepsWatch
  <2> QED BY <2>1, <2>2, <2>3
<1> QED BY <1>1, <1>2, <1>3

LEMMA OnAssistantTextHeld ==
  ASSUME NEW s, Sound(s), Held(s)
  PROVE  LET t == OnAssistantText(s)
         IN  Held(t) /\ KeepsWatch(s, t)
<1> DEFINE t == [s EXCEPT !.answered = (s.candidate # None)]
           u == [t EXCEPT !.run.saw = TRUE]
           n == [s.run EXCEPT !.saw = TRUE]
<1>1. s \in SupType /\ s.run \in RunType /\ (s.candidate # None) \in BOOLEAN
  BY DEF Sound, SupType
<1>2. /\ t \in SupType /\ t.run = s.run /\ t.jobs = s.jobs
      /\ t.poller = s.poller
  BY <1>1 DEF SupType
<1>3. Held(t) /\ KeepsWatch(s, t)
  BY <1>2, SameIsHeld
<1>4. /\ n \in RunType /\ n.phase = s.run.phase /\ n.gen = s.run.gen
      /\ n.audit = s.run.audit /\ n.loops = s.run.loops
      /\ n.streak = s.run.streak /\ n.reworks = s.run.reworks /\ n.saw
  BY <1>1 DEF RunType
<1>5. n # NoRun
  BY <1>4 DEF NoRun, FreshRun
<1> HIDE DEF t
<1>6. u.run = n /\ u.jobs = s.jobs /\ u.poller = s.poller
  BY <1>2, <1>4 DEF SupType
<1> HIDE DEF n, u
<1>7. Held(u)
  BY <1>4, <1>6 DEF Held, LaunchPending, InBudget
<1>8. KeepsWatch(s, u)
  BY <1>4, <1>5, <1>6 DEF KeepsWatch, WatchedBy
<1>9. OnAssistantText(s) = IF s.run # NoRun THEN u ELSE t
  BY DEF OnAssistantText, Active, t, u
<1> QED BY <1>3, <1>7, <1>8, <1>9

LEMMA OnDeliveredHeld ==
  ASSUME NEW s, Sound(s), Held(s), NEW q \in Seq(Messages), q # <<>>
  PROVE  LET d == OnDelivered(s, q)
         IN  Held(d) /\ KeepsWatch(s, d)
<1> DEFINE last == q[Len(q)]
           c == [s EXCEPT !.pending = None]
           r == RegisterTask(c, s.pending)
           d == OnDelivered(s, q)
<1>1. s \in SupType
  BY DEF Sound
<1>2. CASE ~In(s.pending, q)
  <2>1. d = [s EXCEPT !.candidate = last, !.answered = FALSE]
    BY <1>2 DEF OnDelivered
  <2> HIDE DEF last, d
  <2>2. d.run = s.run /\ d.jobs = s.jobs /\ d.poller = s.poller
    BY <1>1, <2>1 DEF SupType
  <2>3. Held(d) /\ KeepsWatch(s, d)
    BY <2>2, SameIsHeld
  <2> QED BY <2>3 DEF d
<1>3. CASE In(s.pending, q)
  <2>1. s.pending \in Tasks /\ s.pending \in Messages
    BY <1>3, OnDeliveredFacts DEF Messages
  <2>2. d = IF last = s.pending THEN r
            ELSE [r EXCEPT !.candidate = last, !.answered = FALSE]
    BY <1>3 DEF OnDelivered
  <2>a. c = [s EXCEPT !.pending = None] /\ None \in Tasks \union {None}
    OBVIOUS
  <2>b. r = RegisterTask(c, s.pending)
    OBVIOUS
  <2> HIDE DEF last, d, r, c
  <2>3. Sound(c)
    BY <2>a, NewPending
  <2>4. Sound(r) /\ Held(r) /\ r.run.phase = "execution"
    BY <2>1, <2>3, <2>b, RegisterTaskFacts, RegisteredIsHeld
  <2> DEFINE e == [r EXCEPT !.candidate = last, !.answered = FALSE]
  <2>5. e.run = r.run /\ e.jobs = r.jobs /\ e.poller = r.poller
    BY <2>4 DEF Sound, SupType
  <2>6. d = r \/ d = e
    BY <2>2
  <2> HIDE DEF e
  <2>7. Held(d) /\ d.run.phase = "execution"
    BY <2>4, <2>5, <2>6, SameIsHeld
  <2> QED BY <2>7 DEF d, KeepsWatch
<1> QED BY <1>2, <1>3

(* The actions of the user and of the session.                              *)
LEMMA UserHeld ==
  ASSUME IInv, Held(sup),
         \/ \E t \in Tasks :
              Arrive(t) \/ ArriveUnready(t) \/ SendNow(t) \/ SendQueued(t)
         \/ AssistantText \/ TurnFails \/ Relaunch \/ LaunchSucceeds
         \/ \E j \in Jobs : IdleBoundary(j)
  PROVE  Held(sup') /\ KeepsWatch(sup, sup')
<1> USE Unfold
<1>a. ASSUME NEW s, Sound(s) 
      PROVE  Held(CancelSession(s)) /\ KeepsWatch(sup, CancelSession(s))
  BY <1>a, CancelSessionFacts, EndedIsHeld
<1>b. ASSUME NEW t \in Tasks, QueueIntent(t)
      PROVE  Held(sup') /\ KeepsWatch(sup, sup')
  <2> DEFINE c == CancelSession(sup)
  <2>1. sup' = [c EXCEPT !.pending = t] /\ Sound(c) /\ c.run = NoRun
    BY <1>b, CancelSessionFacts DEF QueueIntent
  <2> HIDE DEF c
  <2>2. Sound(sup') /\ sup'.run = NoRun
    BY <2>1, NewPending
  <2> QED BY <2>2, EndedIsHeld
<1>c. ASSUME sup' = sup PROVE Held(sup') /\ KeepsWatch(sup, sup')
  BY <1>c, SameIsHeld
<1>1. ASSUME NEW t \in Tasks, SendNow(t)
      PROVE  Held(sup') /\ KeepsWatch(sup, sup')
  <2> DEFINE s == IF sends[t] = "on" THEN RegisterTask(sup, t) ELSE sup
  <2>1. t \in Messages
    BY DEF Messages
  <2>2. Sound(s) /\ Held(s) /\ KeepsWatch(sup, s)
    BY <2>1, RegisterTaskFacts, RegisteredIsHeld, SameIsHeld DEF KeepsWatch
  <2>3. sup' = [s EXCEPT !.candidate = t, !.answered = FALSE]
    BY <1>1 DEF SendNow
  <2> HIDE DEF s
  <2>4. sup'.run = s.run /\ sup'.jobs = s.jobs /\ sup'.poller = s.poller
    BY <2>2, <2>3 DEF Sound, SupType
  <2> QED BY <2>2, <2>4, SameIsHeld DEF KeepsWatch, WatchedBy
<1>2. ASSUME NEW t \in Tasks, Arrive(t) \/ ArriveUnready(t) \/ SendQueued(t)
      PROVE  Held(sup') /\ KeepsWatch(sup, sup')
  BY <1>2, <1>b, <1>c DEF Arrive, ArriveUnready, SendQueued
<1>3. CASE AssistantText
  BY <1>3, OnAssistantTextHeld DEF AssistantText
<1>4. CASE TurnFails
  <2>1. sup' = OnBlocked(sup)
    BY <1>4 DEF TurnFails
  <2> QED BY <2>1, FinishRunFacts, EndedIsHeld, SameIsHeld DEF OnBlocked
<1>5. ASSUME NEW j \in Jobs, NEW i \in 1..Len(queue), Undo(i, j)
      PROVE  Held(sup') /\ KeepsWatch(sup, sup')
  <2> DEFINE s == WithoutIntent(sup, queue[i])
  <2>1. Sound(s)
    BY WithoutIntentFacts
  <2>2. s.run = sup.run /\ s.jobs = sup.jobs /\ s.poller = sup.poller
    BY DEF WithoutIntent, SupType
  <2>3. sup' = IF Running THEN s ELSE OnIdle(s, j)
    BY <1>5 DEF Undo
  <2> HIDE DEF s
  <2>4. Held(s) /\ KeepsWatch(sup, s)
    BY <2>2, SameIsHeld
  <2>5. Held(OnIdle(s, j)) /\ KeepsWatch(s, OnIdle(s, j))
    BY <2>1, <2>4, OnIdleHeld
  <2>6. WatchedBy(sup) => WatchedBy(s)
    BY <2>2 DEF WatchedBy
  <2> QED BY <2>3, <2>4, <2>5, <2>6 DEF KeepsWatch
<1>6. ASSUME NEW j \in Jobs, NEW m \in Modes, SaveSettings(m, j)
      PROVE  Held(sup') /\ KeepsWatch(sup, sup')
  <2>1. CASE m = "off"
    BY <1>6, <1>a, <2>1 DEF SaveSettings
  <2>2. CASE m # "off" /\ (sup.run # NoRun \/ turn # "idle")
    BY <1>6, <1>c, <2>2 DEF SaveSettings, Active
  <2>3. CASE m # "off" /\ sup.run = NoRun /\ turn = "idle"
    BY <1>6, <2>3, StartImplicitRunHeld DEF SaveSettings, Active
  <2> QED BY <2>1, <2>2, <2>3
<1>7. ASSUME NEW j \in Jobs, Stop(j)
      PROVE  Held(sup') /\ KeepsWatch(sup, sup')
  <2>1. /\ Sound(OnIdle(sup, j)) /\ Held(OnIdle(sup, j))
        /\ KeepsWatch(sup, OnIdle(sup, j))
    BY OnIdleFacts, OnIdleHeld
  <2>2. sup' = CancelSession(OnIdle(sup, j)) \/ sup' = OnIdle(sup, j)
    BY <1>7 DEF Stop
  <2> QED BY <1>a, <2>1, <2>2
<1>8. ASSUME NEW j \in Jobs, TurnEnds(j)
      PROVE  Held(sup') /\ KeepsWatch(sup, sup')
  <2>1. CASE queue # <<>>
    <3>1. sup' = OnDelivered(sup, queue) /\ queue \in Seq(Messages)
      BY <1>8, <2>1 DEF TurnEnds, Delivered, SessionOK
    <3> QED BY <2>1, <3>1, OnDeliveredHeld
  <2>2. CASE queue = <<>>
    BY <1>8, <2>2, OnIdleHeld DEF TurnEnds
  <2> QED BY <2>1, <2>2
<1>9. ASSUME NEW j \in Jobs,
             KillReturns(j) \/ \E t \in Tasks : SendThrows(t, j)
      PROVE  Held(sup') /\ KeepsWatch(sup, sup')
  BY <1>9, <1>c, OnIdleHeld DEF KillReturns, SendThrows
<1>10. CASE LaunchSucceeds
  <2>1. \/ sup' = sup
        \/ \E m \in Messages : sup' = OnDelivered(sup, <<m>>)
    <3>1. PICK expired \in 0..Len(resend) :
            LET fit == SubSeq(resend, expired + 1, Len(resend)) IN
            \/ sup' = sup
            \/ fit # <<>> /\ sup' = OnDelivered(sup, <<Head(fit)>>)
      BY <1>10 DEF LaunchSucceeds, Delivered
    <3> DEFINE fit == SubSeq(resend, expired + 1, Len(resend))
    <3>2. resend \in Seq(Messages) /\ expired + 1 \in 1..(Len(resend) + 1)
      BY DEF SessionOK
    <3>3. fit \in Seq(Messages)
      BY <3>2, Suffix
    <3> HIDE DEF fit
    <3>4. fit # <<>> => Head(fit) \in Messages
      BY <3>3, HeadTailProperties
    <3> QED BY <3>1, <3>4 DEF fit
  <2>2. CASE sup' = sup
    BY <1>c, <2>2
  <2>3. ASSUME NEW m \in Messages, sup' = OnDelivered(sup, <<m>>)
        PROVE  Held(sup') /\ KeepsWatch(sup, sup')
    BY <2>3, Singleton, OnDeliveredHeld
  <2> QED BY <2>1, <2>2, <2>3
<1>11. CASE Relaunch
  BY <1>11, <1>c DEF Relaunch
<1> QED BY <1>1, <1>2, <1>3, <1>4, <1>5, <1>6, <1>7, <1>8, <1>9, <1>10, <1>11
        DEF IdleBoundary

(* A continuation that only gives its slot back.                            *)
LEMMA FreedIsHeld ==
  ASSUME IInv, Held(sup), NEW j \in Jobs, sup' = Free(sup, j),
         sup.jobs[j].stage # "launching"
  PROVE  Held(sup') /\ KeepsWatch(sup, sup')
<1> USE Unfold
<1>1. /\ sup'.run = sup.run /\ sup'.poller = sup.poller
      /\ sup'.jobs = [sup.jobs EXCEPT ![j] = FreeJob]
  BY DEF Free, SupType
<1>2. \A k \in Jobs : /\ sup'.jobs[k].own => k # j
                      /\ k # j => sup'.jobs[k] = sup.jobs[k]
  BY <1>1, Idle
<1>3. LaunchPending(sup) => LaunchPending(sup')
  BY <1>2 DEF LaunchPending
<1> QED BY <1>1, <1>2, <1>3 DEF Held, KeepsWatch, WatchedBy

LEMMA DecideContinueHeld ==
  ASSUME IInv, Held(sup), NEW j \in Jobs, DecideContinue(j)
  PROVE  Held(sup') /\ KeepsWatch(sup, sup')
<1> USE Unfold
<1> DEFINE f == Free(sup, j)
<1>1. PICK streak \in {1, sup.run.streak + 1} :
        /\ streak <= MaxStreak
        /\ sup' = [Free(sup, j) EXCEPT
                  !.run.evaluating = FALSE, !.run.saw = FALSE,
                  !.run.loops = @ + 1, !.run.streak = streak]
  BY DEF DecideContinue
<1> DEFINE n == [sup.run EXCEPT !.evaluating = FALSE, !.saw = FALSE,
                                !.loops = @ + 1, !.streak = streak]
<1>2. sup.run.phase = "execution" /\ sup.run.loops < MaxContinue
  BY DEF DecideContinue, Current
<1>3. /\ n.phase = "execution" /\ n.gen = sup.run.gen
      /\ n.loops = sup.run.loops + 1 /\ n.streak = streak
      /\ n.reworks = sup.run.reworks
  BY <1>2 DEF RunType
<1>4. /\ f \in SupType /\ f.run = sup.run
      /\ f.jobs = [sup.jobs EXCEPT ![j] = FreeJob]
  <2>1. [sup.jobs EXCEPT ![j] = FreeJob] \in [Jobs -> JobType]
    BY Idle
  <2> QED BY <2>1 DEF Free, SupType
<1> HIDE DEF f
<1>5. sup' = [f EXCEPT !.run = n]
  BY <1>1, <1>4 DEF f, SupType
<1> HIDE DEF n
<1>6. sup'.run = n /\ sup'.jobs = f.jobs
  BY <1>4, <1>5 DEF SupType
<1>7. \A k \in Jobs : /\ f.jobs[k].own => k # j
                      /\ k # j => f.jobs[k] = sup.jobs[k]
  BY <1>4, Idle
<1>8. InBudget(n)
  <2>1. /\ sup.run.loops \in Nat /\ sup.run.streak \in Nat
        /\ MaxContinue \in Nat /\ MaxStreak \in Nat
    BY SupervisionAssumption DEF RunType
  <2>2. sup.run.streak <= sup.run.loops /\ sup.run.reworks <= MaxAuditLoops
    BY DEF Held, InBudget
  <2>3. streak <= sup.run.loops + 1
    BY <1>1, <2>1, <2>2
  <2> QED BY <1>1, <1>2, <1>3, <2>1, <2>2, <2>3 DEF InBudget
<1> QED BY <1>3, <1>6, <1>7, <1>8 DEF Held, KeepsWatch

LEMMA DecideAuditHeld ==
  ASSUME IInv, Held(sup), NEW j \in Jobs, DecideAudit(j)
  PROVE  Held(sup') /\ KeepsWatch(sup, sup')
<1> USE Unfold
<1> DEFINE n == [sup.run EXCEPT !.evaluating = FALSE]
           job == [sup.jobs[j] EXCEPT !.stage = "baseline", !.own = TRUE]
           jobs == [sup.jobs EXCEPT ![j] = job]
<1>1. /\ sup.run.phase = "execution" /\ sup.jobs[j].gen = sup.run.gen
      /\ sup' = [sup EXCEPT !.run.evaluating = FALSE,
                            !.jobs[j].stage = "baseline", !.jobs[j].own = TRUE]
  BY DEF DecideAudit, Current, SameGeneration
<1>2. /\ n.phase = "execution" /\ n.gen = sup.run.gen
      /\ n.loops = sup.run.loops /\ n.streak = sup.run.streak
      /\ n.reworks = sup.run.reworks
  BY <1>1 DEF RunType
<1>3. job.gen = sup.run.gen
  BY <1>1 DEF JobType
<1>4. sup' = [sup EXCEPT !.run = n, !.jobs = jobs]
  BY <1>1 DEF SupType
<1> HIDE DEF n, job
<1>5. \A k \in Jobs : jobs[k] = IF k = j THEN job ELSE sup.jobs[k]
  OBVIOUS
<1> HIDE DEF jobs
<1>6. sup'.run = n /\ sup'.jobs = jobs
  BY <1>4 DEF SupType
<1> QED BY <1>2, <1>3, <1>5, <1>6 DEF Held, InBudget, KeepsWatch

LEMMA BaselineReadyHeld ==
  ASSUME IInv, Held(sup), NEW j \in Jobs, BaselineReady(j)
  PROVE  Held(sup') /\ KeepsWatch(sup, sup')
<1> USE Unfold
<1>1. CASE ~SameGeneration(j)
  BY <1>1, FreedIsHeld DEF BaselineReady
<1>2. CASE SameGeneration(j)
  <2> DEFINE n == [sup.run EXCEPT !.phase = "auditing", !.evaluating = FALSE]
             job == [sup.jobs[j] EXCEPT !.stage = "launching", !.own = TRUE]
             jobs == [sup.jobs EXCEPT ![j] = job]
  <2>1. /\ sup.jobs[j].gen = sup.run.gen
        /\ sup' = [sup EXCEPT !.run.phase = "auditing", !.run.evaluating = FALSE,
                              !.jobs[j].stage = "launching", !.jobs[j].own = TRUE]
    BY <1>2 DEF BaselineReady, SameGeneration
  <2>2. /\ n.phase = "auditing" /\ n.gen = sup.run.gen /\ n.audit = sup.run.audit
        /\ n.loops = sup.run.loops /\ n.streak = sup.run.streak
        /\ n.reworks = sup.run.reworks
    BY DEF RunType
  <2>3. job.gen = sup.run.gen /\ job.own /\ job.stage = "launching"
    BY <2>1 DEF JobType
  <2>4. sup' = [sup EXCEPT !.run = n, !.jobs = jobs]
    BY <2>1 DEF SupType
  <2>7. n # NoRun
    BY <2>2, Idle
  <2> HIDE DEF n, job
  <2>5. \A k \in Jobs : jobs[k] = IF k = j THEN job ELSE sup.jobs[k]
    OBVIOUS
  <2> HIDE DEF jobs
  <2>6. sup'.run = n /\ sup'.jobs = jobs /\ sup'.poller = sup.poller
    BY <2>4 DEF SupType
  <2>8. Held(sup')
    BY <2>2, <2>3, <2>5, <2>6 DEF Held, InBudget, LaunchPending
  <2> QED BY <2>2, <2>6, <2>7, <2>8 DEF KeepsWatch, WatchedBy
<1> QED BY <1>1, <1>2

LEMMA LaunchAuditHeld ==
  ASSUME IInv, Held(sup), NEW j \in Jobs, NEW a \in Audits, LaunchAudit(j, a)
  PROVE  Held(sup') /\ (sup.jobs[j].own => KeepsWatch(sup, sup'))
<1> USE Unfold
<1> DEFINE f == Free(sup, j)
           p == [gen |-> sup.jobs[j].gen, audit |-> a]
           s == [f EXCEPT !.poller = p]
           n == [sup.run EXCEPT !.audit = a]
<1>1. sup' = IF sup.jobs[j].own THEN [s EXCEPT !.run.audit = a] ELSE s
  BY DEF LaunchAudit
<1>2. p \in [gen : Nat, audit : Audits \union {None}] /\ a # None
  BY SupervisionAssumption DEF JobType
<1> DEFINE jobs == [sup.jobs EXCEPT ![j] = FreeJob]
<1>3. jobs \in [Jobs -> JobType]
  BY Idle
<1>4. \A k \in Jobs : /\ jobs[k].own => k # j
                      /\ k # j => jobs[k] = sup.jobs[k]
  BY Idle
<1>5. f = [sup EXCEPT !.jobs = jobs]
  BY DEF Free, SupType
<1>11. p.gen = sup.jobs[j].gen /\ p.audit = a
  OBVIOUS
<1> HIDE DEF f, p, jobs
<1>6. s \in SupType /\ s.run = sup.run /\ s.jobs = jobs /\ s.poller = p
  BY <1>2, <1>3, <1>5 DEF SupType
<1> HIDE DEF s
<1>7. /\ n.phase = sup.run.phase /\ n.gen = sup.run.gen /\ n.audit = a
      /\ n.loops = sup.run.loops /\ n.streak = sup.run.streak
      /\ n.reworks = sup.run.reworks
  BY DEF RunType
<1>8. CASE sup.jobs[j].own
  <2>1. sup' = [s EXCEPT !.run = n]
    BY <1>1, <1>6, <1>8 DEF SupType
  <2>2. sup.jobs[j].gen = sup.run.gen /\ sup.run # NoRun /\ sup.run.phase # "none"
    BY <1>8 DEF Held, Sound
  <2> HIDE DEF n
  <2>3. sup'.run = n /\ sup'.jobs = jobs /\ sup'.poller = p
    BY <1>6, <2>1 DEF SupType
  <2>4. n # NoRun
    BY <1>7, <2>2, Idle
  <2>5. Held(sup')
    BY <1>2, <1>4, <1>7, <2>3 DEF Held, InBudget
  <2>6. p = [gen |-> n.gen, audit |-> n.audit]
    BY <1>7, <2>2 DEF p
  <2> QED BY <1>7, <2>3, <2>4, <2>5, <2>6 DEF KeepsWatch, WatchedBy
<1>9. CASE ~sup.jobs[j].own
  <2>1. sup' = s
    BY <1>1, <1>9
  <2>2. LaunchPending(sup) => LaunchPending(sup')
    <3>1. ASSUME NEW k \in Jobs, sup.jobs[k].stage = "launching", sup.jobs[k].own
          PROVE  sup'.jobs[k].stage = "launching" /\ sup'.jobs[k].own
      BY <1>4, <1>6, <1>9, <2>1, <3>1
    <3> QED BY <3>1 DEF LaunchPending
  <2> QED BY <1>4, <1>6, <1>9, <2>1, <2>2 DEF Held
<1> QED BY <1>8, <1>9

LEMMA PollHeld ==
  ASSUME IInv, Held(sup), Poll
  PROVE  Held(sup') /\ KeepsWatch(sup, sup')
<1> USE Unfold
<1>1. CASE PollStale
  <2>1. sup'.run = sup.run /\ sup'.jobs = sup.jobs
    BY <1>1 DEF PollStale, SupType
  <2>2. ~WatchedBy(sup)
    BY <1>1 DEF PollStale, Watching, WatchedBy, Active
  <2> QED BY <2>1, <2>2 DEF Held, LaunchPending, KeepsWatch
<1>2. CASE PollSettles
  BY <1>2, DropRunFacts, EndedIsHeld DEF PollSettles
<1>3. CASE PollRework
  <2> DEFINE n == [sup.run EXCEPT !.phase = "execution", !.audit = None,
                                  !.evaluating = FALSE, !.saw = FALSE,
                                  !.reworks = @ + 1]
  <2>1. /\ sup' = [sup EXCEPT !.run = n, !.poller = NoPoller]
        /\ sup.run.reworks < MaxAuditLoops
    BY <1>3 DEF PollRework, SupType
  <2>2. /\ n.phase = "execution" /\ n.gen = sup.run.gen
        /\ n.loops = sup.run.loops /\ n.streak = sup.run.streak
        /\ n.reworks = sup.run.reworks + 1
    BY DEF RunType
  <2> HIDE DEF n
  <2>3. sup'.run = n /\ sup'.jobs = sup.jobs
    BY <2>1 DEF SupType
  <2>4. InBudget(n)
    <3>1. sup.run.reworks \in Nat /\ MaxAuditLoops \in Nat
      BY SupervisionAssumption DEF RunType
    <3> QED BY <2>1, <2>2, <3>1 DEF Held, InBudget
  <2> QED BY <2>2, <2>3, <2>4 DEF Held, KeepsWatch
<1> QED BY <1>1, <1>2, <1>3 DEF Poll

(* The launch of a continuation that lost its run.                          *)
LateLaunch ==
  \E j \in Jobs, a \in Audits : LaunchAudit(j, a) /\ ~sup.jobs[j].own

LEMMA NextHeld ==
  ASSUME IInv, Held(sup), [Next]_vars
  PROVE  Held(sup') /\ (KeepsWatch(sup, sup') \/ LateLaunch)
<1> USE Unfold
<1>a. ASSUME NEW j \in Jobs,
             sup' = FinishRun(Free(sup, j)) \/ sup' = DropRun(Free(sup, j))
      PROVE  Held(sup') /\ KeepsWatch(sup, sup')
  BY <1>a, HandedBackFacts, EndedIsHeld
<1>1. ASSUME NEW j \in Jobs, Decide(j)
      PROVE  Held(sup') /\ KeepsWatch(sup, sup')
  BY <1>1, <1>a, FreedIsHeld, DecideContinueHeld, DecideAuditHeld
     DEF Decide, DecideStale, DecideHandBack, HandedBack
<1>2. ASSUME NEW j \in Jobs, Baseline(j)
      PROVE  Held(sup') /\ KeepsWatch(sup, sup')
  BY <1>2, <1>a, BaselineReadyHeld DEF Baseline, BaselineFails
<1>3. ASSUME NEW j \in Jobs, Launch(j)
      PROVE  Held(sup') /\ (KeepsWatch(sup, sup') \/ LateLaunch)
  BY <1>3, <1>a, LaunchAuditHeld DEF Launch, LaunchFails, LateLaunch
<1>4. ASSUME sup' = sup
      PROVE  Held(sup') /\ KeepsWatch(sup, sup')
  BY <1>4, SameIsHeld
<1>5. ASSUME NEW a \in Audits,
             \/ \E status \in Terminal : AuditEnds(a, status)
             \/ AuditCancelledByUser(a) \/ AuditLeavesTable(a)
      PROVE  sup' = sup
  BY <1>5 DEF AuditEnds, AuditCancelledByUser, AuditLeavesTable
<1>6. CASE UNCHANGED vars
  BY <1>4, <1>6 DEF vars
<1> QED BY <1>1, <1>2, <1>3, <1>4, <1>5, <1>6, UserHeld, PollHeld DEF Next

LEMMA HeldInvariance == Spec => [](IInv /\ Held(sup))
<1>1. Init => Held(sup)
  BY InitIInv, EndedIsHeld, Unfold DEF Init
<1>2. IInv /\ Held(sup) /\ [Next]_vars => Held(sup)'
  BY NextHeld
<1> QED BY <1>1, <1>2, InitIInv, NextIInv, PTL DEF Spec

(* A run under audit is never left between two chairs: it has an audit, or  *)
(* the continuation that still holds it is launching one (startAudit).      *)
AuditIsHeld ==
  sup.run.phase = "auditing" /\ sup.run.audit = None => LaunchPending(sup)

(* Whatever continuations are dropped or come late, a run under audit has an *)
(* audit or the continuation that is about to launch it.                     *)
THEOREM AuditsAreHeld == Spec => []AuditIsHeld
<1>1. Held(sup) => AuditIsHeld
  BY DEF Held, AuditIsHeld
<1> QED BY <1>1, HeldInvariance, PTL

(* The automation's budget for a run is never overdrawn, however many       *)
(* evaluations of the same generation answer: at most MaxContinue continue  *)
(* prompts, MaxStreak of a kind in a row, and MaxAuditLoops rework briefs.  *)
THEOREM BudgetsHold == Spec => []InBudget(sup.run)
<1>1. Held(sup) => InBudget(sup.run)
  BY DEF Held
<1> QED BY <1>1, HeldInvariance, PTL

(* A run's poller is taken from it in one way only: by the launch of an     *)
(* older continuation, which had lost its run while it was launching.       *)
(* Whatever else happens, a watched audit stays watched until the run       *)
(* leaves the phase.                                                        *)
WatchIsKept ==
  [][Watching => \/ Watching'
                 \/ sup'.run.phase # "auditing"
                 \/ LateLaunch]_vars

(* A watched audit loses its poller only to the launch of an older          *)
(* continuation (startAudit assigns it without looking at the generation).  *)
THEOREM OnlyALateLaunchUnwatches == Spec => WatchIsKept
<1>1. IInv /\ Held(sup) /\ [Next]_vars =>
        [Watching => Watching' \/ sup'.run.phase # "auditing" \/ LateLaunch]_vars
  <2> SUFFICES ASSUME IInv, Held(sup), [Next]_vars, Watching
               PROVE  Watching' \/ sup'.run.phase # "auditing" \/ LateLaunch
    BY Zenon
  <2>1. WatchedBy(sup)
    BY DEF Watching, WatchedBy, Active
  <2>2. WatchedBy(sup') => Watching'
    BY DEF Watching, WatchedBy, Active
  <2> QED BY <2>1, <2>2, NextHeld DEF KeepsWatch
<1> QED BY <1>1, HeldInvariance, PTL DEF Spec, WatchIsKept

(* Supervision is off and nothing of it is left: no run, no intent, and no  *)
(* late send.                                                               *)
Inert ==
  /\ mode = "off" /\ sup.run = NoRun /\ sup.pending = None
  /\ \A t \in Tasks : sends[t] # "on"
Spoken == In(Prompt, queue) \/ In(Prompt, active) \/ In(Prompt, resend)
Quiet ==
  /\ Inert'
  /\ Spoken' => Spoken
  /\ turn' = "running" =>
       Running \/ LaunchSucceeds \/ \E t \in Tasks : SendNow(t)
  /\ \A j \in Jobs : sup.jobs[j].stage = "none" => sup'.jobs[j].stage = "none"
(* Once supervision is off and the late sends are gone, it stays inert until *)
(* it is switched on again: no event, kill, relaunch or continuation still  *)
(* to come brings back a run or an intent, writes a prompt, starts a turn   *)
(* (the user's messages alone do) or begins an evaluation.                  *)
OffStaysQuiet == [][Inert => mode' = "on" \/ Quiet]_vars

(* The continuations and the poller have no run to go on with.              *)
LEMMA NothingToDriveWhenOff ==
  ASSUME Inert, NEW j \in Jobs
  PROVE  ~Watching /\ ~SameGeneration(j) /\ ~Current(j) /\ OnIdle(sup, j) = sup
BY DEF Inert, Watching, SameGeneration, Current, Active, OnIdle

LEMMA FreeKeepsSlots ==
  ASSUME NEW s, Sound(s), NEW j \in Jobs,
         NEW t, t = Free(s, j) \/ t = FinishRun(Free(s, j)) \/ t = DropRun(Free(s, j))
  PROVE  \A k \in Jobs : s.jobs[k].stage = "none" => t.jobs[k].stage = "none"
<1> DEFINE f == Free(s, j)
<1>1. s \in SupType /\ s.jobs \in [Jobs -> JobType]
  BY DEF Sound, SupType
<1>2. f.jobs = [s.jobs EXCEPT ![j] = FreeJob]
  BY <1>1 DEF Free, SupType
<1>3. f \in SupType
  <2>1. [s.jobs EXCEPT ![j] = FreeJob] \in [Jobs -> JobType]
    BY <1>1, Idle
  <2> QED BY <1>1, <2>1 DEF Free, SupType
<1> HIDE DEF f
<1>4. f.jobs \in [Jobs -> JobType]
  BY <1>3 DEF SupType
<1>5. DropRun(f).jobs = Detached(f.jobs)
  BY <1>3 DEF DropRun, SupType
<1>6. \A k \in Jobs : s.jobs[k].stage = "none" => f.jobs[k].stage = "none"
  BY <1>1, <1>2, Idle
<1>7. t = f \/ t = DropRun(f)
  BY DEF FinishRun, f
<1> QED BY <1>4, <1>5, <1>6, <1>7, DetachedFacts

LEMMA NextQuiet ==
  ASSUME IInv, Inert, Next, mode' # "on"
  PROVE  Quiet
<1> USE Unfold
<1> DEFINE Slots == \A k \in Jobs :
                      sup.jobs[k].stage = "none" => sup'.jobs[k].stage = "none"
           Gone == sup'.run = NoRun /\ sup'.pending = None /\ Slots
           NoLate == \A t \in Tasks : sends'[t] # "on"
<1>0. /\ mode = "off" /\ sup.run = NoRun /\ sup.pending = None /\ sup \in SupType
      /\ sup.run.phase = "none" /\ \A t \in Tasks : sends[t] # "on"
  BY DEF Inert
<1>m. mode' \in Modes => mode' = "off"
  BY DEF Modes
<1>t. /\ queue \in Seq(Messages) /\ active \in Seq(Messages)
      /\ resend \in Seq(Messages) /\ sends \in [Tasks -> SendStage]
      /\ mode' = "off"
  <2>1. mode' \in Modes
    BY NextIInv DEF IInv, TypeOK
  <2> QED BY <1>m, <2>1 DEF SessionOK
<1>p. \A t \in Tasks : t # Prompt /\ t \in Messages
  BY SupervisionAssumption DEF Messages
<1>a. ASSUME Gone, NoLate, turn' = turn \/ turn' # "running",
             Spoken' => Spoken
      PROVE  Quiet
  BY <1>a, <1>t DEF Quiet, Inert, Running
<1>b. ASSUME NEW s, Sound(s), sup.jobs = s.jobs, sup' = CancelSession(s) PROVE Gone
  <2>1. \A k \in Jobs : DropRun(s).jobs[k].stage = s.jobs[k].stage
    BY <1>b, DropRunFacts
  <2>2. CancelSession(s).jobs = DropRun(s).jobs
    BY <1>b DEF CancelSession, DropRun, Sound, SupType
  <2> QED BY <1>b, <2>1, <2>2, CancelSessionFacts
<1>c. ASSUME sup' = sup PROVE Gone
  BY <1>0, <1>c
<1>d. ASSUME NEW t \in Tasks, sends' = [sends EXCEPT ![t] = "done"] PROVE NoLate
  BY <1>0, <1>d, <1>t
<1>e. ASSUME NEW m, sup' = [sup EXCEPT !.candidate = m, !.answered = FALSE] PROVE Gone
  BY <1>0, <1>e DEF SupType
<1>f. ASSUME UNCHANGED <<queue, active, resend>> PROVE Spoken' => Spoken
  BY <1>f DEF Spoken
<1>g. ASSUME NEW q \in Seq(Messages), q # <<>>, sup' = OnDelivered(sup, q) PROVE Gone
  <2>1. ~In(sup.pending, q)
    BY <1>0, <1>g, OnDeliveredFacts, SupervisionAssumption
  <2> QED BY <1>0, <1>e, <1>g, <2>1 DEF OnDelivered
<1>1. ASSUME NEW t \in Tasks, Arrive(t) PROVE Quiet
  <2>1. NoLate
    BY <1>0, <1>1, <1>t DEF Arrive
  <2>2. sup' = sup /\ turn' = turn /\ UNCHANGED <<queue, active, resend>>
    BY <1>1 DEF Arrive, runtime
  <2> QED BY <1>a, <1>c, <1>f, <2>1, <2>2
<1>2. ASSUME NEW t \in Tasks, ArriveUnready(t) PROVE Quiet
  <2>1. /\ sends' = [sends EXCEPT ![t] = "done"] /\ sup' = sup
        /\ resend' = Capped(Append(resend, t)) /\ UNCHANGED <<queue, active>>
        /\ turn' = turn \/ turn' # "running"
    BY <1>0, <1>2 DEF ArriveUnready
  <2>2. In(Prompt, resend') => In(Prompt, resend)
    <3>1. /\ Append(resend, t) \in Seq(Messages)
          /\ In(Prompt, Append(resend, t)) => In(Prompt, resend)
      BY <1>p, <1>t, Appended
    <3> QED BY <2>1, <3>1, CappedFacts
  <2>3. Spoken' => Spoken
    BY <2>1, <2>2 DEF Spoken
  <2> QED BY <1>a, <1>c, <1>d, <2>1, <2>3
<1>3. ASSUME NEW t \in Tasks, SendNow(t) PROVE Quiet
  <2>1. /\ sends' = [sends EXCEPT ![t] = "done"]
        /\ sup' = [sup EXCEPT !.candidate = t, !.answered = FALSE]
        /\ active' = <<t>> /\ UNCHANGED <<queue, resend>>
    BY <1>0, <1>3 DEF SendNow
  <2>2. Spoken' => Spoken
    <3>1. ~In(Prompt, active')
      BY <1>p, <2>1, Singleton
    <3> QED BY <2>1, <3>1 DEF Spoken
  <2>3. Gone /\ NoLate
    BY <1>d, <1>e, <2>1
  <2> QED BY <1>3, <1>t, <2>2, <2>3 DEF Quiet, Inert
<1>4. ASSUME NEW t \in Tasks, SendQueued(t) PROVE Quiet
  <2>1. /\ sends' = [sends EXCEPT ![t] = "done"] /\ sup' = sup
        /\ queue' = Append(queue, t) /\ UNCHANGED <<active, resend, turn>>
    BY <1>0, <1>4 DEF SendQueued
  <2>2. In(Prompt, queue') => In(Prompt, queue)
    BY <1>p, <1>t, <2>1, Appended
  <2>3. Spoken' => Spoken
    BY <2>1, <2>2 DEF Spoken
  <2> QED BY <1>a, <1>c, <1>d, <2>1, <2>3
<1>5. ASSUME NEW j \in Jobs, NEW t \in Tasks, SendThrows(t, j) PROVE Quiet
  <2>1. /\ sends' = [sends EXCEPT ![t] = "done"] /\ sup' = sup
        /\ UNCHANGED <<queue, active, resend>>
        /\ turn' = turn \/ turn' # "running"
    BY <1>5, NothingToDriveWhenOff DEF SendThrows, ReportsIdle
  <2> QED BY <1>a, <1>c, <1>d, <1>f, <2>1
<1>6. ASSUME NEW j \in Jobs, NEW i \in 1..Len(queue), Undo(i, j) PROVE Quiet
  <2> DEFINE s == WithoutIntent(sup, queue[i])
  <2>1. s = sup
    BY <1>0 DEF WithoutIntent, SupType
  <2>2. sup' = sup /\ sends' = sends /\ UNCHANGED <<active, resend>>
    BY <1>6, <2>1, NothingToDriveWhenOff DEF Undo
  <2>3. /\ queue' = [k \in 1..(Len(queue) - 1) |->
                       IF k < i THEN queue[k] ELSE queue[k + 1]]
        /\ turn' = turn \/ turn' # "running"
    BY <1>6 DEF Undo, ReportsIdle
  <2>4. Len(queue') = Len(queue) - 1
    <3>1. Len(queue) - 1 \in Nat
      BY <1>t
    <3> QED BY <2>3, <3>1
  <2>5. \A k \in 1..Len(queue') : \E m \in 1..Len(queue) : queue'[k] = queue[m]
    BY <1>t, <2>3, <2>4
  <2>6. Spoken' => Spoken
    <3>1. In(Prompt, queue') => In(Prompt, queue)
      BY <2>5 DEF In
    <3> QED BY <2>2, <3>1 DEF Spoken
  <2>7. NoLate
    BY <1>0, <2>2
  <2> QED BY <1>a, <1>c, <2>2, <2>3, <2>6, <2>7
<1>7. ASSUME NEW j \in Jobs, NEW m \in Modes, SaveSettings(m, j) PROVE Quiet
  <2>1. m = "off" /\ sends' = sends /\ UNCHANGED <<turn, queue, active, resend>>
    BY <1>7, <1>t DEF SaveSettings, runtime
  <2>2. sup' = CancelSession(sup)
    BY <1>7, <2>1 DEF SaveSettings
  <2>3. NoLate
    BY <1>0, <2>1
  <2> QED BY <1>a, <1>b, <1>f, <2>1, <2>2, <2>3
<1>8. ASSUME NEW j \in Jobs, Stop(j) PROVE Quiet
  <2>1. sup' = CancelSession(sup) \/ sup' = sup
    BY <1>8, NothingToDriveWhenOff DEF Stop
  <2>2. /\ sends' = sends /\ resend' = <<>> /\ UNCHANGED <<queue, active>>
        /\ turn' = turn \/ turn' # "running"
    BY <1>8 DEF Stop, ReportsIdle
  <2>3. NoLate
    BY <1>0, <2>2
  <2>4. Spoken' => Spoken
    BY <2>2, Empty DEF Spoken
  <2>5. Gone
    BY <1>b, <1>c, <2>1
  <2> QED BY <1>a, <2>2, <2>3, <2>4, <2>5
<1>9. CASE AssistantText
  <2>1. /\ sends' = sends /\ UNCHANGED <<turn, queue, active, resend>>
        /\ sup' = [sup EXCEPT !.answered = (sup.candidate # None)]
    BY <1>0, <1>9 DEF AssistantText, OnAssistantText, Active, runtime
  <2>2. Gone
    BY <1>0, <2>1 DEF SupType
  <2>3. NoLate
    BY <1>0, <2>1
  <2> QED BY <1>a, <1>f, <2>1, <2>2, <2>3
<1>10. ASSUME NEW j \in Jobs, TurnEnds(j) PROVE Quiet
  <2>1. /\ sends' = sends /\ active' = queue /\ queue' = <<>> /\ resend' = resend
        /\ turn' = turn \/ turn' # "running"
    BY <1>10 DEF TurnEnds
  <2>2. Gone
    <3>1. CASE queue = <<>>
      BY <1>10, <1>c, <3>1, NothingToDriveWhenOff DEF TurnEnds
    <3>2. CASE queue # <<>>
      BY <1>10, <1>g, <1>t, <3>2 DEF TurnEnds, Delivered
    <3> QED BY <3>1, <3>2
  <2>3. Spoken' => Spoken
    BY <2>1, Empty DEF Spoken
  <2>4. NoLate
    BY <1>0, <2>1
  <2> QED BY <1>a, <2>1, <2>2, <2>3, <2>4
<1>11. CASE TurnFails
  <2>1. /\ sends' = sends /\ turn' = "other" /\ active' = <<>> /\ queue' = queue
        /\ resend' \in {resend, Capped(resend \o active)} /\ sup' = sup
    BY <1>0, <1>11 DEF TurnFails, OnBlocked
  <2>2. In(Prompt, resend') => In(Prompt, resend) \/ In(Prompt, active)
    <3>1. /\ resend \o active \in Seq(Messages)
          /\ Len(resend \o active) = Len(resend) + Len(active)
          /\ \A i \in 1..(Len(resend) + Len(active)) :
               (resend \o active)[i] = IF i <= Len(resend) THEN resend[i]
                                       ELSE active[i - Len(resend)]
      BY <1>t, ConcatProperties
    <3>2. ASSUME NEW i \in 1..(Len(resend) + Len(active)),
                 (resend \o active)[i] = Prompt
          PROVE  In(Prompt, resend) \/ In(Prompt, active)
      <4>1. CASE i <= Len(resend)
        <5>1. i \in 1..Len(resend) /\ resend[i] = Prompt
          BY <1>t, <3>1, <3>2, <4>1
        <5> QED BY <5>1 DEF In
      <4>2. CASE ~(i <= Len(resend))
        <5>1. i - Len(resend) \in 1..Len(active) /\ active[i - Len(resend)] = Prompt
          BY <1>t, <3>1, <3>2, <4>2
        <5> QED BY <5>1 DEF In
      <4> QED BY <4>1, <4>2
    <3>3. In(Prompt, resend \o active) => In(Prompt, resend) \/ In(Prompt, active)
      BY <3>1, <3>2 DEF In
    <3>4. In(Prompt, Capped(resend \o active)) => In(Prompt, resend \o active)
      BY <3>1, CappedFacts
    <3> QED BY <2>1, <3>3, <3>4
  <2>3. Spoken' => Spoken
    BY <2>1, <2>2, Empty DEF Spoken
  <2>4. NoLate
    BY <1>0, <2>1
  <2> QED BY <1>a, <1>c, <2>1, <2>3, <2>4
<1>12. CASE Relaunch
  <2>1. /\ sends' = sends /\ turn' = turn /\ active' = <<>> /\ sup' = sup
        /\ UNCHANGED <<queue, resend>>
    BY <1>12 DEF Relaunch
  <2>2. Spoken' => Spoken
    BY <2>1, Empty DEF Spoken
  <2>3. NoLate
    BY <1>0, <2>1
  <2> QED BY <1>a, <1>c, <2>1, <2>2, <2>3
<1>13. ASSUME NEW j \in Jobs, KillReturns(j) PROVE Quiet
  <2>1. /\ sends' = [t \in Tasks |-> IF sends[t] \in Modes THEN "orphaned" ELSE sends[t]]
        /\ turn' = turn \/ turn' # "running"
        /\ active' = <<>> /\ queue' = <<>> /\ resend' = resend /\ sup' = sup
    BY <1>13, NothingToDriveWhenOff DEF KillReturns
  <2>2. Spoken' => Spoken
    BY <2>1, Empty DEF Spoken
  <2>3. NoLate
    BY <1>0, <2>1
  <2> QED BY <1>a, <1>c, <2>1, <2>2, <2>3
<1>14. CASE LaunchSucceeds
  <2> DEFINE fit(e) == SubSeq(resend, e + 1, Len(resend))
  <2>1. PICK e \in 0..Len(resend) :
          \/ /\ sup' = sup /\ UNCHANGED <<queue, active>>
          \/ /\ fit(e) # <<>> /\ active' = <<Head(fit(e))>> /\ queue' = Tail(fit(e))
             /\ sup' = OnDelivered(sup, <<Head(fit(e))>>)
    BY <1>14 DEF LaunchSucceeds, Delivered
  <2>2. e + 1 \in 1..(Len(resend) + 1)
    BY <1>t
  <2>3. fit(e) \in Seq(Messages) /\ (In(Prompt, fit(e)) => In(Prompt, resend))
    BY <1>t, <2>2, Suffix
  <2>4. sends' = sends /\ resend' = <<>>
    BY <1>14 DEF LaunchSucceeds
  <2>5. NoLate
    BY <1>0, <2>4
  <2> HIDE DEF fit
  <2>6. CASE sup' = sup /\ UNCHANGED <<queue, active>>
    <3>1. Spoken' => Spoken
      BY <2>4, <2>6, Empty DEF Spoken
    <3> QED BY <1>14, <1>c, <1>t, <2>5, <2>6, <3>1 DEF Quiet, Inert
  <2>7. CASE /\ fit(e) # <<>> /\ active' = <<Head(fit(e))>> /\ queue' = Tail(fit(e))
             /\ sup' = OnDelivered(sup, <<Head(fit(e))>>)
    <3>1. Head(fit(e)) \in Messages /\ Tail(fit(e)) \in Seq(Messages)
      BY <2>3, <2>7, HeadTailProperties
    <3>2. /\ In(Prompt, <<Head(fit(e))>>) => In(Prompt, fit(e))
          /\ In(Prompt, Tail(fit(e))) => In(Prompt, fit(e))
      <4>1. /\ Head(fit(e)) = fit(e)[1] /\ Len(Tail(fit(e))) = Len(fit(e)) - 1
            /\ \A i \in 1..Len(Tail(fit(e))) : Tail(fit(e))[i] = fit(e)[i + 1]
            /\ Len(fit(e)) \in Nat /\ Len(fit(e)) > 0
        BY <2>3, <2>7, HeadTailProperties
      <4>2. 1 \in 1..Len(fit(e))
        BY <4>1
      <4>3. \A i \in 1..Len(Tail(fit(e))) : i + 1 \in 1..Len(fit(e))
        BY <4>1
      <4> QED BY <3>1, <4>1, <4>2, <4>3, Singleton DEF In
    <3>3. Spoken' => Spoken
      BY <2>3, <2>4, <2>7, <3>2, Empty DEF Spoken
    <3>4. Gone
      BY <1>g, <2>7, <3>1, Singleton
    <3> QED BY <1>14, <1>t, <2>5, <3>3, <3>4 DEF Quiet, Inert
  <2> QED BY <2>1, <2>6, <2>7
<1>h. ASSUME UNCHANGED <<settings, sends, runtime>>, Gone PROVE Quiet
  <2>1. /\ sends' = sends /\ turn' = turn /\ UNCHANGED <<queue, active, resend>>
    BY <1>h DEF runtime
  <2>2. NoLate
    BY <1>0, <2>1
  <2> QED BY <1>a, <1>f, <1>h, <2>1, <2>2
<1>15. ASSUME NEW j \in Jobs, Decide(j) \/ Baseline(j) PROVE Quiet
  <2>1. /\ ~SameGeneration(j) /\ ~Current(j)
    BY NothingToDriveWhenOff
  <2>2. /\ sup' = Free(sup, j) \/ sup' = FinishRun(Free(sup, j))
        /\ UNCHANGED <<settings, sends, runtime>>
    BY <1>15, <2>1 DEF Decide, DecideStale, DecideHandBack, DecideContinue,
       DecideAudit, Baseline, BaselineReady, BaselineFails
  <2>3. Slots
    BY <2>2, FreeKeepsSlots
  <2>4. sup'.run = NoRun /\ sup'.pending = None
    <3>1. Free(sup, j).run = NoRun /\ Free(sup, j).pending = None
      BY <1>0 DEF Free, SupType
    <3> QED BY <2>2, <3>1 DEF FinishRun, Active
  <2> QED BY <1>h, <2>2, <2>3, <2>4
<1>16. ASSUME NEW j \in Jobs, Launch(j) PROVE Quiet
  <2>1. CASE LaunchFails(j)
    <3>1. Slots
      BY <2>1, FreeKeepsSlots DEF LaunchFails
    <3>2. sup'.run = NoRun /\ sup'.pending = None
      BY <1>0, <2>1, HandedBackFacts DEF LaunchFails
    <3> QED BY <1>h, <2>1, <3>1, <3>2 DEF LaunchFails
  <2>2. CASE \E a \in Audits : LaunchAudit(j, a)
    <3>1. ~sup.jobs[j].own
      BY <1>0 DEF Sound
    <3>2. /\ sup'.jobs = Free(sup, j).jobs /\ sup'.run = sup.run
          /\ sup'.pending = sup.pending
      BY <2>2, <3>1 DEF LaunchAudit, Free, SupType
    <3>3. Slots
      BY <3>2, FreeKeepsSlots
    <3> QED BY <1>0, <1>h, <2>2, <3>2, <3>3 DEF LaunchAudit
  <2> QED BY <1>16, <2>1, <2>2 DEF Launch
<1>17. CASE Poll
  <2>1. /\ sup'.jobs = sup.jobs /\ sup'.run = sup.run /\ sup'.pending = sup.pending
        /\ UNCHANGED <<settings, sends, runtime>>
    BY <1>0, <1>17 DEF Poll, PollStale, PollSettles, PollRework, Watching, Active, SupType
  <2> QED BY <1>0, <1>h, <2>1
<1>18. ASSUME NEW a \in Audits,
              \/ \E status \in Terminal : AuditEnds(a, status)
              \/ AuditCancelledByUser(a) \/ AuditLeavesTable(a)
       PROVE  Quiet
  BY <1>c, <1>h, <1>18 DEF AuditEnds, AuditCancelledByUser, AuditLeavesTable
<1> QED BY <1>1, <1>2, <1>3, <1>4, <1>5, <1>6, <1>7, <1>8, <1>9, <1>10, <1>11,
           <1>12, <1>13, <1>14, <1>15, <1>16, <1>17, <1>18
        DEF Next, IdleBoundary

(* Supervision that is off, and of which no send is left, begins nothing on *)
(* its own until it is switched on again.                                   *)
THEOREM OffIsQuiet == Spec => OffStaysQuiet
<1>1. IInv /\ [Next]_vars => [Inert => mode' = "on" \/ Quiet]_vars
  <2> SUFFICES ASSUME IInv, Next, Inert, mode' # "on" PROVE Quiet
    OBVIOUS
  <2> QED BY NextQuiet
<1> QED BY <1>1, InitIInv, NextIInv, PTL DEF Spec, OffStaysQuiet
=============================================================================
