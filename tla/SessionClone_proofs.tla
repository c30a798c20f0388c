------------------------ MODULE SessionClone_proofs ------------------------
(***************************************************************************)
(* Proofs about SessionClone, for any operations, names and group sizes.      *)
(***************************************************************************)
EXTENDS SessionClone, TLAPS

-----------------------------------------------------------------------------
(* The inductive invariant.                                                  *)

(* Where a handler stands tells how far its loops are.                        *)
Shape(x) ==
  /\ x.at = "new" => x.name = NoName /\ x.owed = {} /\ x.made = 0 /\ x.i = 0
  /\ x.at \in Building \union Undoing \/ x.verdict = "succeeded" =>
       x.name \in Names
  /\ x.verdict # "none" => x.at = "end"
  /\ x.at \in {"cwd", "main"} => x.made = 0 /\ x.i = 0
  /\ x.at = "subs" => x.i = x.made /\ 1 <= x.made /\ x.made <= x.n
  /\ x.at = "rows" => x.made = x.n + 1 /\ x.i <= x.n
  /\ x.at = "config" => x.made = x.n + 1
  /\ x.at \in {"stopSub", "dropSub"} => 1 <= x.i
  /\ x.at \in {"stopProject", "dropMain"} => x.i = 0

(* How many members, and rows before which member, an operation can count on. *)
Built(x) == IF x.verdict = "succeeded" THEN x.n + 1
            ELSE IF x.at \in {"subs", "rows", "config"} THEN x.made ELSE 0
Rowed(x) == IF x.verdict = "succeeded" \/ x.at = "config" THEN x.n + 1
            ELSE IF x.at = "rows" THEN x.i ELSE 0

(* Who answers for a main session: a clone that launched it and has not tried *)
(* to stop it, or one that says it did not get it to stop.                    *)
AnswersFor(x, t) ==
  /\ x.name = t
  /\ \/ x.at \in {"subs", "rows", "config", "stopSub", "dropSub", "stopProject"}
     \/ x.verdict = "succeeded"
     \/ "session" \in x.owed

Shaped == \A r \in Runs : Shape(run[r])
AskedAreActive == \A r \in known \union cancelled : Active(r)
MainsAreOwned == \A t \in Names \intersect up :
                   \E r \in Runs : AnswersFor(run[r], t)
MembersAreThere == \A r \in Runs : \A i \in Members :
                     i < Built(run[r]) => Member(r, i) \in up \intersect store
RowsAreThere == \A r \in Runs : \A i \in 1..MaxSubs :
                  i < Rowed(run[r]) => <<r, i>> \in rows

IInv == /\ TypeOK
        /\ Shaped
        /\ AskedAreActive
        /\ OneOwnerPerName
        /\ MainsAreOwned
        /\ MembersAreThere
        /\ RowsAreThere

-----------------------------------------------------------------------------
(* What the steps make of an operation's record.                             *)

LEMMA CurrentIsSession ==
  ASSUME NEW r \in Runs, run[r] \in RunType, run[r].name \in Names
  PROVE  Current(r) \in Sessions
<1>1. run[r].i \in Members
  BY DEF RunType
<1> QED BY <1>1 DEF Current, Member, Sessions

LEMMA UnwoundFits ==
  ASSUME NEW r \in Runs, NEW x \in RunType, 1 <= x.made, x.name \in Names,
         x.verdict = "none"
  PROVE  /\ Unwound(r, x) \in RunType
         /\ Shape(Unwound(r, x))
         /\ Unwound(r, x).name = x.name
         /\ Unwound(r, x).at \in {"stopSub", "stopProject"}
         /\ Unwound(r, x).verdict = "none"
         /\ Built(Unwound(r, x)) = 0
         /\ Rowed(Unwound(r, x)) = 0
<1> DEFINE y == Unwound(r, x)
<1>1. x.made - 1 \in Members
  BY CloneAssumption DEF RunType, Members
<1>2. Code(r) \in {"none", "error", "cancelled"}
  BY DEF Code
<1>3. y \in RunType
  BY <1>1, <1>2 DEF RunType, Unwound, Undoing
<1>4. /\ y.at = IF x.made > 1 THEN "stopSub" ELSE "stopProject"
      /\ y.i = x.made - 1 /\ y.name = x.name /\ y.verdict = "none"
  BY DEF RunType, Unwound
<1>5. x.made \in Int
  BY CloneAssumption DEF RunType
<1> HIDE DEF y
<1>6. Shape(y) /\ Built(y) = 0 /\ Rowed(y) = 0
  BY <1>4, <1>5 DEF Shape, Built, Rowed, Building, Undoing
<1> QED BY <1>3, <1>4, <1>6 DEF y

LEMMA OverFits ==
  ASSUME NEW x \in RunType, NEW v \in Ending,
         v = "succeeded" => x.name \in Names
  PROVE  /\ Over(x, v) \in RunType
         /\ Shape(Over(x, v))
         /\ Over(x, v).at = "end"
         /\ Over(x, v).name = x.name
         /\ Over(x, v).owed = x.owed
         /\ Over(x, v).verdict = v
         /\ v = "succeeded" => Over(x, v).n = x.n
<1> DEFINE y == Over(x, v)
<1>1. 0 \in Members /\ 0 \in 0..(MaxSubs + 1)
  BY CloneAssumption DEF Members
<1>2. y \in RunType
  BY <1>1 DEF RunType, Over, NewRun
<1>3. /\ y.at = "end" /\ y.name = x.name /\ y.owed = x.owed /\ y.verdict = v
      /\ v = "succeeded" => y.n = x.n
  BY DEF RunType, Over, NewRun
<1> HIDE DEF y
<1>4. Shape(y)
  BY <1>3 DEF Shape, Building, Undoing
<1> QED BY <1>2, <1>3, <1>4 DEF y

LEMMA FinishedFits ==
  ASSUME NEW x \in RunType
  PROVE  /\ Finished(x) \in RunType
         /\ Shape(Finished(x))
         /\ Finished(x).at = "end"
         /\ Finished(x).name = x.name
         /\ Finished(x).owed = x.owed
         /\ Finished(x).verdict \in Ending \ {"succeeded"}
         /\ Built(Finished(x)) = 0
         /\ Rowed(Finished(x)) = 0
<1>1. Verdict(x) \in Ending \ {"succeeded"}
  BY DEF Verdict, Ending
<1>2. /\ Finished(x) \in RunType /\ Shape(Finished(x))
      /\ Finished(x).at = "end" /\ Finished(x).name = x.name
      /\ Finished(x).owed = x.owed /\ Finished(x).verdict = Verdict(x)
  BY <1>1, OverFits DEF Finished
<1> QED BY <1>1, <1>2 DEF Built, Rowed

LEMMA NotedFits ==
  ASSUME NEW x \in RunType, NEW ok \in BOOLEAN
  PROVE  /\ Noted(x, ok) \in RunType
         /\ Noted(x, ok) = [x EXCEPT !.owed = Noted(x, ok).owed]
         /\ x.owed \subseteq Noted(x, ok).owed
BY DEF Noted, RunType, Cleanup

-----------------------------------------------------------------------------
(* What a step of a handler must show for the invariant to survive it.        *)

Handled(r, x) ==
  /\ Active(r)
  /\ run' = [run EXCEPT ![r] = x]
  /\ x \in RunType /\ Shape(x) /\ x.name = run[r].name
  /\ x.verdict = "succeeded" => r \notin cancelled
  /\ \/ /\ x.at \in Building \union Undoing
        /\ UNCHANGED <<known, reserved, cancelled>>
     \/ x.at = "end" /\ Release(r)

Touches(r) ==
  /\ up \ {Current(r)} \subseteq up' /\ up' \subseteq up \union {Current(r)}
  /\ store \ {Current(r)} \subseteq store'
  /\ store' \subseteq store \union {Current(r)}
  /\ rows \ Row(r) \subseteq rows' /\ rows' \subseteq rows \union Row(r)

Counts(r, x) ==
  /\ \A t \in Names :
       t \in up' /\ (AnswersFor(run[r], t) \/ t \notin up) => AnswersFor(x, t)
  /\ \A i \in Members :
       i < Built(x) => Member(r, i) \in up' \intersect store'
  /\ \A i \in 1..MaxSubs : i < Rowed(x) => <<r, i>> \in rows'

LEMMA HandledKeepsInv ==
  ASSUME IInv, NEW r \in Runs, NEW x, Handled(r, x), Touches(r), Counts(r, x)
  PROVE  IInv'
<1>1. /\ x \in RunType /\ Shape(x) /\ x.name = run[r].name
      /\ \A q \in Runs : run'[q] = IF q = r THEN x ELSE run[q]
      /\ run \in [Runs -> RunType] /\ run' \in [Runs -> RunType]
  BY DEF Handled, IInv, TypeOK
<1>2. run[r].name \in Names
  BY DEF Handled, IInv, Shaped, Shape, Active
<1>3. Current(r) \in Sessions /\ Row(r) \subseteq Runs \X (1..MaxSubs)
  <2>1. run[r].i \in 0..MaxSubs
    BY <1>1 DEF RunType, Members
  <2> QED BY <1>1, <1>2, <2>1, CurrentIsSession DEF Row
<1>4. TypeOK'
  <2>1. /\ known' \in SUBSET Runs /\ reserved' \in SUBSET Names
        /\ cancelled' \in SUBSET Runs
    BY DEF Handled, Release, IInv, TypeOK
  <2>2. up' \in SUBSET Sessions /\ store' \in SUBSET Sessions
    BY <1>3 DEF Touches, IInv, TypeOK
  <2>3. rows' \in SUBSET (Runs \X (1..MaxSubs))
    BY <1>3 DEF Touches, IInv, TypeOK
  <2> QED BY <1>1, <2>1, <2>2, <2>3 DEF TypeOK
<1>5. Shaped'
  BY <1>1 DEF Shaped, IInv
<1>6. AskedAreActive'
  BY <1>1 DEF AskedAreActive, Active, Handled, Release, IInv
<1>7. OneOwnerPerName'
  <2>1. \A q \in Runs : Holds(q)' => Holds(q)
    BY <1>1 DEF Holds, Active, Handled
  <2>2. \A q \in Runs : run'[q].name = run[q].name
    BY <1>1
  <2>3. \A q, s \in Runs : Holds(q)' /\ Holds(s)' /\ run'[q].name = run'[s].name
                           => q = s
    BY <2>1, <2>2 DEF IInv, OneOwnerPerName
  <2>4. CASE x.at \in Building \union Undoing /\ UNCHANGED reserved
    <3>1. \A q \in Runs : Active(q)' <=> Active(q)
      BY <1>1, <2>4 DEF Active, Handled
    <3> QED BY <2>2, <2>3, <2>4, <3>1 DEF IInv, OneOwnerPerName
  <2>5. CASE x.at = "end" /\ Release(r)
    <3>1. \A q \in Runs : Active(q)' <=> Active(q) /\ q # r
      BY <1>1, <2>5 DEF Active, Building, Undoing
    <3>2. \A q \in Runs : Active(q) /\ run[q].name = run[r].name => q = r
      BY DEF IInv, OneOwnerPerName, Holds, Handled
    <3>3. reserved' = {run[q].name : q \in {p \in Runs : Active(p)}} \ {run[r].name}
      BY <2>5 DEF Release, IInv, OneOwnerPerName
    <3>4. reserved' = {run'[q].name : q \in {p \in Runs : Active(p)'}}
      BY <2>2, <3>1, <3>2, <3>3
    <3> QED BY <2>3, <3>4 DEF OneOwnerPerName
  <2> QED BY <2>4, <2>5 DEF Handled
<1>8. MainsAreOwned'
  <2> SUFFICES ASSUME NEW t \in Names, t \in up'
               PROVE  \E q \in Runs : AnswersFor(run'[q], t)
    BY DEF MainsAreOwned
  <2>1. CASE t \notin up \/ AnswersFor(run[r], t)
    BY <1>1, <2>1 DEF Counts
  <2>2. CASE t \in up /\ ~AnswersFor(run[r], t)
    <3>1. PICK q \in Runs : AnswersFor(run[q], t)
      BY <2>2 DEF IInv, MainsAreOwned
    <3>2. q # r
      BY <2>2, <3>1
    <3> QED BY <1>1, <3>1, <3>2
  <2> QED BY <2>1, <2>2
<1>9. MembersAreThere'
  <2> SUFFICES ASSUME NEW q \in Runs, NEW i \in Members, i < Built(run'[q])
               PROVE  Member(q, i)' \in up' \intersect store'
    BY DEF MembersAreThere
  <2>1. Member(q, i)' = Member(q, i)
    BY <1>1 DEF Member
  <2>2. CASE q = r
    BY <1>1, <2>1, <2>2 DEF Counts
  <2>3. CASE q # r
    <3>1. i < Built(run[q]) /\ i \in 0..MaxSubs
      BY <1>1, <2>3 DEF Members
    <3>2. Member(q, i) \in up \intersect store
      BY <3>1 DEF IInv, MembersAreThere
    <3>3. Holds(q) /\ run[q].name \in Names
      <4>1. run[q].at \in Building \/ run[q].verdict = "succeeded"
        BY <3>1 DEF Built, Building
      <4> QED BY <4>1 DEF Holds, Active, IInv, Shaped, Shape
    <3>4. run[q].name # run[r].name
      BY <2>3, <3>3 DEF Handled, Holds, IInv, OneOwnerPerName
    <3>5. run[r].i \in 0..MaxSubs
      BY <1>1 DEF RunType, Members
    <3>6. Member(q, i) # Current(r)
      BY <1>2, <2>3, <3>1, <3>3, <3>4, <3>5, CloneAssumption
      DEF Member, Current
    <3> QED BY <2>1, <3>2, <3>6 DEF Touches
  <2> QED BY <2>2, <2>3
<1>10. RowsAreThere'
  <2> SUFFICES ASSUME NEW q \in Runs, NEW i \in 1..MaxSubs, i < Rowed(run'[q])
               PROVE  <<q, i>> \in rows'
    BY DEF RowsAreThere
  <2>1. CASE q = r
    BY <1>1, <2>1 DEF Counts
  <2>2. CASE q # r
    <3>1. <<q, i>> \in rows
      BY <1>1, <2>2 DEF IInv, RowsAreThere
    <3> QED BY <2>2, <3>1 DEF Touches, Row
  <2> QED BY <2>1, <2>2
<1> QED BY <1>4, <1>5, <1>6, <1>7, <1>8, <1>9, <1>10 DEF IInv

-----------------------------------------------------------------------------
(* Every step of a handler shows it.                                         *)

(* What is known of the record of an operation under way.                     *)
LEMMA AtWork ==
  ASSUME IInv, NEW r \in Runs, Active(r)
  PROVE  /\ run[r] \in RunType /\ Shape(run[r]) /\ run[r].name \in Names
         /\ run[r].verdict = "none"
         /\ run[r].n \in 0..MaxSubs /\ run[r].i \in 0..MaxSubs
         /\ run[r].made \in 0..(MaxSubs + 1) /\ MaxSubs \in Nat
         /\ \A x : run' = [run EXCEPT ![r] = x] => run'[r] = x
         /\ \A i \in Members :
              i < Built(run[r]) => Member(r, i) \in up \intersect store
         /\ \A i \in 1..MaxSubs : i < Rowed(run[r]) => <<r, i>> \in rows
<1>1. run[r] \in RunType /\ Shape(run[r]) /\ run \in [Runs -> RunType]
  BY DEF IInv, TypeOK, Shaped
<1>2. /\ run[r].n \in 0..MaxSubs /\ run[r].i \in 0..MaxSubs
      /\ run[r].made \in 0..(MaxSubs + 1)
      /\ run[r].verdict \in Ending \union {"none"}
  BY <1>1 DEF RunType, Members
<1>3. run[r].name \in Names /\ run[r].verdict = "none"
  BY <1>1 DEF Shape, Active, Building, Undoing
<1>4. /\ \A i \in Members :
           i < Built(run[r]) => Member(r, i) \in up \intersect store
      /\ \A i \in 1..MaxSubs : i < Rowed(run[r]) => <<r, i>> \in rows
  BY DEF IInv, MembersAreThere, RowsAreThere
<1> QED BY <1>1, <1>2, <1>3, <1>4, CloneAssumption

(* A failure of anything that was noted as created starts the rollback.       *)
LEMMA UnwindingIsHandled ==
  ASSUME IInv, NEW r \in Runs, Active(r), NEW y \in RunType,
         y.name = run[r].name, y.verdict = "none", 1 <= y.made,
         run' = [run EXCEPT ![r] = Unwound(r, y)],
         UNCHANGED <<known, reserved, cancelled>>,
         up' \subseteq up \union {Current(r)}
  PROVE  Handled(r, Unwound(r, y)) /\ Counts(r, Unwound(r, y))
<1> DEFINE x == Unwound(r, y)
<1>1. /\ x \in RunType /\ Shape(x) /\ x.name = run[r].name
      /\ x.at \in {"stopSub", "stopProject"} /\ x.verdict = "none"
      /\ Built(x) = 0 /\ Rowed(x) = 0
  BY AtWork, UnwoundFits
<1> HIDE DEF x
<1>2. Handled(r, x)
  BY <1>1 DEF Handled, Undoing, x
<1>3. \A t \in Names :
        t \in up' /\ (AnswersFor(run[r], t) \/ t \notin up) => AnswersFor(x, t)
  <2>1. \A t \in Names : t \in up' /\ t \notin up => t = run[r].name
    BY AtWork, CloneAssumption DEF Current, Member
  <2> QED BY <1>1, <2>1 DEF AnswersFor
<1>4. Counts(r, x)
  BY <1>1, <1>3, CloneAssumption DEF Counts, Members
<1> QED BY <1>2, <1>4 DEF x

(* Before anything is created.                                               *)
LEMMA FirstSteps ==
  ASSUME IInv, NEW r \in Runs,
         (\E n \in 0..Subs[r] : CwdResolved(r, n)) \/ FailsEarly(r)
  PROVE  \E x : Handled(r, x) /\ Touches(r) /\ Counts(r, x)
<1>1. CASE \E n \in 0..Subs[r] : CwdResolved(r, n)
  <2>1. PICK n \in 0..Subs[r] : CwdResolved(r, n)
    BY <1>1
  <2> DEFINE x == [run[r] EXCEPT !.at = "main", !.n = n]
  <2>2. Active(r) /\ run' = [run EXCEPT ![r] = x] /\ run[r].at = "cwd"
    BY <2>1 DEF CwdResolved, Active, Building
  <2>3. n \in Members
    BY CloneAssumption DEF Members
  <2>4. x \in RunType /\ x.at = "main" /\ x.name = run[r].name
        /\ x.made = run[r].made /\ x.i = run[r].i /\ x.verdict = "none"
        /\ x.owed = run[r].owed
    BY <2>2, <2>3, AtWork DEF RunType, Building
  <2> HIDE DEF x
  <2>5. Shape(x) /\ Built(x) = 0 /\ Rowed(x) = 0
    BY <2>2, <2>4, AtWork DEF Shape, Built, Rowed, Building, Undoing
  <2>6. Handled(r, x)
    BY <2>1, <2>2, <2>4, <2>5 DEF Handled, CwdResolved, Building
  <2>7. Touches(r)
    BY <2>1 DEF Touches, CwdResolved
  <2>8. Counts(r, x)
    BY <2>1, <2>2, <2>4, <2>5, AtWork
    DEF Counts, CwdResolved, AnswersFor, Members
  <2> QED BY <2>6, <2>7, <2>8
<1>2. CASE FailsEarly(r)
  <2> DEFINE y == [run[r] EXCEPT !.code = Code(r)]
             x == Finished(y)
  <2>1. /\ Active(r) /\ run' = [run EXCEPT ![r] = x] /\ Release(r)
        /\ run[r].at \in {"cwd", "main"}
    BY <1>2 DEF FailsEarly, Abandon, Active, Building
  <2>2. /\ y \in RunType /\ y.name = run[r].name /\ y.owed = run[r].owed
    BY <2>1, AtWork DEF RunType, Code
  <2>3. /\ x \in RunType /\ Shape(x) /\ x.at = "end" /\ x.name = run[r].name
        /\ x.owed = run[r].owed /\ x.verdict # "succeeded"
        /\ Built(x) = 0 /\ Rowed(x) = 0
    BY <2>2, FinishedFits
  <2> HIDE DEF x
  <2>4. Handled(r, x)
    BY <2>1, <2>3 DEF Handled
  <2>5. Touches(r)
    BY <1>2 DEF Touches, FailsEarly
  <2>6. Counts(r, x)
    BY <1>2, <2>1, <2>3, AtWork DEF Counts, FailsEarly, AnswersFor, Members
  <2> QED BY <2>4, <2>5, <2>6
<1> QED BY <1>1, <1>2

(* The loop over the members goes on, or a failure or a cancel ends it.        *)
LEMMA LaunchSteps ==
  ASSUME IInv, NEW r \in Runs, Launched(r) \/ SubFails(r)
  PROVE  \E x : Handled(r, x) /\ Touches(r) /\ Counts(r, x)
<1>1. CASE SubFails(r)
  <2>1. /\ Active(r) /\ run[r].at = "subs"
        /\ run' = [run EXCEPT ![r] = Unwound(r, run[r])]
        /\ UNCHANGED <<known, reserved, cancelled, up, store, rows>>
    BY <1>1 DEF SubFails, Active, Building
  <2>2. 1 <= run[r].made
    BY <2>1, AtWork DEF Shape
  <2>3. Handled(r, Unwound(r, run[r])) /\ Counts(r, Unwound(r, run[r]))
    BY <2>1, <2>2, AtWork, UnwindingIsHandled
  <2> QED BY <2>1, <2>3 DEF Touches
<1>2. CASE Launched(r)
  <2> DEFINE rec == [run[r] EXCEPT !.made = @ + 1]
             next == AfterLaunch(rec)
  <2>1. /\ Active(r) /\ run[r].at \in {"main", "subs"}
        /\ up' = up \union {Current(r)} /\ store' = store \union {Current(r)}
        /\ UNCHANGED <<known, reserved, cancelled, rows>>
        /\ \/ run' = [run EXCEPT ![r] = Unwound(r, rec)]
           \/ run' = [run EXCEPT ![r] = Unwound(r, next)]
           \/ run' = [run EXCEPT ![r] = next]
    BY <1>2 DEF Launched, Onward, Active, Building
  <2>2. run[r].made \in 0..MaxSubs /\ run[r].i = run[r].made
        /\ run[r].made <= run[r].n
    BY <2>1, AtWork DEF Shape
  <2>3. /\ rec \in RunType /\ rec.name = run[r].name /\ rec.verdict = "none"
        /\ rec.made = run[r].made + 1 /\ rec.n = run[r].n
        /\ rec.owed = run[r].owed
    BY <2>1, <2>2, AtWork DEF RunType
  <2> HIDE DEF rec
  <2>4. /\ next \in RunType /\ next.name = run[r].name /\ next.verdict = "none"
        /\ next.made = run[r].made + 1 /\ next.n = run[r].n
        /\ next.owed = run[r].owed
        /\ \/ next.at = "subs" /\ next.i = next.made /\ next.made <= next.n
           \/ next.at = "rows" /\ next.i = 0 /\ next.made > next.n
    <3>1. CASE rec.made <= rec.n
      <4>1. next = [rec EXCEPT !.at = "subs", !.i = rec.made]
        BY <3>1 DEF AfterLaunch
      <4>2. rec.made \in Members
        BY <2>2, <2>3, <3>1, AtWork, <2>1 DEF Members
      <4> QED BY <2>3, <3>1, <4>1, <4>2 DEF RunType, Building
    <3>2. CASE ~(rec.made <= rec.n)
      <4>1. next = [rec EXCEPT !.at = "rows", !.i = 0]
        BY <3>2 DEF AfterLaunch
      <4>2. 0 \in Members /\ rec.made > rec.n
        BY <2>1, <2>2, <2>3, <3>2, AtWork DEF Members
      <4> QED BY <2>3, <4>1, <4>2 DEF RunType, Building
    <3> QED BY <3>1, <3>2
  <2> HIDE DEF next
  <2>5. Touches(r)
    BY <2>1 DEF Touches
  <2>6. CASE run' = [run EXCEPT ![r] = Unwound(r, rec)]
    <3>1. 1 <= rec.made
      BY <2>1, <2>2, <2>3, AtWork
    <3>2. up' \subseteq up \union {Current(r)}
      BY <2>1
    <3>3. Handled(r, Unwound(r, rec)) /\ Counts(r, Unwound(r, rec))
      BY <2>1, <2>3, <2>6, <3>1, <3>2, UnwindingIsHandled
    <3> QED BY <2>5, <3>3
  <2>7. CASE run' = [run EXCEPT ![r] = Unwound(r, next)]
    <3>1. 1 <= next.made
      BY <2>1, <2>2, <2>4, AtWork
    <3>2. up' \subseteq up \union {Current(r)}
      BY <2>1
    <3>3. Handled(r, Unwound(r, next)) /\ Counts(r, Unwound(r, next))
      BY <2>1, <2>4, <2>7, <3>1, <3>2, UnwindingIsHandled
    <3> QED BY <2>5, <3>3
  <2>8. CASE run' = [run EXCEPT ![r] = next]
    <3>1. Shape(next) /\ Built(next) = run[r].made + 1 /\ Rowed(next) = 0
      BY <2>1, <2>2, <2>4, AtWork DEF Shape, Built, Rowed, Building, Undoing
    <3>2. Handled(r, next)
      BY <2>1, <2>4, <2>8, <3>1 DEF Handled, Building
    <3>3. \A i \in Members : i < Built(next) => Member(r, i) \in up' \intersect store'
      <4> SUFFICES ASSUME NEW i \in Members, i < run[r].made + 1
                   PROVE  Member(r, i) \in up' \intersect store'
        BY <3>1
      <4>1. CASE i = run[r].made
        BY <2>1, <2>2, <4>1 DEF Current
      <4>2. CASE i # run[r].made
        <5>1. i \in 0..MaxSubs /\ i < run[r].made
          BY <2>1, <2>2, <4>2, AtWork DEF Members
        <5>2. i < Built(run[r])
          BY <2>1, <5>1, AtWork DEF Built, Shape
        <5> QED BY <2>1, <5>2, AtWork
      <4> QED BY <4>1, <4>2
    <3>4. \A t \in Names : t \in up' /\ (AnswersFor(run[r], t) \/ t \notin up)
                           => AnswersFor(next, t)
      <4>1. \A t \in Names : t \in up' /\ t \notin up => t = run[r].name
        BY <2>1, AtWork, CloneAssumption DEF Current, Member
      <4> QED BY <2>4, <4>1 DEF AnswersFor
    <3>5. \A i \in 1..MaxSubs : ~(i < Rowed(next))
      BY <3>1, CloneAssumption
    <3>6. Counts(r, next)
      BY <3>3, <3>4, <3>5 DEF Counts
    <3> QED BY <2>5, <3>2, <3>6
  <2> QED BY <2>1, <2>6, <2>7, <2>8
<1> QED BY <1>1, <1>2

LEMMA RowSteps ==
  ASSUME IInv, NEW r \in Runs, RowWritten(r) \/ RowRefused(r)
  PROVE  \E x : Handled(r, x) /\ Touches(r) /\ Counts(r, x)
<1>1. /\ Active(r) /\ run[r].at = "rows"
      /\ UNCHANGED <<known, reserved, cancelled, up, store>>
      /\ rows' \in {rows, rows \union Row(r)}
  BY DEF RowWritten, RowRefused, Active, Building
<1>2. run[r].made = run[r].n + 1 /\ run[r].i <= run[r].n
  BY <1>1, AtWork DEF Shape
<1>3. Touches(r)
  BY <1>1 DEF Touches
<1>4. CASE RowRefused(r)
  <2>1. run' = [run EXCEPT ![r] = Unwound(r, run[r])]
    BY <1>4 DEF RowRefused
  <2>2. 1 <= run[r].made
    BY <1>1, <1>2, AtWork
  <2>3. Handled(r, Unwound(r, run[r])) /\ Counts(r, Unwound(r, run[r]))
    BY <1>1, <2>1, <2>2, AtWork, UnwindingIsHandled
  <2> QED BY <1>3, <2>3
<1>5. CASE RowWritten(r)
  <2> DEFINE more == [run[r] EXCEPT !.i = run[r].i + 1]
             done == [run[r] EXCEPT !.at = "config"]
  <2>1. rows' = rows \union Row(r)
    BY <1>5 DEF RowWritten
  <2>2. \/ run[r].i < run[r].n /\ run' = [run EXCEPT ![r] = more]
        \/ ~(run[r].i < run[r].n) /\ run' = [run EXCEPT ![r] = done]
        \/ run' = [run EXCEPT ![r] = Unwound(r, done)]
    BY <1>5 DEF RowWritten, AfterRow, Onward
  <2>3. /\ done \in RunType /\ done.name = run[r].name /\ done.verdict = "none"
        /\ done.made = run[r].made /\ done.n = run[r].n /\ done.at = "config"
        /\ done.owed = run[r].owed
    BY <1>1, AtWork DEF RunType, Building
  <2> HIDE DEF done
  <2>4. \A i \in 1..MaxSubs : i < run[r].i + 1 => <<r, i>> \in rows'
    <3> SUFFICES ASSUME NEW i \in 1..MaxSubs, i < run[r].i + 1
                 PROVE  <<r, i>> \in rows'
      OBVIOUS
    <3>1. CASE i = run[r].i
      <4>1. <<r, i>> # <<r, 0>>
        OBVIOUS
      <4> QED BY <2>1, <3>1, <4>1 DEF Row
    <3>2. CASE i # run[r].i
      <4>1. i < Rowed(run[r])
        BY <1>1, <3>2, AtWork DEF Rowed
      <4> QED BY <1>1, <2>1, <4>1, AtWork
    <3> QED BY <3>1, <3>2
  <2>5. \A y : y.name = run[r].name /\ y.at \in {"rows", "config"} =>
          \A t \in Names : t \in up' /\ (AnswersFor(run[r], t) \/ t \notin up)
                           => AnswersFor(y, t)
    BY <1>1 DEF AnswersFor
  <2>6. CASE run' = [run EXCEPT ![r] = Unwound(r, done)]
    <3>1. 1 <= done.made
      BY <1>1, <1>2, <2>3, AtWork
    <3>2. Handled(r, Unwound(r, done)) /\ Counts(r, Unwound(r, done))
      BY <1>1, <2>3, <2>6, <3>1, UnwindingIsHandled
    <3> QED BY <1>3, <3>2
  <2>7. CASE ~(run[r].i < run[r].n) /\ run' = [run EXCEPT ![r] = done]
    <3>1. /\ Shape(done) /\ Built(done) = Built(run[r])
          /\ Rowed(done) = run[r].i + 1
      BY <1>1, <1>2, <2>3, <2>7, AtWork
      DEF Shape, Built, Rowed, Building, Undoing
    <3>2. Handled(r, done)
      BY <1>1, <2>3, <2>7, <3>1 DEF Handled, Building
    <3>3. Counts(r, done)
      BY <1>1, <2>3, <2>4, <2>5, <3>1, AtWork DEF Counts
    <3> QED BY <1>3, <3>2, <3>3
  <2>8. CASE run[r].i < run[r].n /\ run' = [run EXCEPT ![r] = more]
    <3>1. run[r].i + 1 \in Members
      BY <1>1, <2>8, AtWork DEF Members
    <3>2. /\ more \in RunType /\ more.name = run[r].name
          /\ more.verdict = "none" /\ more.made = run[r].made
          /\ more.n = run[r].n /\ more.at = "rows" /\ more.i = run[r].i + 1
          /\ more.owed = run[r].owed
      BY <1>1, <3>1, AtWork DEF RunType
    <3> HIDE DEF more
    <3>3. /\ Shape(more) /\ Built(more) = Built(run[r])
          /\ Rowed(more) = run[r].i + 1
      BY <1>1, <1>2, <2>8, <3>2, AtWork
      DEF Shape, Built, Rowed, Building, Undoing
    <3>4. Handled(r, more)
      BY <1>1, <2>8, <3>2, <3>3 DEF Handled, Building
    <3>5. Counts(r, more)
      BY <1>1, <2>4, <2>5, <3>2, <3>3, AtWork DEF Counts
    <3> QED BY <1>3, <3>4, <3>5
  <2> QED BY <2>2, <2>6, <2>7, <2>8
<1> QED BY <1>4, <1>5

LEMMA ConfigSteps ==
  ASSUME IInv, NEW r \in Runs, ConfigCopied(r) \/ ConfigFails(r)
  PROVE  \E x : Handled(r, x) /\ Touches(r) /\ Counts(r, x)
<1> DEFINE noted == [run[r] EXCEPT !.wrote = TRUE]
           x == Over(run[r], "succeeded")
<1>1. /\ Active(r) /\ run[r].at = "config" /\ UNCHANGED <<up, store, rows>>
      /\ \/ run' = [run EXCEPT ![r] = x] /\ Release(r) /\ r \notin cancelled
         \/ /\ \/ run' = [run EXCEPT ![r] = Unwound(r, noted)]
               \/ run' = [run EXCEPT ![r] = Unwound(r, run[r])]
            /\ UNCHANGED <<known, reserved, cancelled>>
  BY DEF ConfigCopied, ConfigFails, Commits, Active, Building
<1>2. Touches(r)
  BY <1>1 DEF Touches
<1>3. run[r].made = run[r].n + 1 /\ 1 <= run[r].made
  BY <1>1, AtWork DEF Shape
<1>4. /\ noted \in RunType /\ noted.name = run[r].name /\ noted.verdict = "none"
      /\ noted.made = run[r].made
  BY <1>1, AtWork DEF RunType
<1>5. /\ x \in RunType /\ Shape(x) /\ x.at = "end" /\ x.name = run[r].name
      /\ x.verdict = "succeeded" /\ x.n = run[r].n
  BY <1>1, AtWork, OverFits DEF Ending
<1> HIDE DEF noted, x
<1>6. CASE run' = [run EXCEPT ![r] = x] /\ Release(r) /\ r \notin cancelled
  <2>1. Handled(r, x)
    BY <1>1, <1>5, <1>6 DEF Handled
  <2>2. Built(x) = Built(run[r]) /\ Rowed(x) = Rowed(run[r])
    BY <1>1, <1>3, <1>5 DEF Built, Rowed
  <2>3. Counts(r, x)
    BY <1>1, <1>5, <2>2, AtWork DEF Counts, AnswersFor
  <2> QED BY <1>2, <2>1, <2>3
<1>7. CASE /\ run' = [run EXCEPT ![r] = Unwound(r, noted)]
           /\ UNCHANGED <<known, reserved, cancelled>>
  <2>1. Handled(r, Unwound(r, noted)) /\ Counts(r, Unwound(r, noted))
    BY <1>1, <1>3, <1>4, <1>7, UnwindingIsHandled
  <2> QED BY <1>2, <2>1
<1>8. CASE /\ run' = [run EXCEPT ![r] = Unwound(r, run[r])]
           /\ UNCHANGED <<known, reserved, cancelled>>
  <2>1. Handled(r, Unwound(r, run[r])) /\ Counts(r, Unwound(r, run[r]))
    BY <1>1, <1>3, <1>8, AtWork, UnwindingIsHandled
  <2> QED BY <1>2, <2>1
<1> QED BY <1>1, <1>6, <1>7, <1>8

(* In a rollback nothing is counted on any more, and a main session has an    *)
(* owner until it is stopped.                                                *)
LEMMA UndoIsHandled ==
  ASSUME IInv, NEW r \in Runs, run[r].at \in Undoing, NEW x \in RunType,
         Shape(x), x.name = run[r].name, run' = [run EXCEPT ![r] = x],
         \/ x.at \in Undoing /\ UNCHANGED <<known, reserved, cancelled>>
         \/ x.at = "end" /\ x.verdict # "succeeded" /\ Release(r),
         run[r].owed \subseteq x.owed, up' \subseteq up,
         \/ x.at \in {"stopSub", "dropSub", "stopProject"}
         \/ run[r].at \in {"dropMain", "restore"}
         \/ run[r].name \notin up' \/ "session" \in x.owed
  PROVE  Handled(r, x) /\ Counts(r, x)
<1>1. Active(r) /\ x.verdict # "succeeded"
  BY DEF Active, Shape, Undoing
<1>2. Handled(r, x)
  BY <1>1 DEF Handled
<1>3. Built(x) = 0 /\ Rowed(x) = 0
  BY <1>1 DEF Built, Rowed, Undoing
<1>4. \A t \in Names : t \in up' /\ AnswersFor(run[r], t) => AnswersFor(x, t)
  BY <1>1, AtWork DEF AnswersFor
<1>5. Counts(r, x)
  BY <1>3, <1>4, CloneAssumption DEF Counts, Members
<1> QED BY <1>2, <1>5

LEMMA UndoSubSteps ==
  ASSUME IInv, NEW r \in Runs,
         SubStopped(r) \/ \E ok \in BOOLEAN : SubDropped(r, ok)
  PROVE  \E x : Handled(r, x) /\ Touches(r) /\ Counts(r, x)
<1>1. CASE SubStopped(r)
  <2> DEFINE x == [run[r] EXCEPT !.at = "dropSub"]
  <2>1. /\ Active(r) /\ run[r].at = "stopSub"
        /\ UNCHANGED <<known, reserved, cancelled, rows>>
        /\ up' \in {up, up \ {Current(r)}} /\ store' = store \ {Current(r)}
    BY <1>1 DEF SubStopped, Active, Undoing
  <2>2. run[r] \in RunType /\ run \in [Runs -> RunType] /\ Shape(run[r])
    BY <2>1, AtWork DEF IInv, TypeOK
  <2>3. run' = [run EXCEPT ![r] = x]
    BY <1>1, <2>2 DEF SubStopped, Goto, RunType
  <2>4. /\ x \in RunType /\ x.at = "dropSub" /\ x.name = run[r].name
        /\ x.owed = run[r].owed /\ x.i = run[r].i /\ x.verdict = "none"
    BY <2>1, <2>2, AtWork DEF RunType, Undoing
  <2> HIDE DEF x
  <2>5. Shape(x)
    BY <2>1, <2>2, <2>4, AtWork DEF Shape, Building, Undoing
  <2>6. Handled(r, x) /\ Counts(r, x)
    BY <2>1, <2>3, <2>4, <2>5, UndoIsHandled DEF Undoing
  <2> QED BY <2>1, <2>6 DEF Touches
<1>2. ASSUME NEW ok \in BOOLEAN, SubDropped(r, ok)
      PROVE  \E x : Handled(r, x) /\ Touches(r) /\ Counts(r, x)
  <2> DEFINE y == Noted(run[r], ok)
             x == AfterSub(y)
  <2>1. /\ Active(r) /\ run[r].at = "dropSub" /\ run' = [run EXCEPT ![r] = x]
        /\ UNCHANGED <<known, reserved, cancelled, up, store>>
        /\ rows' \in {rows, rows \ Row(r)}
    BY <1>2 DEF SubDropped, RowDropped, Active, Undoing
  <2>2. /\ y \in RunType /\ y.name = run[r].name /\ y.i = run[r].i
        /\ run[r].owed \subseteq y.owed /\ y.verdict = "none"
    BY <2>1, AtWork, NotedFits DEF RunType
  <2> HIDE DEF y
  <2>3. 1 <= y.i /\ y.i \in 0..MaxSubs /\ MaxSubs \in Nat
    BY <2>1, <2>2, AtWork DEF Shape
  <2>4. /\ x \in RunType /\ x.name = run[r].name /\ x.verdict = "none"
        /\ run[r].owed \subseteq x.owed
        /\ \/ x.at = "stopSub" /\ 1 <= x.i
           \/ x.at = "stopProject" /\ x.i = 0
    <3>1. CASE y.i > 1
      <4>1. x = [y EXCEPT !.at = "stopSub", !.i = y.i - 1]
        BY <3>1 DEF AfterSub
      <4>2. y.i - 1 \in Members /\ 1 <= y.i - 1
        BY <2>3, <3>1 DEF Members
      <4> QED BY <2>2, <4>1, <4>2 DEF RunType, Undoing
    <3>2. CASE ~(y.i > 1)
      <4>1. x = [y EXCEPT !.at = "stopProject", !.i = 0]
        BY <3>2 DEF AfterSub
      <4>2. 0 \in Members
        BY <2>3 DEF Members
      <4> QED BY <2>2, <4>1, <4>2 DEF RunType, Undoing
    <3> QED BY <3>1, <3>2
  <2> HIDE DEF x
  <2>5. Shape(x)
    BY <2>1, <2>4, AtWork DEF Shape, Building, Undoing
  <2>6. Handled(r, x) /\ Counts(r, x)
    BY <2>1, <2>4, <2>5, UndoIsHandled DEF Undoing
  <2> QED BY <2>1, <2>6 DEF Touches
<1> QED BY <1>1, <1>2

LEMMA UndoMainSteps ==
  ASSUME IInv, NEW r \in Runs, NEW ok \in BOOLEAN,
         ProjectStopped(r, ok) \/ MainDropped(r, ok) \/ ConfigRestored(r, ok)
  PROVE  \E x : Handled(r, x) /\ Touches(r) /\ Counts(r, x)
<1> DEFINE y == Noted(run[r], ok)
<1>1. Active(r) /\ run[r].at \in {"stopProject", "dropMain", "restore"}
  BY DEF ProjectStopped, MainDropped, ConfigRestored, Active, Undoing
<1>2. /\ y \in RunType /\ y.name = run[r].name /\ y.i = run[r].i
      /\ run[r].owed \subseteq y.owed /\ y.verdict = "none"
  BY <1>1, AtWork, NotedFits DEF RunType
<1> HIDE DEF y
<1>3. /\ Finished(y) \in RunType /\ Shape(Finished(y))
      /\ Finished(y).at = "end" /\ Finished(y).name = run[r].name
      /\ run[r].owed \subseteq Finished(y).owed
      /\ Finished(y).verdict # "succeeded"
  BY <1>2, FinishedFits
<1>4. CASE ProjectStopped(r, ok)
  <2> DEFINE x == [run[r] EXCEPT !.at = "dropMain",
                                 !.owed = @ \union OwedAfterStop(ok)]
  <2>1. /\ run[r].at = "stopProject"
        /\ UNCHANGED <<known, reserved, cancelled, rows>>
        /\ up' \in {up, up \ {Current(r)}} /\ store' = store \ {Current(r)}
        /\ ok => up' = up \ {Current(r)}
    BY <1>4 DEF ProjectStopped
  <2>2. run[r] \in RunType /\ run \in [Runs -> RunType] /\ Shape(run[r])
    BY <1>1, AtWork DEF IInv, TypeOK
  <2>3. run' = [run EXCEPT ![r] = x]
    BY <1>4, <2>2 DEF ProjectStopped, RunType
  <2>4. /\ x \in RunType /\ x.at = "dropMain" /\ x.name = run[r].name
        /\ x.owed = run[r].owed \union OwedAfterStop(ok)
        /\ x.i = run[r].i /\ x.verdict = "none"
    BY <1>1, <2>2, AtWork DEF RunType, Undoing, OwedAfterStop, Cleanup
  <2> HIDE DEF x
  <2>5. Shape(x) /\ Current(r) = run[r].name
    BY <1>1, <2>1, <2>2, <2>4, AtWork
    DEF Shape, Building, Undoing, Current, Member
  <2>6. run[r].name \notin up' \/ "session" \in x.owed
    BY <2>1, <2>4, <2>5 DEF OwedAfterStop
  <2>7. Handled(r, x) /\ Counts(r, x)
    BY <2>1, <2>3, <2>4, <2>5, <2>6, UndoIsHandled DEF Undoing
  <2> QED BY <2>1, <2>7 DEF Touches
<1>5. CASE MainDropped(r, ok)
  <2> DEFINE x == [y EXCEPT !.at = "restore"]
  <2>1. /\ run[r].at = "dropMain" /\ UNCHANGED <<up, store>>
        /\ rows' \in {rows, rows \ Row(r)}
        /\ \/ /\ run' = [run EXCEPT ![r] = x]
              /\ UNCHANGED <<known, reserved, cancelled>>
           \/ run' = [run EXCEPT ![r] = Finished(y)] /\ Release(r)
    BY <1>5 DEF MainDropped, RowDropped, y
  <2>2. Touches(r)
    BY <2>1 DEF Touches
  <2>3. CASE run' = [run EXCEPT ![r] = Finished(y)] /\ Release(r)
    <3>1. Handled(r, Finished(y)) /\ Counts(r, Finished(y))
      BY <1>3, <2>1, <2>3, UndoIsHandled DEF Undoing
    <3> QED BY <2>2, <3>1
  <2>4. CASE /\ run' = [run EXCEPT ![r] = x]
             /\ UNCHANGED <<known, reserved, cancelled>>
    <3>1. /\ x \in RunType /\ x.at = "restore" /\ x.name = run[r].name
          /\ x.owed = y.owed /\ x.verdict = "none"
      BY <1>2 DEF RunType, Undoing
    <3> HIDE DEF x
    <3>2. Shape(x)
      BY <1>1, <3>1, AtWork DEF Shape, Building, Undoing
    <3>3. Handled(r, x) /\ Counts(r, x)
      BY <1>2, <2>1, <2>4, <3>1, <3>2, UndoIsHandled DEF Undoing
    <3> QED BY <2>2, <3>3
  <2> QED BY <2>1, <2>3, <2>4
<1>6. CASE ConfigRestored(r, ok)
  <2>1. /\ run[r].at = "restore" /\ UNCHANGED <<up, store, rows>>
        /\ run' = [run EXCEPT ![r] = Finished(y)] /\ Release(r)
    BY <1>6 DEF ConfigRestored, y
  <2>2. Handled(r, Finished(y)) /\ Counts(r, Finished(y))
    BY <1>3, <2>1, UndoIsHandled DEF Undoing
  <2> QED BY <2>1, <2>2 DEF Touches
<1> QED BY <1>4, <1>5, <1>6

LEMMA StepIsHandled ==
  ASSUME IInv, NEW r \in Runs, Step(r)
  PROVE  \E x : Handled(r, x) /\ Touches(r) /\ Counts(r, x)
BY FirstSteps, LaunchSteps, RowSteps, ConfigSteps, UndoSubSteps, UndoMainSteps
DEF Step

-----------------------------------------------------------------------------
(* Requests and cancels.                                                     *)

LEMMA InitInv == Init => IInv
<1> SUFFICES ASSUME Init PROVE IInv
  OBVIOUS
<1> USE DEF Init
<1>1. 0 \in Members /\ 0 \in 0..(MaxSubs + 1)
  BY CloneAssumption DEF Members
<1>2. NewRun \in RunType /\ Shape(NewRun) /\ Built(NewRun) = 0 /\ Rowed(NewRun) = 0
  BY <1>1 DEF NewRun, RunType, Shape, Built, Rowed, Building, Undoing
<1>3. \A r \in Runs : run[r] = NewRun
  OBVIOUS
<1>4. TypeOK
  BY <1>2 DEF TypeOK
<1>5. \A r \in Runs : ~Active(r) /\ ~Holds(r)
  BY <1>3 DEF Active, Holds, NewRun, Building, Undoing
<1>6. Shaped /\ AskedAreActive /\ OneOwnerPerName /\ MainsAreOwned
  BY <1>2, <1>3, <1>5 DEF Shaped, AskedAreActive, OneOwnerPerName, MainsAreOwned
<1>7. MembersAreThere /\ RowsAreThere
  BY <1>2, <1>3, CloneAssumption DEF MembersAreThere, RowsAreThere, Members
<1> QED BY <1>4, <1>6, <1>7 DEF IInv

(* Forgetting and cancelling change no operation.                             *)
LEMMA OnlyAskedChanges ==
  ASSUME IInv, UNCHANGED <<run, reserved, up, store, rows>>,
         known' \subseteq known,
         cancelled' \in {cancelled} \union {cancelled \union {r} : r \in known}
  PROVE  IInv'
<1>1. TypeOK'
  BY DEF IInv, TypeOK
<1>2. AskedAreActive'
  BY DEF IInv, AskedAreActive, Active
<1>3. Shaped' /\ OneOwnerPerName' /\ MainsAreOwned'
  BY DEF IInv, Shaped, OneOwnerPerName, Holds, Active, MainsAreOwned
<1>4. MembersAreThere' /\ RowsAreThere'
  BY DEF IInv, MembersAreThere, RowsAreThere, Member
<1> QED BY <1>1, <1>2, <1>3, <1>4 DEF IInv

LEMMA RefusedKeepsInv ==
  ASSUME IInv, NEW r \in Runs, NEW old \in SUBSET known, StartRefused(r, old)
  PROVE  IInv'
<1> DEFINE y == [run[r] EXCEPT !.code = "error"]
           x == Finished(y)
<1>1. /\ run[r].at = "new" /\ run' = [run EXCEPT ![r] = x] /\ known' \subseteq known
      /\ UNCHANGED <<reserved, cancelled, up, store, rows>>
  BY DEF StartRefused
<1>2. run \in [Runs -> RunType] /\ Shape(run[r])
  BY DEF IInv, TypeOK, Shaped
<1>3. y \in RunType /\ y.owed = {}
  BY <1>1, <1>2 DEF RunType, Shape
<1>4. /\ x \in RunType /\ Shape(x) /\ x.at = "end" /\ x.owed = {}
      /\ x.verdict # "succeeded" /\ Built(x) = 0 /\ Rowed(x) = 0
  BY <1>3, FinishedFits
<1> HIDE DEF x
<1>5. /\ \A q \in Runs : run'[q] = IF q = r THEN x ELSE run[q]
      /\ run' \in [Runs -> RunType]
  BY <1>1, <1>2, <1>4
<1>6. TypeOK'
  BY <1>1, <1>5 DEF IInv, TypeOK
<1>7. Shaped'
  BY <1>4, <1>5 DEF IInv, Shaped
<1>8. /\ run[r].at \notin Building \union Undoing
      /\ x.at \notin Building \union Undoing
  BY <1>1, <1>4 DEF Building, Undoing
<1>9. AskedAreActive'
  BY <1>1, <1>5, <1>8 DEF IInv, AskedAreActive, Active
<1>10. OneOwnerPerName'
  <2>1. \A q, s \in Runs : Holds(q)' /\ Holds(s)' /\ run'[q].name = run'[s].name
                          => q = s
    BY <1>4, <1>5, <1>8 DEF IInv, OneOwnerPerName, Holds, Active
  <2>2. {p \in Runs : Active(p)'} = {p \in Runs : Active(p)}
    BY <1>5, <1>8 DEF Active
  <2>3. reserved' = {run'[q].name : q \in {p \in Runs : Active(p)'}}
    BY <1>1, <1>5, <1>8, <2>2 DEF IInv, OneOwnerPerName, Active
  <2> QED BY <2>1, <2>3 DEF OneOwnerPerName
<1>11. MainsAreOwned'
  <2>1. \A t \in Names : ~AnswersFor(run[r], t)
    BY <1>1, <1>2, CloneAssumption DEF AnswersFor, Shape
  <2> QED BY <1>1, <1>5, <2>1 DEF IInv, MainsAreOwned
<1>12. MembersAreThere' /\ RowsAreThere'
  BY <1>1, <1>4, <1>5, CloneAssumption
  DEF IInv, MembersAreThere, RowsAreThere, Member, Members
<1> QED BY <1>6, <1>7, <1>9, <1>10, <1>11, <1>12 DEF IInv

(* A name that nobody reserved, and that is not in the store, has no owner:   *)
(* a clone that is done has its main session in the store.                    *)
LEMMA FreeIsUnowned ==
  ASSUME IInv, NEW t \in Names, Free(t)
  PROVE  \A q \in Runs : Holds(q) => run[q].name # t
<1> SUFFICES ASSUME NEW q \in Runs, Holds(q), run[q].name = t PROVE FALSE
  OBVIOUS
<1>1. ~Active(q)
  BY DEF Free, IInv, OneOwnerPerName
<1>2. run[q].verdict = "succeeded"
  BY <1>1 DEF Holds
<1>3. run[q].n \in 0..MaxSubs /\ 0 \in Members
  BY CloneAssumption DEF IInv, TypeOK, RunType, Members
<1>4. 0 < Built(run[q])
  BY <1>2, <1>3, CloneAssumption DEF Built
<1>5. Member(q, 0) \in store
  BY <1>3, <1>4 DEF IInv, MembersAreThere
<1> QED BY <1>5 DEF Member, Free

LEMMA AcceptedKeepsInv ==
  ASSUME IInv, NEW r \in Runs, NEW t \in Names, NEW old \in SUBSET known,
         StartAccepted(r, t, old)
  PROVE  IInv'
<1> DEFINE x == [run[r] EXCEPT !.at = "cwd", !.name = t]
<1>1. /\ run[r].at = "new" /\ Free(t) /\ known' \subseteq known \union {r}
      /\ reserved' = reserved \union {t}
      /\ UNCHANGED <<cancelled, up, store, rows>>
  BY DEF StartAccepted
<1>2. /\ run \in [Runs -> RunType] /\ Shape(run[r]) /\ run[r] \in RunType
      /\ run[r].verdict = "none"
  <2>1. run \in [Runs -> RunType] /\ Shape(run[r]) /\ run[r] \in RunType
    BY DEF IInv, TypeOK, Shaped
  <2> QED BY <1>1, <2>1 DEF Shape
<1>3. run' = [run EXCEPT ![r] = x]
  <2>1. run' = [run EXCEPT ![r].at = "cwd", ![r].name = t]
    BY DEF StartAccepted
  <2> QED BY <1>2, <2>1 DEF RunType
<1>4. /\ x \in RunType /\ x.at = "cwd" /\ x.name = t /\ x.verdict = "none"
      /\ x.made = run[r].made /\ x.i = run[r].i
  BY <1>2 DEF RunType, Building
<1> HIDE DEF x
<1>5. Shape(x) /\ Built(x) = 0 /\ Rowed(x) = 0
  BY <1>1, <1>2, <1>4 DEF Shape, Built, Rowed, Building, Undoing
<1>6. /\ \A q \in Runs : run'[q] = IF q = r THEN x ELSE run[q]
      /\ run' \in [Runs -> RunType]
  BY <1>2, <1>3, <1>4
<1>7. TypeOK'
  BY <1>1, <1>6 DEF IInv, TypeOK
<1>8. Shaped'
  BY <1>5, <1>6 DEF IInv, Shaped
<1>9. run[r].at \notin Building \union Undoing /\ x.at \in Building
  BY <1>1, <1>4 DEF Building, Undoing
<1>10. AskedAreActive'
  BY <1>1, <1>6, <1>9 DEF IInv, TypeOK, AskedAreActive, Active
<1>11. OneOwnerPerName'
  <2>1. \A q \in Runs : q # r /\ Holds(q) => run[q].name # t
    BY <1>1, FreeIsUnowned
  <2>2. \A q, s \in Runs : Holds(q)' /\ Holds(s)' /\ run'[q].name = run'[s].name
                          => q = s
    BY <1>4, <1>6, <2>1 DEF IInv, OneOwnerPerName, Holds, Active
  <2>3. {p \in Runs : Active(p)'} = {p \in Runs : Active(p)} \union {r}
    BY <1>6, <1>9 DEF Active
  <2>4. ~Active(r) /\ reserved = {run[q].name : q \in {p \in Runs : Active(p)}}
    BY <1>9 DEF Active, IInv, OneOwnerPerName
  <2>5. reserved' = {run'[q].name : q \in {p \in Runs : Active(p)'}}
    BY <1>1, <1>4, <1>6, <2>3, <2>4
  <2> QED BY <2>2, <2>5 DEF OneOwnerPerName
<1>12. MainsAreOwned'
  <2>1. \A u \in Names : ~AnswersFor(run[r], u)
    BY <1>1, <1>2, CloneAssumption DEF AnswersFor, Shape
  <2> QED BY <1>1, <1>6, <2>1 DEF IInv, MainsAreOwned
<1>13. MembersAreThere' /\ RowsAreThere'
  BY <1>1, <1>5, <1>6, CloneAssumption
  DEF IInv, MembersAreThere, RowsAreThere, Member, Members
<1> QED BY <1>7, <1>8, <1>10, <1>11, <1>12, <1>13 DEF IInv

LEMMA NextKeepsInv == IInv /\ [Next]_vars => IInv'
<1> SUFFICES ASSUME IInv, [Next]_vars PROVE IInv'
  OBVIOUS
<1>1. CASE UNCHANGED vars
  BY <1>1, OnlyAskedChanges DEF vars
<1>2. ASSUME NEW old \in SUBSET known, StartKnown(old) PROVE IInv'
  <2>1. known' \subseteq known
    BY <1>2 DEF StartKnown
  <2> QED BY <1>2, <2>1, OnlyAskedChanges DEF StartKnown
<1>3. ASSUME NEW r \in Runs, Cancel(r) PROVE IInv'
  BY <1>3, OnlyAskedChanges DEF Cancel
<1>4. ASSUME NEW r \in Runs, Step(r) PROVE IInv'
  BY <1>4, StepIsHandled, HandledKeepsInv
<1> QED BY <1>1, <1>2, <1>3, <1>4, RefusedKeepsInv, AcceptedKeepsInv DEF Next

-----------------------------------------------------------------------------
(* What holds of every behaviour.                                            *)

(* The invariant everything below rests on: every operation is where its      *)
(* loops say, and nobody else undoes what it counts on.                       *)
THEOREM Invariance == Spec => []IInv
BY InitInv, NextKeepsInv, PTL DEF Spec

(* The records of operations and the daemon's tables keep their types.        *)
THEOREM TypeCorrect == Spec => []TypeOK
<1>1. IInv => TypeOK
  BY DEF IInv
<1> QED BY <1>1, Invariance, PTL

(* No two clones hold one name, and activeTargetReservations is exact.        *)
THEOREM OwnsItsName == Spec => []OneOwnerPerName
<1>1. IInv => OneOwnerPerName
  BY DEF IInv
<1> QED BY <1>1, Invariance, PTL

(* A clone that reported success has all its sessions and rows.               *)
THEOREM SucceedsWhole == Spec => []SuccessIsWhole
<1>1. IInv => SuccessIsWhole
  <2> SUFFICES ASSUME IInv, NEW r \in Runs, run[r].verdict = "succeeded",
                      NEW i \in 0..run[r].n
               PROVE  /\ Member(r, i) \in up \intersect store
                      /\ i > 0 => Member(r, i) \in rows
    BY DEF SuccessIsWhole
  <2>1. run[r].n \in 0..MaxSubs /\ MaxSubs \in Nat
    BY CloneAssumption DEF IInv, TypeOK, RunType, Members
  <2>2. i \in Members /\ i < Built(run[r]) /\ i < Rowed(run[r])
    BY <2>1 DEF Members, Built, Rowed
  <2>3. Member(r, i) \in up \intersect store
    BY <2>2 DEF IInv, MembersAreThere
  <2>4. ASSUME i > 0 PROVE Member(r, i) \in rows
    <3>1. i \in 1..MaxSubs /\ i # 0
      BY <2>1, <2>4
    <3> QED BY <2>2, <3>1 DEF IInv, RowsAreThere, Member
  <2> QED BY <2>3, <2>4
<1> QED BY <1>1, Invariance, PTL

(* A main session that exists is some clone's, or on a list for cleaning up.   *)
THEOREM OwesLeftovers == Spec => []LeftoversAreOwed
<1>1. IInv => LeftoversAreOwed
  <2>1. IInv => \A t \in Names \intersect up : \E r \in Runs : AnswersFor(run[r], t)
    BY DEF IInv, MainsAreOwned
  <2>2. \A r \in Runs, t \in Names :
          AnswersFor(run[r], t) => /\ run[r].name = t
                                   /\ Holds(r) \/ "session" \in run[r].owed
    BY DEF AnswersFor, Holds, Active, Building, Undoing
  <2> QED BY <2>1, <2>2 DEF LeftoversAreOwed, Holds, Active
<1> QED BY <1>1, Invariance, PTL

-----------------------------------------------------------------------------
(* The clone implements CloneTransaction, but for its end, which rests on     *)
(* launches and requests that end.                                           *)

Phase(x) == IF x.at = "new" THEN "none"
            ELSE IF x.at \in Building \union Undoing THEN "open"
            ELSE IF x.verdict = "succeeded" THEN "done" ELSE "undone"
phase == [r \in Runs |-> IF run[r].at = "new" THEN "none"
                         ELSE IF Active(r) THEN "open"
                         ELSE IF run[r].verdict = "succeeded"
                              THEN "done" ELSE "undone"]
name == [r \in Runs |-> run[r].name]

LEMMA InitImplements == Init => Promise!Init
BY DEF Init, Promise!Init, NewRun

(* One operation's record changes: so does its phase, and nothing else.        *)
LEMMA OnePhaseChanges ==
  ASSUME IInv, NEW r \in Runs, NEW x, run' = [run EXCEPT ![r] = x]
  PROVE  /\ phase' = [phase EXCEPT ![r] = Phase(x)]
         /\ name' = [name EXCEPT ![r] = x.name]
         /\ phase[r] = Phase(run[r]) /\ name[r] = run[r].name
<1>1. run \in [Runs -> RunType]
  BY DEF IInv, TypeOK
<1>2. \A q \in Runs : run'[q] = IF q = r THEN x ELSE run[q]
  BY <1>1
<1>3. phase[r] = Phase(run[r]) /\ name[r] = run[r].name
  BY DEF phase, name, Phase, Active
<1>4. \A q \in Runs : phase'[q] = IF q = r THEN Phase(x) ELSE phase[q]
  BY <1>2 DEF phase, Phase, Active
<1>5. phase' = [phase EXCEPT ![r] = Phase(x)]
  <2>1. phase = [q \in Runs |-> phase[q]] /\ phase' = [q \in Runs |-> phase'[q]]
    BY DEF phase
  <2> QED BY <1>4, <2>1
<1>6. name' = [name EXCEPT ![r] = x.name]
  <2>1. \A q \in Runs : name'[q] = IF q = r THEN x.name ELSE name[q]
    BY <1>2 DEF name
  <2>2. name = [q \in Runs |-> name[q]] /\ name' = [q \in Runs |-> name'[q]]
    BY DEF name
  <2> QED BY <2>1, <2>2
<1> QED BY <1>3, <1>5, <1>6

LEMMA StepImplements ==
  ASSUME IInv, NEW r \in Runs, Step(r)
  PROVE  Promise!Next \/ UNCHANGED Promise!vars
<1>1. PICK x : Handled(r, x)
  BY StepIsHandled
<1>2. /\ phase' = [phase EXCEPT ![r] = Phase(x)]
      /\ name' = [name EXCEPT ![r] = x.name]
      /\ phase[r] = Phase(run[r]) /\ name[r] = run[r].name
  BY <1>1, OnePhaseChanges DEF Handled
<1>3. phase[r] = "open" /\ x.name = name[r]
  BY <1>1, <1>2 DEF Handled, Active, Phase, Building, Undoing
<1>4. name' = name
  BY <1>2, <1>3 DEF name
<1>5. CASE x.at \in Building \union Undoing /\ UNCHANGED cancelled
  <2>1. Phase(x) = "open"
    BY <1>5 DEF Phase, Building, Undoing
  <2>2. phase' = phase
    BY <1>2, <1>3, <2>1 DEF phase
  <2> QED BY <1>4, <1>5, <2>2 DEF Promise!vars, name, phase
<1>6. CASE x.at = "end" /\ Release(r)
  <2>1. cancelled' = cancelled \ {r}
    BY <1>6 DEF Release
  <2>2. CASE x.verdict = "succeeded"
    <3>1. Phase(x) = "done" /\ r \notin cancelled /\ cancelled' = cancelled
      BY <1>1, <1>6, <2>1, <2>2 DEF Phase, Handled, Building, Undoing
    <3>2. Promise!Commit(r)
      BY <1>2, <1>3, <1>4, <3>1 DEF Promise!Commit, phase, name
    <3> QED BY <3>2 DEF Promise!Next, Promise!End
  <2>3. CASE x.verdict # "succeeded"
    <3>1. Phase(x) = "undone"
      BY <1>6, <2>3 DEF Phase, Building, Undoing
    <3>2. Promise!Undo(r)
      BY <1>2, <1>3, <1>4, <2>1, <3>1 DEF Promise!Undo, phase, name
    <3> QED BY <3>2 DEF Promise!Next, Promise!End
  <2> QED BY <2>2, <2>3
<1> QED BY <1>1, <1>5, <1>6 DEF Handled

LEMMA RefusedImplements ==
  ASSUME IInv, NEW r \in Runs, NEW old \in SUBSET known, StartRefused(r, old)
  PROVE  Promise!Next
<1> DEFINE y == [run[r] EXCEPT !.code = "error"]
           x == Finished(y)
<1>1. run[r].at = "new" /\ run' = [run EXCEPT ![r] = x] /\ UNCHANGED cancelled
  BY DEF StartRefused
<1>2. y \in RunType /\ y.name = run[r].name
  BY DEF IInv, TypeOK, RunType
<1>3. x.at = "end" /\ x.name = run[r].name /\ x.verdict # "succeeded"
  BY <1>2, FinishedFits
<1> HIDE DEF x
<1>4. /\ phase' = [phase EXCEPT ![r] = Phase(x)]
      /\ name' = [name EXCEPT ![r] = x.name]
      /\ phase[r] = Phase(run[r]) /\ name[r] = run[r].name
  BY <1>1, OnePhaseChanges
<1>5. phase[r] = "none" /\ Phase(x) = "undone" /\ x.name = name[r]
  BY <1>1, <1>3, <1>4 DEF Phase, Building, Undoing
<1>6. name' = name
  BY <1>4, <1>5 DEF name
<1>7. Promise!Refuse(r)
  BY <1>1, <1>4, <1>5, <1>6 DEF Promise!Refuse, phase, name
<1> QED BY <1>7 DEF Promise!Next

LEMMA AcceptedImplements ==
  ASSUME IInv, NEW r \in Runs, NEW t \in Names, NEW old \in SUBSET known,
         StartAccepted(r, t, old)
  PROVE  Promise!Next
<1> DEFINE x == [run[r] EXCEPT !.at = "cwd", !.name = t]
<1>1. run[r].at = "new" /\ Free(t) /\ UNCHANGED cancelled
  BY DEF StartAccepted
<1>2. run \in [Runs -> RunType] /\ run[r] \in RunType
  BY DEF IInv, TypeOK
<1>3. run' = [run EXCEPT ![r] = x]
  <2>1. run' = [run EXCEPT ![r].at = "cwd", ![r].name = t]
    BY DEF StartAccepted
  <2> QED BY <1>2, <2>1 DEF RunType
<1>4. x.at = "cwd" /\ x.name = t
  BY <1>2 DEF RunType
<1> HIDE DEF x
<1>5. /\ phase' = [phase EXCEPT ![r] = Phase(x)]
      /\ name' = [name EXCEPT ![r] = x.name]
      /\ phase[r] = Phase(run[r]) /\ name[r] = run[r].name
  BY <1>3, OnePhaseChanges
<1>6. phase[r] = "none" /\ Phase(x) = "open"
  BY <1>1, <1>4, <1>5 DEF Phase, Building
<1>7. ~Promise!Held(t)
  <2>1. \A q \in Runs : phase[q] \in {"open", "done"} => Holds(q)
    BY DEF phase, Holds
  <2>2. \A q \in Runs : ~(name[q] = t /\ phase[q] \in {"open", "done"})
    BY <1>1, <2>1, FreeIsUnowned DEF name
  <2> QED BY <2>2 DEF Promise!Held, phase, name
<1>8. Promise!Open(r, t)
  BY <1>1, <1>4, <1>5, <1>6, <1>7 DEF Promise!Open, phase, name
<1> QED BY <1>8 DEF Promise!Next

LEMMA NextImplements ==
  IInv /\ [Next]_vars => Promise!Next \/ UNCHANGED Promise!vars
<1> SUFFICES ASSUME IInv, [Next]_vars
             PROVE  Promise!Next \/ UNCHANGED Promise!vars
  OBVIOUS
<1>1. UNCHANGED <<run, cancelled>> => UNCHANGED Promise!vars
  BY DEF Promise!vars, Active
<1>2. CASE UNCHANGED vars
  BY <1>1, <1>2 DEF vars
<1>3. ASSUME NEW old \in SUBSET known, StartKnown(old)
      PROVE  UNCHANGED Promise!vars
  BY <1>1, <1>3 DEF StartKnown
<1>4. ASSUME NEW r \in Runs, Cancel(r) PROVE Promise!Next
  <2>1. Active(r) /\ phase[r] = "open"
    BY <1>4 DEF Cancel, IInv, AskedAreActive, Active, phase, Building, Undoing
  <2>2. phase' = phase /\ name' = name
    BY <1>4 DEF Cancel, phase, name, Active
  <2>3. Promise!Ask(r)
    BY <1>4, <2>1, <2>2 DEF Promise!Ask, Cancel, phase, name
  <2> QED BY <2>3 DEF Promise!Next
<1> QED BY <1>2, <1>3, <1>4, StepImplements, RefusedImplements, AcceptedImplements
    DEF Next

(* A clone is opened under a name it has to itself, and done or undone; none   *)
(* is done after a cancel was taken.                                         *)
THEOREM ImplementsTransaction == Spec => Promise!Safety
BY InitImplements, NextImplements, Invariance, PTL DEF Spec, Promise!Safety
-----------------------------------------------------------------------------
(* What every step of a handler takes from the work it may still have to do.  *)

(* The steps an operation can still take at most, had it launched everything   *)
(* it may and had to roll all of it back.                                    *)
UndoWork == 2 * MaxSubs + 5
Work(x) ==
  CASE x.at = "new"         -> UndoWork + 2 * MaxSubs + 5
    [] x.at = "cwd"         -> UndoWork + 2 * MaxSubs + 4
    [] x.at = "main"        -> UndoWork + 2 * MaxSubs + 3
    [] x.at = "subs"        -> UndoWork + 2 * MaxSubs + 2 - x.made
    [] x.at = "rows"        -> UndoWork + MaxSubs + 1 - x.i
    [] x.at = "config"      -> UndoWork
    [] x.at = "stopSub"     -> 2 * x.i + 4
    [] x.at = "dropSub"     -> 2 * x.i + 3
    [] x.at = "stopProject" -> 3
    [] x.at = "dropMain"    -> 2
    [] x.at = "restore"     -> 1
    [] x.at = "end"         -> 0

LEMMA WorkIsNat ==
  ASSUME NEW x \in RunType, Shape(x)
  PROVE  Work(x) \in Nat /\ (x.at = "end" <=> Work(x) = 0)
<1>1. /\ x.n \in 0..MaxSubs /\ x.i \in 0..MaxSubs /\ MaxSubs \in Nat
      /\ x.made \in 0..(MaxSubs + 1)
      /\ x.at \in {"new", "end"} \union Building \union Undoing
  BY CloneAssumption DEF RunType, Members
<1>2. x.at = "subs" => x.made <= MaxSubs
  BY <1>1 DEF Shape
<1> QED BY <1>1, <1>2 DEF Work, UndoWork, Building, Undoing

(* A rollback that begins has less work than anything before it.              *)
LEMMA UnwoundHasLess ==
  ASSUME NEW r \in Runs, NEW y \in RunType, 1 <= y.made
  PROVE  Work(Unwound(r, y)) < UndoWork
<1>1. y.made \in 0..(MaxSubs + 1) /\ MaxSubs \in Nat
  BY CloneAssumption DEF RunType
<1>2. /\ Unwound(r, y).at = IF y.made > 1 THEN "stopSub" ELSE "stopProject"
      /\ Unwound(r, y).i = y.made - 1
  BY DEF RunType, Unwound
<1> QED BY <1>1, <1>2 DEF Work, UndoWork

LEMMA BuildingTakesWork ==
  ASSUME IInv, NEW r \in Runs,
         \/ \E n \in 0..Subs[r] : CwdResolved(r, n)
         \/ FailsEarly(r) \/ Launched(r) \/ SubFails(r) \/ RowWritten(r)
         \/ RowRefused(r) \/ ConfigCopied(r) \/ ConfigFails(r)
  PROVE  Work(run'[r]) < Work(run[r])
<1>1. Active(r) /\ run[r].at \in Building
  BY DEF CwdResolved, FailsEarly, Launched, SubFails, RowWritten, RowRefused,
         ConfigCopied, ConfigFails, Active, Building
<1>2. /\ run[r] \in RunType /\ MaxSubs \in Nat /\ Shape(run[r])
      /\ run[r].n \in 0..MaxSubs /\ run[r].i \in 0..MaxSubs
      /\ run[r].made \in 0..(MaxSubs + 1)
      /\ \A x : run' = [run EXCEPT ![r] = x] => run'[r] = x
  BY <1>1, AtWork
<1>3. UndoWork <= Work(run[r]) /\ Work(run[r]) \in Nat
  BY <1>1, <1>2 DEF Work, UndoWork, Shape, Building
<1>4. \A y \in RunType : 1 <= y.made => Work(Unwound(r, y)) < Work(run[r])
  <2> TAKE y \in RunType
  <2> HAVE 1 <= y.made
  <2>1. /\ Unwound(r, y).at \in {"stopSub", "stopProject"}
        /\ Unwound(r, y).i = y.made - 1 /\ y.made \in 0..(MaxSubs + 1)
    BY DEF RunType, Unwound
  <2>2. Work(Unwound(r, y)) \in Int
    BY <1>2, <2>1 DEF Work
  <2> QED BY <1>2, <1>3, <2>2, UnwoundHasLess DEF UndoWork
<1>5. \A y \in RunType : Work(Finished(y)) = 0
  BY FinishedFits DEF Work
<1>12. run[r].at \in {"subs", "rows", "config"} => 1 <= run[r].made
  BY <1>2 DEF Shape
<1>6. CASE \E n \in 0..Subs[r] : CwdResolved(r, n)
  <2>1. PICK n \in 0..Subs[r] : CwdResolved(r, n)
    BY <1>6
  <2> DEFINE x == [run[r] EXCEPT !.at = "main", !.n = n]
  <2>2. run[r].at = "cwd" /\ run' = [run EXCEPT ![r] = x]
    BY <2>1 DEF CwdResolved
  <2>3. x.at = "main"
    BY <1>2 DEF RunType
  <2>4. run'[r] = x
    BY <1>2, <2>2
  <2> HIDE DEF x
  <2> QED BY <1>2, <2>2, <2>3, <2>4 DEF Work, UndoWork
<1>7. CASE FailsEarly(r)
  <2>1. [run[r] EXCEPT !.code = Code(r)] \in RunType
    BY <1>2 DEF RunType, Code
  <2>2. Work(run'[r]) = 0
    BY <1>2, <1>5, <1>7, <2>1 DEF FailsEarly, Abandon
  <2> QED BY <1>2, <1>3, <2>2 DEF UndoWork
<1>8. CASE Launched(r)
  <2> DEFINE rec == [run[r] EXCEPT !.made = @ + 1]
             more == [rec EXCEPT !.at = "subs", !.i = rec.made]
             all == [rec EXCEPT !.at = "rows", !.i = 0]
  <2>1. run[r].at \in {"main", "subs"} /\ run[r].made <= run[r].n
    BY <1>2, <1>8 DEF Launched, Shape
  <2>2. /\ rec \in RunType /\ rec.made = run[r].made + 1 /\ rec.n = run[r].n
        /\ 1 <= rec.made
    BY <1>2, <2>1 DEF RunType
  <2>3. \/ AfterLaunch(rec) = more /\ rec.made <= rec.n
        \/ AfterLaunch(rec) = all
    BY DEF AfterLaunch
  <2> HIDE DEF rec
  <2>4. rec.made <= rec.n => more \in RunType /\ more.made = rec.made
                             /\ more.at = "subs"
    <3>1. rec.made <= rec.n => rec.made \in Members
      BY <1>2, <2>2 DEF Members
    <3> QED BY <2>2, <3>1 DEF RunType, Building
  <2>5. all \in RunType /\ all.at = "rows" /\ all.i = 0 /\ all.made = rec.made
    <3>1. 0 \in Members
      BY <1>2 DEF Members
    <3> QED BY <2>2, <3>1 DEF RunType, Building
  <2>6. rec.made <= rec.n => Work(more) < Work(run[r])
    <3>1. rec.made <= rec.n =>
            Work(more) = UndoWork + 2 * MaxSubs + 2 - (run[r].made + 1)
      BY <2>2, <2>4 DEF Work
    <3>2. \/ Work(run[r]) = UndoWork + 2 * MaxSubs + 3
          \/ Work(run[r]) = UndoWork + 2 * MaxSubs + 2 - run[r].made
      BY <2>1 DEF Work
    <3>3. UndoWork \in Int
      BY <1>2 DEF UndoWork
    <3> QED BY <1>2, <3>1, <3>2, <3>3
  <2>7. Work(all) < Work(run[r])
    <3>1. Work(all) = UndoWork + MaxSubs + 1
      BY <1>2, <2>5 DEF Work, UndoWork
    <3> QED BY <1>2, <2>1, <3>1 DEF Work, UndoWork
  <2> HIDE DEF more, all
  <2>8. \/ run'[r] = Unwound(r, rec)
        \/ run'[r] = AfterLaunch(rec)
        \/ run'[r] = Unwound(r, AfterLaunch(rec))
    BY <1>2, <1>8 DEF Launched, Onward, rec
  <2> QED BY <1>4, <2>2, <2>3, <2>4, <2>5, <2>6, <2>7, <2>8
<1>9. CASE SubFails(r) \/ RowRefused(r) \/ ConfigFails(r)
  <2>1. run'[r] = Unwound(r, run[r]) /\ run[r].at \in {"subs", "rows", "config"}
    BY <1>2, <1>9 DEF SubFails, RowRefused, ConfigFails
  <2> QED BY <1>2, <1>4, <1>12, <2>1
<1>10. CASE RowWritten(r)
  <2> DEFINE more == [run[r] EXCEPT !.i = run[r].i + 1]
             done == [run[r] EXCEPT !.at = "config"]
  <2>1. /\ run[r].at = "rows"
        /\ \/ run[r].i < run[r].n /\ run'[r] = more
           \/ run'[r] = done
           \/ run'[r] = Unwound(r, done)
    BY <1>2, <1>10 DEF RowWritten, AfterRow, Onward
  <2>2. done \in RunType /\ done.made = run[r].made /\ done.at = "config"
    BY <1>2 DEF RunType, Building
  <2>3. more.at = "rows" /\ more.i = run[r].i + 1
    BY <1>2, <2>1 DEF RunType
  <2> HIDE DEF more, done
  <2>4. Work(run[r]) = UndoWork + MaxSubs + 1 - run[r].i
    BY <2>1 DEF Work
  <2>5. Work(done) = UndoWork
    BY <2>2 DEF Work
  <2>6. Work(more) = UndoWork + MaxSubs + 1 - (run[r].i + 1)
    BY <2>3 DEF Work
  <2>7. UndoWork \in Int
    BY <1>2 DEF UndoWork
  <2>8. Work(done) < Work(run[r]) /\ Work(more) < Work(run[r])
    BY <1>2, <2>4, <2>5, <2>6, <2>7
  <2> QED BY <1>2, <1>4, <1>12, <2>1, <2>2, <2>8
<1>11. CASE ConfigCopied(r)
  <2> DEFINE noted == [run[r] EXCEPT !.wrote = TRUE]
  <2>1. \/ run'[r] = Over(run[r], "succeeded")
        \/ run'[r] = Unwound(r, noted)
    BY <1>2, <1>11 DEF ConfigCopied
  <2>2. noted \in RunType /\ noted.made = run[r].made /\ run[r].at = "config"
    BY <1>2, <1>11 DEF RunType, ConfigCopied
  <2>3. Over(run[r], "succeeded").at = "end"
    BY DEF Over, NewRun
  <2>4. Work(Over(run[r], "succeeded")) = 0
    BY <2>3 DEF Work
  <2>5. 0 < UndoWork
    BY <1>2 DEF UndoWork
  <2>6. Work(run[r]) = UndoWork
    BY <2>2 DEF Work
  <2> HIDE DEF noted
  <2> QED BY <1>4, <1>12, <2>1, <2>2, <2>4, <2>5, <2>6
<1> QED BY <1>6, <1>7, <1>8, <1>9, <1>10, <1>11

LEMMA StopTakesWork ==
  ASSUME IInv, NEW r \in Runs, NEW ok \in BOOLEAN, ProjectStopped(r, ok)
  PROVE  Work(run'[r]) < Work(run[r])
<1> DEFINE x == [run[r] EXCEPT !.at = "dropMain",
                               !.owed = @ \union OwedAfterStop(ok)]
<1>1. run[r] \in RunType /\ run \in [Runs -> RunType]
  BY DEF IInv, TypeOK
<1>2. run[r].at = "stopProject" /\ run' = [run EXCEPT ![r] = x]
  BY <1>1 DEF ProjectStopped, RunType
<1>3. x.at = "dropMain"
  BY <1>1 DEF RunType
<1> HIDE DEF x
<1>4. run'[r].at = "dropMain"
  BY <1>1, <1>2, <1>3
<1> QED BY <1>2, <1>4 DEF Work

LEMMA UndoingTakesWork ==
  ASSUME IInv, NEW r \in Runs,
         \/ SubStopped(r)
         \/ \E ok \in BOOLEAN : \/ SubDropped(r, ok) \/ ProjectStopped(r, ok)
                                \/ MainDropped(r, ok) \/ ConfigRestored(r, ok)
  PROVE  Work(run'[r]) < Work(run[r])
<1>1. Active(r) /\ run[r].at \in Undoing
  BY DEF SubStopped, SubDropped, ProjectStopped, MainDropped, ConfigRestored,
         Active, Undoing
<1>2. /\ run[r] \in RunType /\ MaxSubs \in Nat /\ Shape(run[r])
      /\ run[r].i \in 0..MaxSubs /\ run \in [Runs -> RunType]
      /\ \A x : run' = [run EXCEPT ![r] = x] => run'[r] = x
  BY <1>1, AtWork DEF IInv, TypeOK
<1>3. CASE SubStopped(r)
  <2>1. run[r].at = "stopSub" /\ run'[r].at = "dropSub" /\ run'[r].i = run[r].i
    BY <1>2, <1>3 DEF SubStopped, Goto, RunType
  <2> QED BY <1>2, <2>1 DEF Work
<1>4. ASSUME NEW ok \in BOOLEAN,
             \/ SubDropped(r, ok) \/ ProjectStopped(r, ok)
             \/ MainDropped(r, ok) \/ ConfigRestored(r, ok)
      PROVE  Work(run'[r]) < Work(run[r])
  <2> DEFINE y == Noted(run[r], ok)
  <2>1. y \in RunType /\ y.i = run[r].i /\ y.at = run[r].at
    BY <1>2, NotedFits DEF RunType
  <2> HIDE DEF y
  <2>2. Finished(y).at = "end"
    BY <2>1, FinishedFits
  <2>3. CASE SubDropped(r, ok)
    <3>1. run[r].at = "dropSub" /\ run'[r] = AfterSub(y)
      BY <1>2, <2>3 DEF SubDropped, y
    <3>2. \/ run'[r].at = "stopSub" /\ run'[r].i = run[r].i - 1
          \/ run'[r].at = "stopProject"
      BY <2>1, <3>1 DEF AfterSub, RunType
    <3>3. 1 <= run[r].i
      BY <1>2, <3>1 DEF Shape
    <3> QED BY <1>2, <3>1, <3>2, <3>3 DEF Work
  <2>4. CASE ProjectStopped(r, ok)
    BY <2>4, StopTakesWork
  <2>5. CASE MainDropped(r, ok)
    <3>1. /\ run[r].at = "dropMain"
          /\ \/ run'[r] = [y EXCEPT !.at = "restore"]
             \/ run'[r] = Finished(y)
      BY <1>2, <2>5 DEF MainDropped, y
    <3>2. run'[r].at \in {"restore", "end"}
      BY <2>1, <2>2, <3>1 DEF RunType
    <3> QED BY <3>1, <3>2 DEF Work
  <2>6. CASE ConfigRestored(r, ok)
    <3>1. run[r].at = "restore" /\ run'[r].at = "end"
      BY <1>2, <2>2, <2>6 DEF ConfigRestored, y
    <3> QED BY <3>1 DEF Work
  <2> QED BY <1>4, <2>3, <2>4, <2>5, <2>6
<1> QED BY <1>3, <1>4

(* Every step that touches an operation takes away work it had left: an       *)
(* operation ends after at most 4 * MaxSubs + 10 steps, cancelled or not,      *)
(* whatever fails, and what it ended with is never revised.  With FairSpec's   *)
(* fairness nothing else is needed for a clone to end.                        *)
EveryStepCounts ==
  [][\A r \in Runs : run'[r] # run[r] => Work(run'[r]) < Work(run[r])]_vars

LEMMA StepTakesWork ==
  ASSUME IInv, NEW r \in Runs, Step(r)
  PROVE  /\ Work(run'[r]) < Work(run[r])
         /\ \A q \in Runs : q # r => run'[q] = run[q]
<1>1. Work(run'[r]) < Work(run[r])
  BY BuildingTakesWork, UndoingTakesWork DEF Step
<1>2. PICK x : Handled(r, x)
  BY StepIsHandled
<1>3. run' = [run EXCEPT ![r] = x] /\ run \in [Runs -> RunType]
  BY <1>2 DEF Handled, IInv, TypeOK
<1> QED BY <1>1, <1>3

(* A clone ends after at most 4 * MaxSubs + 10 steps of its handler, whatever  *)
(* fails and whenever it is cancelled: each step takes away some of that work. *)
THEOREM CloneIsBounded ==
  Spec => /\ [](\A r \in Runs : Work(run[r]) \in 0..(4 * MaxSubs + 10))
          /\ EveryStepCounts
<1>1. IInv => \A r \in Runs : Work(run[r]) \in 0..(4 * MaxSubs + 10)
  <2> SUFFICES ASSUME IInv, NEW r \in Runs
               PROVE  Work(run[r]) \in 0..(4 * MaxSubs + 10)
    OBVIOUS
  <2>1. run[r] \in RunType /\ Shape(run[r])
    BY DEF IInv, TypeOK, Shaped
  <2>2. /\ run[r].i \in 0..MaxSubs /\ MaxSubs \in Nat
        /\ run[r].made \in 0..(MaxSubs + 1)
        /\ run[r].at \in {"new", "end"} \union Building \union Undoing
    BY <2>1, CloneAssumption DEF RunType, Members
  <2>3. Work(run[r]) \in Nat
    BY <2>1, WorkIsNat
  <2>4. Work(run[r]) <= 4 * MaxSubs + 10
    BY <2>2 DEF Work, UndoWork, Building, Undoing
  <2> QED BY <2>2, <2>3, <2>4
<1>2. IInv /\ [Next]_vars =>
        [\A r \in Runs : run'[r] # run[r] => Work(run'[r]) < Work(run[r])]_vars
  <2> SUFFICES ASSUME IInv, Next
               PROVE  \A r \in Runs : run'[r] # run[r] =>
                                      Work(run'[r]) < Work(run[r])
    OBVIOUS
  <2> TAKE q \in Runs
  <2> HAVE run'[q] # run[q]
  <2>1. run \in [Runs -> RunType] /\ MaxSubs \in Nat
    BY CloneAssumption DEF IInv, TypeOK
  <2>2. CASE run[q].at = "new"
    <3>1. Work(run[q]) = UndoWork + 2 * MaxSubs + 5
      BY <2>2 DEF Work
    <3>2. ASSUME NEW r \in Runs, NEW old \in SUBSET known, StartRefused(r, old)
          PROVE  Work(run'[q]) < Work(run[q])
      <4> DEFINE x == Finished([run[r] EXCEPT !.code = "error"])
      <4>1. run' = [run EXCEPT ![r] = x]
        BY <3>2 DEF StartRefused
      <4>2. x.at = "end"
        BY DEF Finished, Over, NewRun
      <4> HIDE DEF x
      <4>3. run'[q] = x
        BY <2>1, <4>1
      <4>4. Work(run'[q]) = 0
        BY <4>2, <4>3 DEF Work
      <4> QED BY <2>1, <3>1, <4>4 DEF UndoWork
    <3>3. ASSUME NEW r \in Runs, NEW t \in Names, NEW old \in SUBSET known,
                 StartAccepted(r, t, old)
          PROVE  Work(run'[q]) < Work(run[q])
      <4> DEFINE x == [run[r] EXCEPT !.at = "cwd", !.name = t]
      <4>1. run' = [run EXCEPT ![r] = x]
        BY <2>1, <3>3 DEF StartAccepted, RunType
      <4>2. x.at = "cwd"
        BY <2>1 DEF RunType
      <4> HIDE DEF x
      <4>3. run'[q] = x
        BY <2>1, <4>1
      <4>4. Work(run'[q]) = UndoWork + 2 * MaxSubs + 4
        BY <4>2, <4>3 DEF Work
      <4> QED BY <2>1, <3>1, <4>4 DEF UndoWork
    <3>4. ASSUME NEW r \in Runs, Step(r)
          PROVE  Work(run'[q]) < Work(run[q])
      BY <3>4, StepTakesWork
    <3>5. ASSUME NEW r \in Runs, Cancel(r) PROVE FALSE
      BY <3>5 DEF Cancel
    <3>6. ASSUME NEW old \in SUBSET known, StartKnown(old) PROVE FALSE
      BY <3>6 DEF StartKnown
    <3> QED BY <3>2, <3>3, <3>4, <3>5, <3>6 DEF Next
  <2>3. CASE run[q].at # "new"
    <3>1. ASSUME NEW r \in Runs, Step(r)
          PROVE  Work(run'[q]) < Work(run[q])
      BY <3>1, StepTakesWork
    <3>2. ASSUME NEW r \in Runs, NEW old \in SUBSET known, StartRefused(r, old)
          PROVE  FALSE
      <4>1. run[r].at = "new"
        BY <3>2 DEF StartRefused
      <4>2. run'[q] = run[q]
        BY <2>1, <2>3, <3>2, <4>1 DEF StartRefused
      <4> QED BY <4>2
    <3>3. ASSUME NEW r \in Runs, NEW t \in Names, NEW old \in SUBSET known,
                 StartAccepted(r, t, old)
          PROVE  FALSE
      <4>1. run[r].at = "new"
        BY <3>3 DEF StartAccepted
      <4>2. run'[q] = run[q]
        BY <2>1, <2>3, <3>3, <4>1 DEF StartAccepted
      <4> QED BY <4>2
    <3>4. ASSUME NEW r \in Runs, Cancel(r) PROVE FALSE
      BY <3>4 DEF Cancel
    <3>5. ASSUME NEW old \in SUBSET known, StartKnown(old) PROVE FALSE
      BY <3>5 DEF StartKnown
    <3> QED BY <3>1, <3>2, <3>3, <3>4, <3>5 DEF Next
  <2> QED BY <2>2, <2>3
<1> QED BY <1>1, <1>2, Invariance, PTL DEF Spec, EveryStepCounts

-----------------------------------------------------------------------------
(* What a clone has to fear from others, and what it leaves behind.           *)

(* While a clone is under way or done, only its own handler changes what       *)
(* exists of its sessions, their records and their rows: no rollback of        *)
(* another, and no launch under the same name, reaches them.                   *)
OnlyItsOwnHandler ==
  [][\A q \in Runs : Holds(q) /\ run'[q] = run[q] => \A i \in Members :
       /\ Member(q, i) \in up' <=> Member(q, i) \in up
       /\ Member(q, i) \in store' <=> Member(q, i) \in store
       /\ Member(q, i) \in rows' <=> Member(q, i) \in rows]_vars

LEMMA OthersAreElsewhere ==
  ASSUME IInv, NEW r \in Runs, NEW q \in Runs, r # q, Active(r), Holds(q),
         NEW i \in Members
  PROVE  Member(q, i) # Current(r) /\ Member(q, i) \notin Row(r)
<1>1. run[q].name \in Names /\ run[r].name \in Names
  BY DEF Holds, Active, IInv, Shaped, Shape
<1>2. run[r].i \in 0..MaxSubs /\ i \in 0..MaxSubs
  BY DEF IInv, TypeOK, RunType, Members
<1>3. run[q].name # run[r].name
  BY DEF Holds, IInv, OneOwnerPerName
<1> QED BY <1>1, <1>2, <1>3, CloneAssumption DEF Member, Current, Row

(* No rollback and no launch of another clone touches the sessions, records *)
(* and rows of a clone that is under way or done.                           *)
THEOREM ClonesAreIsolated == Spec => OnlyItsOwnHandler
<1>1. IInv /\ [Next]_vars =>
        [\A q \in Runs : Holds(q) /\ run'[q] = run[q] => \A i \in Members :
           /\ Member(q, i) \in up' <=> Member(q, i) \in up
           /\ Member(q, i) \in store' <=> Member(q, i) \in store
           /\ Member(q, i) \in rows' <=> Member(q, i) \in rows]_vars
  <2> SUFFICES ASSUME IInv, Next, NEW q \in Runs, Holds(q), run'[q] = run[q],
                      NEW i \in Members
               PROVE  /\ Member(q, i) \in up' <=> Member(q, i) \in up
                      /\ Member(q, i) \in store' <=> Member(q, i) \in store
                      /\ Member(q, i) \in rows' <=> Member(q, i) \in rows
    BY Zenon
  <2>1. UNCHANGED <<up, store, rows>> \/ \E r \in Runs : Step(r)
    BY DEF Next, StartKnown, StartRefused, StartAccepted, Cancel
  <2>2. ASSUME NEW r \in Runs, Step(r)
        PROVE  /\ Member(q, i) \in up' <=> Member(q, i) \in up
               /\ Member(q, i) \in store' <=> Member(q, i) \in store
               /\ Member(q, i) \in rows' <=> Member(q, i) \in rows
    <3>1. PICK x : Handled(r, x) /\ Touches(r)
      BY <2>2, StepIsHandled
    <3>2. r # q
      <4>1. run[r] \in RunType /\ Shape(run[r])
        BY DEF IInv, TypeOK, Shaped
      <4>2. Work(run'[r]) < Work(run[r]) /\ Work(run[r]) \in Nat
        BY <2>2, <4>1, StepTakesWork, WorkIsNat
      <4> QED BY <4>2
    <3>3. Member(q, i) # Current(r) /\ Member(q, i) \notin Row(r)
      BY <3>1, <3>2, OthersAreElsewhere DEF Handled
    <3> QED BY <3>1, <3>3 DEF Touches
  <2> QED BY <2>1, <2>2
<1> QED BY <1>1, Invariance, PTL DEF Spec, OnlyItsOwnHandler

(* A sub-session is minded while its clone counts on it, or has still to stop  *)
(* it.                                                                       *)
Minds(x, i) ==
  \/ x.verdict = "succeeded"
  \/ x.at \in Building /\ i < x.made
  \/ x.at = "stopSub" /\ i <= x.i
  \/ x.at = "dropSub" /\ i < x.i

(* A sub-session runs on unminded only because stopSubSession failed to close  *)
(* it and SubStopped went on: every other failure, and a cancel at any await,  *)
(* leaves it to the rollback.                                                *)
LeaksInOnePlace ==
  [][\A r \in Runs, i \in 1..MaxSubs :
       <<r, i>> \in up' /\ ~Minds(run'[r], i) =>
         /\ <<r, i>> \in up
         /\ Minds(run[r], i) => SubStopped(r) /\ run[r].i = i]_vars

(* What has been launched is minded, from where a rollback begins.            *)
LEMMA UnwoundMinds ==
  ASSUME NEW r \in Runs, NEW y \in RunType, NEW i \in 1..MaxSubs, i < y.made
  PROVE  Minds(Unwound(r, y), i)
<1>1. y.made \in 0..(MaxSubs + 1) /\ MaxSubs \in Nat
  BY CloneAssumption DEF RunType
<1>2. /\ Unwound(r, y).at = IF y.made > 1 THEN "stopSub" ELSE "stopProject"
      /\ Unwound(r, y).i = y.made - 1
  BY DEF RunType, Unwound
<1> QED BY <1>1, <1>2 DEF Minds

LEMMA BuildingMinds ==
  ASSUME IInv, NEW r \in Runs,
         \/ \E n \in 0..Subs[r] : CwdResolved(r, n)
         \/ FailsEarly(r) \/ Launched(r) \/ SubFails(r) \/ RowWritten(r)
         \/ RowRefused(r) \/ ConfigCopied(r) \/ ConfigFails(r),
         NEW i \in 1..MaxSubs, <<r, i>> \in up', ~Minds(run'[r], i)
  PROVE  <<r, i>> \in up /\ ~Minds(run[r], i)
<1>1. Active(r) /\ run[r].at \in Building
  BY DEF CwdResolved, FailsEarly, Launched, SubFails, RowWritten, RowRefused,
         ConfigCopied, ConfigFails, Active, Building
<1>2. /\ run[r] \in RunType /\ MaxSubs \in Nat /\ Shape(run[r])
      /\ run[r].n \in 0..MaxSubs /\ run[r].i \in 0..MaxSubs
      /\ run[r].made \in 0..(MaxSubs + 1) /\ run[r].name \in Names
      /\ run[r].verdict = "none"
      /\ \A x : run' = [run EXCEPT ![r] = x] => run'[r] = x
  BY <1>1, AtWork
<1>3. Minds(run[r], i) <=> i < run[r].made
  BY <1>1, <1>2 DEF Minds, Building
<1>4. \A y \in RunType : run'[r] = Unwound(r, y) => ~(i < y.made)
  BY UnwoundMinds
<1>5. CASE \/ \E n \in 0..Subs[r] : CwdResolved(r, n)
           \/ FailsEarly(r)
  <2>1. run[r].at \in {"cwd", "main"} /\ up' = up
    BY <1>5 DEF CwdResolved, FailsEarly
  <2> QED BY <1>2, <1>3, <2>1 DEF Shape
<1>6. CASE Launched(r)
  <2> DEFINE rec == [run[r] EXCEPT !.made = @ + 1]
             next == AfterLaunch(rec)
  <2>1. /\ run[r].at \in {"main", "subs"} /\ up' = up \union {Current(r)}
        /\ \/ run'[r] = Unwound(r, rec)
           \/ run'[r] = Unwound(r, next)
           \/ run'[r] = next
    BY <1>2, <1>6 DEF Launched, Onward
  <2>2. run[r].made <= run[r].n /\ run[r].i = run[r].made
    BY <1>2, <2>1 DEF Shape
  <2>3. rec \in RunType /\ rec.made = run[r].made + 1
    BY <1>2, <2>2 DEF RunType
  <2>4. /\ next \in RunType /\ next.made = run[r].made + 1
        /\ next.at \in {"subs", "rows"}
    <3>1. rec.made <= rec.n => rec.made \in Members
      BY <1>2, <2>2 DEF Members, RunType
    <3>2. 0 \in Members
      BY <1>2 DEF Members
    <3> HIDE DEF rec
    <3> QED BY <2>3, <3>1, <3>2 DEF AfterLaunch, RunType, Building
  <2> HIDE DEF rec, next
  <2>5. ~(i < run[r].made + 1)
    BY <1>4, <2>1, <2>3, <2>4 DEF Minds, Building
  <2>6. <<r, i>> # Current(r)
    BY <1>2, <2>2, <2>5, CloneAssumption DEF Current, Member
  <2> QED BY <1>2, <1>3, <2>1, <2>5, <2>6
<1>7. CASE SubFails(r) \/ RowRefused(r) \/ ConfigFails(r)
  <2>1. run'[r] = Unwound(r, run[r]) /\ up' = up
    BY <1>2, <1>7 DEF SubFails, RowRefused, ConfigFails
  <2> QED BY <1>2, <1>3, <1>4, <2>1
<1>8. CASE RowWritten(r)
  <2> DEFINE more == [run[r] EXCEPT !.i = run[r].i + 1]
             done == [run[r] EXCEPT !.at = "config"]
  <2>1. /\ run[r].at = "rows" /\ up' = up
        /\ \/ run'[r] = more \/ run'[r] = done \/ run'[r] = Unwound(r, done)
    BY <1>2, <1>8 DEF RowWritten, AfterRow, Onward
  <2>2. /\ done \in RunType /\ done.made = run[r].made /\ done.at = "config"
        /\ more.at = run[r].at /\ more.made = run[r].made
    BY <1>2 DEF RunType, Building
  <2> HIDE DEF more, done
  <2> QED BY <1>3, <1>4, <2>1, <2>2 DEF Minds, Building
<1>9. CASE ConfigCopied(r)
  <2> DEFINE noted == [run[r] EXCEPT !.wrote = TRUE]
  <2>1. /\ up' = up
        /\ \/ run'[r] = Over(run[r], "succeeded")
           \/ run'[r] = Unwound(r, noted)
    BY <1>2, <1>9 DEF ConfigCopied
  <2>2. noted \in RunType /\ noted.made = run[r].made
    BY <1>2 DEF RunType
  <2>3. Over(run[r], "succeeded").verdict = "succeeded"
    BY DEF Over, NewRun
  <2> HIDE DEF noted
  <2> QED BY <1>3, <1>4, <2>1, <2>2, <2>3 DEF Minds
<1> QED BY <1>5, <1>6, <1>7, <1>8, <1>9

LEMMA UndoingMinds ==
  ASSUME IInv, NEW r \in Runs,
         \/ SubStopped(r)
         \/ \E ok \in BOOLEAN : \/ SubDropped(r, ok) \/ ProjectStopped(r, ok)
                                \/ MainDropped(r, ok) \/ ConfigRestored(r, ok),
         NEW i \in 1..MaxSubs, <<r, i>> \in up', ~Minds(run'[r], i)
  PROVE  /\ <<r, i>> \in up
         /\ Minds(run[r], i) => SubStopped(r) /\ run[r].i = i
<1>1. Active(r) /\ run[r].at \in Undoing /\ up' \subseteq up
  BY DEF SubStopped, SubDropped, ProjectStopped, MainDropped, ConfigRestored,
         Active, Undoing
<1>2. /\ run[r] \in RunType /\ MaxSubs \in Nat /\ Shape(run[r])
      /\ run[r].i \in 0..MaxSubs /\ run \in [Runs -> RunType]
      /\ run[r].verdict = "none"
      /\ \A x : run' = [run EXCEPT ![r] = x] => run'[r] = x
  BY <1>1, AtWork DEF IInv, TypeOK
<1>3. Minds(run[r], i) => \/ run[r].at = "stopSub" /\ i <= run[r].i
                          \/ run[r].at = "dropSub" /\ i < run[r].i
  BY <1>1, <1>2 DEF Minds, Building, Undoing
<1>4. CASE SubStopped(r)
  <2>1. run[r].at = "stopSub" /\ run'[r].at = "dropSub" /\ run'[r].i = run[r].i
    BY <1>2, <1>4 DEF SubStopped, Goto, RunType
  <2>2. Minds(run[r], i) => run[r].i = i
    BY <1>2, <1>3, <2>1 DEF Minds
  <2> QED BY <1>1, <1>4, <2>2
<1>5. ASSUME NEW ok \in BOOLEAN, SubDropped(r, ok), Minds(run[r], i)
      PROVE  FALSE
  <2> DEFINE y == Noted(run[r], ok)
  <2>1. y \in RunType /\ y.i = run[r].i /\ y.at = run[r].at
    BY <1>2, NotedFits DEF RunType
  <2> HIDE DEF y
  <2>2. run[r].at = "dropSub" /\ run'[r] = AfterSub(y)
    BY <1>2, <1>5 DEF SubDropped, y
  <2>3. \/ run'[r].at = "stopSub" /\ run'[r].i = run[r].i - 1
        \/ run[r].i <= 1
    BY <1>2, <2>1, <2>2 DEF AfterSub, RunType
  <2>4. i < run[r].i
    BY <1>3, <1>5, <2>2
  <2> QED BY <1>2, <2>3, <2>4 DEF Minds
<1>6. ASSUME NEW ok \in BOOLEAN,
             ProjectStopped(r, ok) \/ MainDropped(r, ok) \/ ConfigRestored(r, ok)
      PROVE  ~Minds(run[r], i)
  BY <1>3, <1>6 DEF ProjectStopped, MainDropped, ConfigRestored
<1> QED BY <1>1, <1>4, <1>5, <1>6

(* A rollback leaks a sub-session only where its close failed.              *)
THEOREM LeaksAreUnclosed == Spec => LeaksInOnePlace
<1>1. IInv /\ [Next]_vars =>
        [\A r \in Runs, i \in 1..MaxSubs :
           <<r, i>> \in up' /\ ~Minds(run'[r], i) =>
             /\ <<r, i>> \in up
             /\ Minds(run[r], i) => SubStopped(r) /\ run[r].i = i]_vars
  <2> SUFFICES ASSUME IInv, Next, NEW q \in Runs, NEW i \in 1..MaxSubs,
                      <<q, i>> \in up', ~Minds(run'[q], i)
               PROVE  /\ <<q, i>> \in up
                      /\ Minds(run[q], i) => SubStopped(q) /\ run[q].i = i
    BY Zenon
  <2>1. run \in [Runs -> RunType] /\ MaxSubs \in Nat /\ Shape(run[q])
    BY CloneAssumption DEF IInv, TypeOK, Shaped
  <2>2. ASSUME NEW r \in Runs, Step(r), r # q
        PROVE  <<q, i>> \in up /\ run'[q] = run[q]
    <3>1. PICK x : Handled(r, x) /\ Touches(r)
      BY <2>2, StepIsHandled
    <3>2. run[r].i \in 0..MaxSubs /\ run[r].name \in Names
      BY <3>1 DEF Handled, Active, IInv, TypeOK, RunType, Members, Shaped, Shape
    <3>3. <<q, i>> # Current(r)
      BY <2>2, <3>2, CloneAssumption DEF Current, Member
    <3> QED BY <2>1, <2>2, <3>1, <3>3 DEF Touches, Handled
  <2>3. ASSUME Step(q)
        PROVE  /\ <<q, i>> \in up
               /\ Minds(run[q], i) => SubStopped(q) /\ run[q].i = i
    BY <2>3, BuildingMinds, UndoingMinds DEF Step
  <2>4. ASSUME NEW r \in Runs, NEW t \in Names, NEW old \in SUBSET known,
               StartAccepted(r, t, old)
        PROVE  <<q, i>> \in up /\ ~Minds(run[q], i)
    <3>1. run[r].at = "new" /\ up' = up
      BY <2>4 DEF StartAccepted
    <3>2. r # q => run'[q] = run[q]
      BY <2>1, <2>4 DEF StartAccepted
    <3>3. r = q => ~Minds(run[q], i)
      BY <2>1, <3>1 DEF Minds, Shape, Building
    <3> QED BY <3>1, <3>2, <3>3
  <2>5. ASSUME NEW r \in Runs, NEW old \in SUBSET known, StartRefused(r, old)
        PROVE  <<q, i>> \in up /\ ~Minds(run[q], i)
    <3>1. run[r].at = "new" /\ up' = up
      BY <2>5 DEF StartRefused
    <3>2. r # q => run'[q] = run[q]
      BY <2>1, <2>5 DEF StartRefused
    <3>3. r = q => ~Minds(run[q], i)
      BY <2>1, <3>1 DEF Minds, Shape, Building
    <3> QED BY <3>1, <3>2, <3>3
  <2>6. ASSUME UNCHANGED <<run, up>>
        PROVE  <<q, i>> \in up /\ ~Minds(run[q], i)
    BY <2>6
  <2> QED BY <2>2, <2>3, <2>4, <2>5, <2>6 DEF Next, StartKnown, Cancel
<1> QED BY <1>1, Invariance, PTL DEF Spec, LeaksInOnePlace

(* A cancel that was taken is not forgotten by a clone that goes on, not even  *)
(* when the record of the operation is pruned, and the clone it stops has not  *)
(* succeeded.                                                                *)
CancelsAreKept ==
  [][\A r \in cancelled : \/ r \in cancelled'
                         \/ /\ run'[r].at = "end"
                            /\ run'[r].verdict # "succeeded"]_vars

(* A cancel is remembered until its clone has ended without success.        *)
THEOREM CancelStops == Spec => CancelsAreKept
<1>1. IInv /\ [Next]_vars =>
        [\A r \in cancelled : \/ r \in cancelled'
                             \/ /\ run'[r].at = "end"
                                /\ run'[r].verdict # "succeeded"]_vars
  <2> SUFFICES ASSUME IInv, Next, NEW q \in cancelled, q \notin cancelled'
               PROVE  run'[q].at = "end" /\ run'[q].verdict # "succeeded"
    BY Zenon
  <2>1. PICK r \in Runs : Step(r)
    BY DEF Next, StartKnown, StartRefused, StartAccepted, Cancel
  <2>2. PICK x : Handled(r, x)
    BY <2>1, StepIsHandled
  <2>3. q = r /\ x.at = "end"
    BY <2>2 DEF Handled, Release
  <2>4. run'[q] = x
    BY <2>2, <2>3 DEF Handled, IInv, TypeOK
  <2> QED BY <2>2, <2>3, <2>4 DEF Handled
<1> QED BY <1>1, Invariance, PTL DEF Spec, CancelsAreKept
=============================================================================
