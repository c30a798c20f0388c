------------------------ MODULE FilePreview_proofs ------------------------
(***************************************************************************)
(* Proofs about FilePreview, for any reads, names, writers and bounds.        *)
(***************************************************************************)
EXTENDS FilePreview, FiniteSetTheorems, TLAPS

-----------------------------------------------------------------------------
(* The inductive invariant.                                                  *)

(* One answer, and not an older one than was promised when it was asked for.  *)
ReadOK(r) ==
  /\ Len(read[r].out) = IF read[r].at = "closed" THEN 1 ELSE 0
  /\ read[r].floor <= acked
  /\ \A i \in DOMAIN read[r].out :
       read[r].out[i].ok => /\ read[r].floor <= read[r].out[i].data
                            /\ read[r].out[i].data <= disk

(* A snapshot is read between two looks at the file.  Its contents are recent *)
(* enough for every read that joined it; and for every read to come, as long  *)
(* as the generation it was keyed with is the present one.                    *)
SnapshotOK(x) ==
  /\ x.sig <= disk
  /\ x.gen <= gen
  /\ x.end # Nothing => x.data # Nothing /\ x.data <= x.end /\ x.end <= disk
  /\ x.data # Nothing => /\ x.sig <= x.data /\ x.data <= disk
                         /\ x.gen = gen => acked <= x.data
  /\ \A r \in x.reads : /\ read[r].at # "new"
                        /\ x.data # Nothing => read[r].floor <= x.data

PreflightOK(p) ==
  /\ preflight[p].sig <= disk
  /\ \A r \in preflight[p].reads : read[r].at # "new"

WriterOK(w) == writer[w].at = "written" => writer[w].version <= disk

IInv ==
  /\ TypeOK
  /\ acked <= disk
  /\ CacheIsFresh /\ entry.data <= disk
  /\ \A r \in Requests : ReadOK(r)
  /\ \A x \in snapshots : SnapshotOK(x)
  /\ \A p \in Paths : PreflightOK(p)
  /\ \A w \in Writers : WriterOK(w)

-----------------------------------------------------------------------------
(* Answers.                                                                  *)

LEMMA AnswerTypes ==
  /\ Failed \in Answers /\ ~Failed.ok
  /\ \A v \in Versions : /\ Content(v) \in Answers
                         /\ Content(v).ok /\ Content(v).data = v
BY PreviewAssumption DEF Failed, Content, Answers, Versions

(* The reads that were asked for stay so, with the floor they have.           *)
Kept == \A r \in Requests : read[r].at # "new" =>
          read'[r].at # "new" /\ read'[r].floor = read[r].floor

LEMMA ReplyFacts ==
  ASSUME IInv, NEW S \in SUBSET Requests, NEW a \in Answers,
         \A r \in S : read[r].at = "open",
         a.ok => \A r \in S : read[r].floor <= a.data /\ a.data <= disk,
         read' = Reply(S, a), acked' = acked, disk' = disk
  PROVE  /\ read' \in [Requests -> ReadType]
         /\ \A r \in Requests : ReadOK(r)'
         /\ Kept
<1>1. read \in [Requests -> ReadType]
  BY DEF IInv, TypeOK
<1>2. ASSUME NEW r \in S
      PROVE  /\ read'[r] \in ReadType /\ ReadOK(r)'
             /\ read'[r].at # "new" /\ read'[r].floor = read[r].floor
  <2>1. /\ read[r] \in ReadType /\ ReadOK(r) /\ read[r].at = "open"
        /\ read'[r] = [read[r] EXCEPT !.at = "closed", !.late = FALSE,
                                      !.out = Append(@, a)]
    BY <1>1, <1>2 DEF IInv, Reply
  <2>2. read[r].out \in Seq(Answers) /\ Len(read[r].out) = 0
    BY <2>1 DEF ReadType, ReadOK
  <2>3. /\ Append(read[r].out, a) \in Seq(Answers)
        /\ Len(Append(read[r].out, a)) = 1
        /\ Append(read[r].out, a)[1] = a
        /\ DOMAIN Append(read[r].out, a) = {1}
    BY <2>2
  <2>4. /\ read'[r] \in ReadType /\ read'[r].at = "closed"
        /\ read'[r].floor = read[r].floor
        /\ read'[r].out = Append(read[r].out, a)
    BY <2>1, <2>3 DEF ReadType
  <2> QED BY <1>2, <2>1, <2>3, <2>4 DEF ReadOK
<1>3. ASSUME NEW r \in Requests \ S
      PROVE  read'[r] = read[r] /\ read'[r] \in ReadType /\ ReadOK(r)'
  BY <1>1, <1>3 DEF Reply, IInv, ReadOK
<1>4. DOMAIN read' = Requests /\ read' \in [Requests -> {read'[r] : r \in Requests}]
  BY DEF Reply
<1> QED BY <1>1, <1>2, <1>3, <1>4 DEF Kept

(* Failing a job, in particular.                                             *)
LEMMA FailJobFacts ==
  ASSUME IInv, NEW S \in SUBSET Requests, FailJob(S), acked' = acked,
         disk' = disk
  PROVE  /\ read' \in [Requests -> ReadType]
         /\ \A r \in Requests : ReadOK(r)'
         /\ Kept
BY ReplyFacts, AnswerTypes DEF FailJob, OnTime

(* A read is asked for.                                                      *)
LEMMA AskedFacts ==
  ASSUME IInv, NEW r \in Requests, read[r].at = "new",
         NEW out \in {<<>>, <<Failed>>}, read' = Asked(r, out),
         acked' = acked, disk' = disk
  PROVE  /\ read' \in [Requests -> ReadType]
         /\ \A q \in Requests : ReadOK(q)'
         /\ Kept
         /\ read'[r].at # "new"
<1>1. read \in [Requests -> ReadType] /\ acked \in Versions /\ acked \in Nat
  BY PreviewAssumption DEF IInv, TypeOK, Versions
<1>2. /\ out \in Seq(Answers) /\ Len(out) = IF out = <<>> THEN 0 ELSE 1
      /\ \A i \in DOMAIN out : ~out[i].ok
  <2>1. CASE out = <<>>
    BY <2>1
  <2>2. CASE out = <<Failed>>
    <3>1. Failed \in Answers /\ ~Failed.ok
      BY AnswerTypes
    <3>2. out \in Seq(Answers) /\ Len(out) = 1 /\ DOMAIN out = {1}
          /\ out[1] = Failed /\ out # <<>>
      BY <2>2, <3>1
    <3> QED BY <3>1, <3>2
  <2> QED BY <2>1, <2>2
<1>3. /\ read'[r].at = IF out = <<>> THEN "open" ELSE "closed"
      /\ read'[r].floor = acked /\ read'[r].out = out
      /\ read'[r] \in ReadType
  BY <1>1, <1>2 DEF Asked, ReadType
<1>4. \A q \in Requests \ {r} : read'[q] = read[q]
  BY <1>1 DEF Asked
<1>5. ReadOK(r)'
  BY <1>1, <1>2, <1>3 DEF ReadOK
<1>6. \A q \in Requests \ {r} : ReadOK(q)'
  BY <1>4 DEF IInv, ReadOK
<1>7. read' \in [Requests -> ReadType]
  BY <1>1, <1>3, <1>4 DEF Asked
<1> QED BY <1>3, <1>4, <1>5, <1>6, <1>7 DEF Kept

-----------------------------------------------------------------------------
(* Jobs.                                                                     *)

LEMMA SnapshotKept ==
  ASSUME IInv, Kept, TypeOK', disk <= disk', acked' = acked, gen' = gen,
         NEW x \in snapshots
  PROVE  SnapshotOK(x)'
<1>1. x \in SnapshotType /\ SnapshotOK(x)
  BY DEF IInv, TypeOK
<1>2. x.reads \subseteq Requests /\ x.sig \in Int /\ x.data \in Int /\ x.end \in Int
  BY <1>1, PreviewAssumption DEF SnapshotType, JobReads, Versions, Seen, Nothing
<1>3. disk \in Int /\ disk' \in Int
  BY PreviewAssumption DEF IInv, TypeOK, Versions
<1> QED BY <1>1, <1>2, <1>3 DEF SnapshotOK, Kept

LEMMA PreflightKept ==
  ASSUME IInv, Kept, TypeOK', disk <= disk', NEW p \in Paths,
         preflight'[p] = preflight[p]
  PROVE  PreflightOK(p)'
<1>1. preflight[p] \in PreflightType /\ PreflightOK(p)
  BY DEF IInv, TypeOK
<1>2. preflight[p].reads \subseteq Requests /\ preflight[p].sig \in Int
  BY <1>1, PreviewAssumption DEF PreflightType, JobReads, Versions, Seen, Nothing
<1>3. disk \in Int /\ disk' \in Int
  BY PreviewAssumption DEF IInv, TypeOK, Versions
<1> QED BY <1>1, <1>2, <1>3 DEF PreflightOK, Kept

LEMMA NoPreflightFacts ==
  NoPreflight \in PreflightType /\ NoPreflight.sig = Nothing
    /\ NoPreflight.reads = {}
<1>1. {} \in JobReads
  BY FS_EmptySet, PreviewAssumption DEF JobReads
<1> QED BY <1>1 DEF NoPreflight, PreflightType, Seen

LEMMA Sizes ==
  ASSUME NEW S \in SUBSET Requests
  PROVE  /\ IsFiniteSet(S) /\ Cardinality(S) \in Nat
         /\ \A r \in Requests : Cardinality(S \union {r}) <= Cardinality(S) + 1
<1>1. IsFiniteSet(S)
  BY PreviewAssumption, FS_Subset
<1>2. Cardinality(S) \in Nat
  BY <1>1, FS_CardinalityType
<1>3. ASSUME NEW r \in Requests
      PROVE  Cardinality(S \union {r}) <= Cardinality(S) + 1
  BY <1>1, <1>2, FS_AddElement
<1> QED BY <1>1, <1>2, <1>3

-----------------------------------------------------------------------------
(* What a step may do to the file, the cache and the writers.                 *)

Same == disk' = disk /\ acked' = acked /\ gen' = gen
Jobs == UNCHANGED <<preflight, snapshots>>

LEMMA Numbers ==
  ASSUME TypeOK
  PROVE  /\ disk \in Nat /\ acked \in Nat /\ gen \in Nat
         /\ entry.sig \in Int /\ entry.data \in Int
         /\ \A v \in Versions : v \in Nat
         /\ \A v \in Seen : v \in Int /\ (v # Nothing => v \in Versions)
BY PreviewAssumption DEF TypeOK, Versions, Seen, Nothing, EntryType

(* A step that only answers, asks for or times reads.                         *)
LEMMA ReadStep ==
  ASSUME IInv, Same, UNCHANGED <<writer, entry, preflight, snapshots>>,
         closing' \in BOOLEAN,
         read' \in [Requests -> ReadType], Kept,
         \A r \in Requests : ReadOK(r)'
  PROVE  IInv'
<1>1. TypeOK'
  BY DEF IInv, TypeOK, Same
<1>2. disk \in Nat
  BY Numbers DEF IInv
<1>3. \A x \in snapshots : SnapshotOK(x)'
  BY <1>1, <1>2, SnapshotKept DEF Same
<1>4. \A p \in Paths : PreflightOK(p)'
  BY <1>1, <1>2, PreflightKept DEF Same
<1>5. \A w \in Writers : WriterOK(w)'
  BY DEF IInv, WriterOK, Same
<1>6. (CacheIsFresh /\ entry.data <= disk /\ acked <= disk)'
  BY DEF IInv, CacheIsFresh, Same, NoEntry
<1> QED BY <1>1, <1>3, <1>4, <1>5, <1>6 DEF IInv

(* A step that takes a job from a path, and changes the reads.                *)
LEMMA PreflightStep ==
  ASSUME IInv, Same, UNCHANGED <<writer, entry, closing>>,
         NEW p \in Paths, preflight' = [preflight EXCEPT ![p] = NoPreflight],
         read' \in [Requests -> ReadType], Kept,
         \A r \in Requests : ReadOK(r)',
         snapshots' \in SUBSET SnapshotType,
         \A x \in snapshots' \ snapshots : SnapshotOK(x)'
  PROVE  IInv'
<1>1. preflight' \in [Paths -> PreflightType]
  BY NoPreflightFacts DEF IInv, TypeOK
<1>2. TypeOK'
  BY <1>1 DEF IInv, TypeOK, Same
<1>3. disk \in Nat
  BY Numbers DEF IInv
<1>4. \A x \in snapshots' : SnapshotOK(x)'
  BY <1>2, <1>3, SnapshotKept DEF Same
<1>5. \A q \in Paths \ {p} : PreflightOK(q)'
  <2>1. \A q \in Paths \ {p} : preflight'[q] = preflight[q]
    BY DEF IInv, TypeOK
  <2> QED BY <1>2, <1>3, <2>1, PreflightKept DEF Same
<1>6. PreflightOK(p)'
  <2>1. preflight'[p] = NoPreflight
    BY DEF IInv, TypeOK
  <2> QED BY <1>3, <2>1, NoPreflightFacts DEF PreflightOK, Same, Nothing
<1>7. \A w \in Writers : WriterOK(w)'
  BY DEF IInv, WriterOK, Same
<1>8. (CacheIsFresh /\ entry.data <= disk /\ acked <= disk)'
  BY DEF IInv, CacheIsFresh, Same, NoEntry
<1> QED BY <1>2, <1>4, <1>5, <1>6, <1>7, <1>8 DEF IInv

(* A step of the snapshot jobs: it changes some, ends some, and may answer.   *)
LEMMA SnapshotStep ==
  ASSUME IInv, Same, UNCHANGED <<writer, preflight, closing>>,
         read' \in [Requests -> ReadType], Kept,
         \A r \in Requests : ReadOK(r)',
         snapshots' \in SUBSET SnapshotType,
         \A x \in snapshots' \ snapshots : SnapshotOK(x)',
         entry' \in EntryType, CacheIsFresh', entry'.data <= disk
  PROVE  IInv'
<1>1. TypeOK'
  BY DEF IInv, TypeOK, Same
<1>2. disk \in Nat
  BY Numbers DEF IInv
<1>3. \A x \in snapshots' : SnapshotOK(x)'
  BY <1>1, <1>2, SnapshotKept DEF Same
<1>4. \A p \in Paths : PreflightOK(p)'
  BY <1>1, <1>2, PreflightKept DEF Same
<1>5. \A w \in Writers : WriterOK(w)'
  BY DEF IInv, WriterOK, Same
<1> QED BY <1>1, <1>3, <1>4, <1>5 DEF IInv, Same

(* A step of the file or of a writer, before its write is acknowledged.       *)
LEMMA WriteStep ==
  ASSUME IInv, UNCHANGED <<acked, gen, entry, read, preflight, snapshots, closing>>,
         disk' \in Versions, disk <= disk',
         writer' \in [Writers -> WriterType], \A w \in Writers : WriterOK(w)'
  PROVE  IInv'
<1>1. TypeOK'
  BY DEF IInv, TypeOK
<1>2. Kept
  BY DEF Kept
<1>3. \A x \in snapshots : SnapshotOK(x)'
  BY <1>1, <1>2, SnapshotKept
<1>4. \A p \in Paths : PreflightOK(p)'
  BY <1>1, <1>2, PreflightKept
<1>5. /\ disk \in Nat /\ disk' \in Nat /\ acked \in Nat /\ entry.data \in Int
  BY <1>1, Numbers DEF IInv, Versions, TypeOK
<1>6. (acked <= disk /\ CacheIsFresh /\ entry.data <= disk)'
  BY <1>5 DEF IInv, CacheIsFresh, NoEntry
<1>7. ASSUME NEW r \in Requests PROVE ReadOK(r)'
  <2>1. ReadOK(r) /\ read[r].out \in Seq(Answers)
    BY DEF IInv, TypeOK, ReadType
  <2>2. \A i \in DOMAIN read[r].out : read[r].out[i].data \in Nat
    <3> TAKE i \in DOMAIN read[r].out
    <3>1. read[r].out[i] \in Answers
      BY <2>1
    <3> QED BY <3>1, PreviewAssumption DEF Answers, Versions
  <2> QED BY <1>5, <2>1, <2>2 DEF ReadOK
<1> QED BY <1>1, <1>3, <1>4, <1>6, <1>7 DEF IInv

-----------------------------------------------------------------------------
(* The actions.                                                              *)

LEMMA InitInv == Init => IInv
<1> SUFFICES ASSUME Init PROVE IInv
  OBVIOUS
<1>1. 0 \in Versions /\ 0 \in Seen /\ Nothing \in Seen
  BY PreviewAssumption DEF Versions, Seen
<1>2. [at |-> "new", late |-> FALSE, floor |-> 0, out |-> <<>>] \in ReadType
  BY <1>1 DEF ReadType
<1>3. Idle \in WriterType
  BY <1>1 DEF Idle, WriterType
<1>4. NoEntry \in EntryType
  BY <1>1 DEF NoEntry, EntryType
<1>5. TypeOK
  BY <1>1, <1>2, <1>3, <1>4, NoPreflightFacts DEF Init, TypeOK
<1>6. \A r \in Requests : ReadOK(r)
  BY DEF Init, ReadOK
<1>7. \A p \in Paths : PreflightOK(p)
  BY NoPreflightFacts DEF Init, PreflightOK, Nothing
<1>8. \A w \in Writers : WriterOK(w)
  BY DEF Init, WriterOK, Idle
<1>9. CacheIsFresh /\ entry.data <= disk /\ acked <= disk
  BY DEF Init, CacheIsFresh, NoEntry, Nothing
<1> QED BY <1>5, <1>6, <1>7, <1>8, <1>9 DEF IInv, Init

LEMMA SubmitRefusedInv ==
  ASSUME IInv, NEW r \in Requests, SubmitRefused(r) PROVE IInv'
<1>1. /\ read' \in [Requests -> ReadType] /\ Kept
      /\ \A q \in Requests : ReadOK(q)'
  BY AskedFacts DEF SubmitRefused
<1> QED BY <1>1, ReadStep DEF SubmitRefused, Same, IInv, TypeOK

LEMMA SubmitInv ==
  ASSUME IInv, NEW r \in Requests, NEW p \in Paths, Submit(r, p) PROVE IInv'
<1>1. /\ read' \in [Requests -> ReadType] /\ Kept
      /\ \A q \in Requests : ReadOK(q)'
      /\ read'[r].at # "new"
  BY AskedFacts DEF Submit
<1>2. /\ preflight \in [Paths -> PreflightType]
      /\ preflight[p] \in PreflightType /\ PreflightOK(p)
      /\ preflight[p].reads \in JobReads
  BY DEF IInv, TypeOK, PreflightType
<1>3. /\ preflight'[p] \in PreflightType
      /\ preflight'[p].sig \in {preflight[p].sig, Nothing}
      /\ preflight'[p].reads \subseteq preflight[p].reads \union {r}
      /\ \A q \in Paths \ {p} : preflight'[q] = preflight[q]
      /\ preflight' \in [Paths -> PreflightType]
  <2>1. CASE /\ HasRoom(preflight[p].reads)
             /\ preflight' = [preflight EXCEPT ![p].reads = @ \union {r}]
    <3>1. preflight[p].reads \union {r} \in JobReads
      <4>1. preflight[p].reads \in SUBSET Requests
        BY <1>2 DEF JobReads
      <4>2. Cardinality(preflight[p].reads \union {r}) <= AttachedCap
        <5>1. Cardinality(preflight[p].reads \union {r})
                <= Cardinality(preflight[p].reads) + 1
          BY <4>1, Sizes
        <5>2. /\ Cardinality(preflight[p].reads) \in Nat
              /\ Cardinality(preflight[p].reads \union {r}) \in Nat
          BY <4>1, Sizes
        <5> QED BY <2>1, <5>1, <5>2, PreviewAssumption DEF HasRoom
      <4> QED BY <4>1, <4>2 DEF JobReads
    <3>2. preflight'[p] = [preflight[p] EXCEPT !.reads = @ \union {r}]
      BY <1>2, <2>1
    <3>3. /\ preflight'[p] \in PreflightType
          /\ preflight'[p].sig = preflight[p].sig
          /\ preflight'[p].reads = preflight[p].reads \union {r}
      BY <1>2, <3>1, <3>2 DEF PreflightType
    <3> QED BY <1>2, <2>1, <3>3
  <2>2. CASE preflight' = [preflight EXCEPT ![p] = [on |-> TRUE, reads |-> {r},
                                                    sig |-> Nothing]]
    <3>1. {r} \in JobReads
      <4>1. Cardinality({r}) = 1
        BY FS_Singleton
      <4> QED BY <4>1, PreviewAssumption DEF JobReads
    <3>2. [on |-> TRUE, reads |-> {r}, sig |-> Nothing] \in PreflightType
      BY <3>1 DEF PreflightType, Seen
    <3> QED BY <1>2, <2>2, <3>2
  <2> QED BY <2>1, <2>2 DEF Submit
<1>4. /\ TypeOK'
  BY <1>1, <1>3 DEF Submit, IInv, TypeOK
<1>5. disk \in Nat
  BY Numbers DEF IInv
<1>6. \A x \in snapshots : SnapshotOK(x)'
  BY <1>1, <1>4, <1>5, SnapshotKept DEF Submit
<1>7. \A q \in Paths \ {p} : PreflightOK(q)'
  BY <1>1, <1>3, <1>4, <1>5, PreflightKept DEF Submit
<1>8. PreflightOK(p)'
  <2>1. \A q \in preflight[p].reads : read[q].at # "new" /\ q \in Requests
    BY <1>2 DEF PreflightOK, JobReads
  <2>2. \A q \in preflight'[p].reads : read'[q].at # "new"
    BY <1>1, <1>3, <2>1 DEF Kept
  <2>3. preflight'[p].sig <= disk
    BY <1>2, <1>3, <1>5 DEF PreflightOK, Nothing
  <2> QED BY <2>2, <2>3 DEF PreflightOK, Submit
<1>9. (CacheIsFresh /\ entry.data <= disk /\ acked <= disk)'
  BY DEF Submit, IInv, CacheIsFresh, NoEntry
<1>10. \A w \in Writers : WriterOK(w)'
  BY DEF Submit, IInv, WriterOK
<1> QED BY <1>1, <1>4, <1>6, <1>7, <1>8, <1>9, <1>10 DEF IInv, Submit

LEMMA PreflightStatsInv ==
  ASSUME IInv, NEW p \in Paths, PreflightStats(p) PROVE IInv'
<1>1. preflight \in [Paths -> PreflightType] /\ disk \in Versions /\ disk \in Nat
  BY Numbers DEF IInv, TypeOK
<1>2. /\ preflight'[p] = [preflight[p] EXCEPT !.sig = disk]
      /\ \A q \in Paths \ {p} : preflight'[q] = preflight[q]
  BY <1>1 DEF PreflightStats
<1>3. /\ preflight'[p] \in PreflightType /\ preflight'[p].sig = disk
      /\ preflight'[p].reads = preflight[p].reads
  BY <1>1, <1>2 DEF PreflightType, Seen
<1>4. TypeOK' /\ Kept
  BY <1>1, <1>2, <1>3 DEF PreflightStats, IInv, TypeOK, Kept
<1>5. \A x \in snapshots : SnapshotOK(x)'
  BY <1>1, <1>4, SnapshotKept DEF PreflightStats
<1>6. \A q \in Paths \ {p} : PreflightOK(q)'
  BY <1>1, <1>2, <1>4, PreflightKept DEF PreflightStats
<1>7. PreflightOK(p)'
  BY <1>1, <1>3 DEF PreflightStats, IInv, PreflightOK
<1>8. (CacheIsFresh /\ entry.data <= disk /\ acked <= disk)'
  BY DEF PreflightStats, IInv, CacheIsFresh, NoEntry
<1>9. \A w \in Writers : WriterOK(w)'
  BY DEF PreflightStats, IInv, WriterOK
<1>10. \A r \in Requests : ReadOK(r)'
  BY DEF PreflightStats, IInv, ReadOK
<1> QED BY <1>4, <1>5, <1>6, <1>7, <1>8, <1>9, <1>10 DEF IInv, PreflightStats

LEMMA PreflightFailsInv ==
  ASSUME IInv, NEW p \in Paths, PreflightFails(p) PROVE IInv'
<1>1. preflight[p].reads \in SUBSET Requests /\ snapshots \in SUBSET SnapshotType
  BY DEF IInv, TypeOK, PreflightType, JobReads
<1>2. /\ read' \in [Requests -> ReadType] /\ Kept
      /\ \A r \in Requests : ReadOK(r)'
  BY <1>1, FailJobFacts DEF PreflightFails
<1> QED BY <1>1, <1>2, PreflightStep DEF PreflightFails, Same

LEMMA PreflightReturnsInv ==
  ASSUME IInv, NEW p \in Paths, PreflightReturns(p) PROVE IInv'
<1> DEFINE sig == preflight[p].sig
           ready == OnTime(preflight[p].reads)
<1>1. /\ preflight[p] \in PreflightType /\ PreflightOK(p)
      /\ snapshots \in SUBSET SnapshotType
      /\ read \in [Requests -> ReadType]
  BY DEF IInv, TypeOK
<1>2. /\ preflight[p].reads \in SUBSET Requests
      /\ Cardinality(preflight[p].reads) <= AttachedCap
      /\ sig \in Seen /\ sig # Nothing
      /\ preflight' = [preflight EXCEPT ![p] = NoPreflight]
      /\ UNCHANGED <<disk, acked, writer, gen, entry, closing>>
  BY <1>1 DEF PreflightReturns, PreflightType, JobReads
<1>3. /\ ready \in SUBSET Requests /\ \A r \in ready : read[r].at = "open"
      /\ ready \subseteq preflight[p].reads
  BY <1>2 DEF OnTime
<1>4. /\ disk \in Nat /\ acked \in Nat /\ gen \in Nat /\ sig \in Versions
      /\ sig \in Nat /\ acked <= disk /\ sig <= disk
  BY <1>1, <1>2, Numbers DEF IInv, PreflightOK
<1>5. CASE /\ Hit(sig)
           /\ read' = Reply(ready, Content(entry.data))
           /\ UNCHANGED snapshots
  <2>1. entry # NoEntry /\ entry.data = sig /\ acked <= entry.data
    BY <1>2, <1>5 DEF Hit, IInv, CacheIsFresh, NoEntry
  <2>2. Content(entry.data) \in Answers /\ Content(entry.data).data = sig
    BY <1>4, <2>1, AnswerTypes
  <2>3. \A r \in ready : read[r].floor <= sig
    <3>1. \A r \in ready : read[r].floor <= acked /\ read[r].floor \in Nat
      BY <1>1, <1>3, PreviewAssumption DEF IInv, ReadOK, ReadType, Versions
    <3> QED BY <1>4, <2>1, <3>1
  <2>4. /\ read' \in [Requests -> ReadType] /\ Kept
        /\ \A r \in Requests : ReadOK(r)'
    BY <1>2, <1>3, <1>4, <1>5, <2>2, <2>3, ReplyFacts
  <2> QED BY <1>1, <1>2, <1>5, <2>4, PreflightStep DEF Same
<1>6. CASE \E x \in snapshots, A \in SUBSET ready :
             /\ SameKey(x, sig)
             /\ Cardinality(x.reads \union A) <= AttachedCap
             /\ read' = Reply(ready \ A, Failed)
             /\ snapshots' = (snapshots \ {x})
                             \union {[x EXCEPT !.reads = @ \union A]}
  <2> PICK x \in snapshots, A \in SUBSET ready :
             /\ SameKey(x, sig)
             /\ Cardinality(x.reads \union A) <= AttachedCap
             /\ read' = Reply(ready \ A, Failed)
             /\ snapshots' = (snapshots \ {x})
                             \union {[x EXCEPT !.reads = @ \union A]}
    BY <1>6
  <2> DEFINE y == [x EXCEPT !.reads = @ \union A]
  <2>1. /\ read' \in [Requests -> ReadType] /\ Kept
        /\ \A r \in Requests : ReadOK(r)'
    BY <1>2, <1>3, ReplyFacts, AnswerTypes
  <2>2. x \in SnapshotType /\ SnapshotOK(x)
    BY DEF IInv, TypeOK
  <2>3. x.reads \union A \in JobReads
    BY <1>3, <2>2 DEF JobReads, SnapshotType
  <2>4. /\ y \in SnapshotType /\ y.reads = x.reads \union A
        /\ y.sig = x.sig /\ y.gen = x.gen /\ y.data = x.data /\ y.end = x.end
    BY <2>2, <2>3 DEF SnapshotType
  <2>5. \A r \in x.reads : r \in Requests /\ read'[r].at # "new"
                           /\ read'[r].floor = read[r].floor
    BY <2>1, <2>2 DEF SnapshotOK, Kept, SnapshotType, JobReads
  <2>6. ASSUME NEW r \in A
        PROVE  /\ read'[r].at # "new"
               /\ x.data # Nothing => read'[r].floor <= x.data
    <3>1. r \in Requests /\ read[r].at = "open" /\ ReadOK(r) /\ read[r] \in ReadType
      BY <1>1, <1>3, <2>6 DEF IInv
    <3>2. read'[r].at # "new" /\ read'[r].floor = read[r].floor
      BY <2>1, <3>1 DEF Kept
    <3>3. read[r].floor \in Nat /\ read[r].floor <= acked
      BY <3>1, PreviewAssumption DEF ReadOK, ReadType, Versions
    <3>4. x.data # Nothing => acked <= x.data /\ x.data \in Nat
      BY <2>2, Numbers DEF SnapshotOK, SameKey, SnapshotType, IInv
    <3> QED BY <1>4, <3>2, <3>3, <3>4
  <2>7. SnapshotOK(y)'
    BY <1>2, <2>2, <2>4, <2>5, <2>6 DEF SnapshotOK
  <2>8. snapshots' \in SUBSET SnapshotType
        /\ \A z \in snapshots' \ snapshots : SnapshotOK(z)'
    BY <1>1, <2>4, <2>7
  <2> QED BY <1>1, <1>2, <2>1, <2>8, PreflightStep DEF Same
<1>7. CASE /\ snapshots' = IF ready = {} THEN snapshots
                           ELSE snapshots \union {NewSnapshot(sig, ready)}
           /\ UNCHANGED read
  <2>1. ready \in JobReads
    <3>1. Cardinality(ready) <= Cardinality(preflight[p].reads)
      BY <1>2, <1>3, Sizes, FS_Subset
    <3>2. Cardinality(ready) \in Nat /\ Cardinality(preflight[p].reads) \in Nat
      BY <1>2, <1>3, Sizes
    <3> QED BY <1>2, <1>3, <3>1, <3>2, PreviewAssumption DEF JobReads
  <2>2. NewSnapshot(sig, ready) \in SnapshotType
    BY <1>4, <2>1 DEF NewSnapshot, SnapshotType, Seen
  <2>3. ASSUME NEW z, z = NewSnapshot(sig, ready)
        PROVE  SnapshotOK(z)'
    <3>1. /\ z.sig = sig /\ z.gen = gen /\ z.reads = ready
          /\ z.data = Nothing /\ z.end = Nothing
      BY <2>3 DEF NewSnapshot
    <3>2. \A r \in z.reads : read'[r].at # "new"
      BY <1>3, <1>7, <3>1
    <3>3. z.sig <= disk' /\ z.gen <= gen'
      <4>1. disk' = disk
        BY <1>2
      <4>2. gen' = gen
        BY <1>2
      <4> QED BY <1>4, <3>1, <4>1, <4>2
    <3> QED BY <3>1, <3>2, <3>3 DEF SnapshotOK
  <2>4. snapshots' \in SUBSET SnapshotType
        /\ \A z \in snapshots' \ snapshots : SnapshotOK(z)'
    BY <1>1, <1>7, <2>2, <2>3
  <2>5. /\ Kept /\ \A r \in Requests : ReadOK(r)'
    BY <1>2, <1>7 DEF Kept, IInv, ReadOK
  <2> QED BY <1>1, <1>2, <1>7, <2>4, <2>5, PreflightStep DEF Same
<1> QED BY <1>5, <1>6, <1>7 DEF PreflightReturns

LEMMA SnapshotReadsInv ==
  ASSUME IInv, NEW x \in snapshots, SnapshotReads(x) PROVE IInv'
<1> DEFINE y == [x EXCEPT !.data = disk]
<1>1. x \in SnapshotType /\ SnapshotOK(x) /\ x.data = Nothing
      /\ snapshots \in SUBSET SnapshotType
  BY DEF IInv, TypeOK, SnapshotReads
<1>2. /\ disk \in Versions /\ disk \in Nat /\ acked \in Nat /\ acked <= disk
      /\ disk \in Seen /\ disk # Nothing
  BY Numbers DEF IInv, TypeOK, Seen, Nothing
<1>3. \A v \in SnapshotType : [v EXCEPT !.data = disk] \in SnapshotType
  BY <1>2 DEF SnapshotType
<1>4. ASSUME NEW z, z = y
      PROVE  z \in SnapshotType /\ SnapshotOK(z)'
  <2>1. /\ z.sig = x.sig /\ z.gen = x.gen /\ z.reads = x.reads
        /\ z.data = disk /\ z.end = x.end /\ z \in SnapshotType
    BY <1>1, <1>3, <1>4 DEF SnapshotType
  <2>2. x.end = Nothing
    BY <1>1, <1>2 DEF SnapshotOK
  <2>3. /\ x.sig <= disk /\ x.gen <= gen
        /\ \A r \in x.reads : read[r].at # "new" /\ read[r].floor <= disk
    <3>1. ASSUME NEW r \in x.reads PROVE read[r].floor <= disk
      <4>1. r \in Requests
        BY <1>1 DEF SnapshotType, JobReads
      <4>2. read[r].floor \in Versions /\ read[r].floor <= acked
        BY <4>1 DEF IInv, TypeOK, ReadType, ReadOK
      <4>3. read[r].floor \in Nat
        BY <4>2, Numbers DEF IInv
      <4> QED BY <1>2, <4>2, <4>3
    <3> QED BY <1>1, <3>1 DEF SnapshotOK
  <2>4. UNCHANGED <<disk, acked, gen, read>>
    BY DEF SnapshotReads
  <2> QED BY <1>2, <2>1, <2>2, <2>3, <2>4 DEF SnapshotOK
<1>5. snapshots' = (snapshots \ {x}) \union {y}
  BY DEF SnapshotReads
<1>6. /\ read' \in [Requests -> ReadType] /\ Kept
      /\ \A r \in Requests : ReadOK(r)'
      /\ entry' \in EntryType /\ CacheIsFresh' /\ entry'.data <= disk
  BY DEF SnapshotReads, IInv, TypeOK, Kept, ReadOK, CacheIsFresh, NoEntry
<1> HIDE DEF y
<1>7. snapshots' \in SUBSET SnapshotType
      /\ \A z \in snapshots' \ snapshots : SnapshotOK(z)'
  BY <1>1, <1>4, <1>5
<1> QED BY <1>6, <1>7, SnapshotStep DEF SnapshotReads, Same

LEMMA SnapshotStatsInv ==
  ASSUME IInv, NEW x \in snapshots, SnapshotStats(x) PROVE IInv'
<1> DEFINE y == [x EXCEPT !.end = disk]
<1>1. x \in SnapshotType /\ SnapshotOK(x) /\ x.data # Nothing
      /\ snapshots \in SUBSET SnapshotType
  BY DEF IInv, TypeOK, SnapshotStats
<1>2. /\ disk \in Versions /\ disk \in Nat /\ disk \in Seen /\ disk # Nothing
  BY Numbers DEF IInv, TypeOK, Seen, Nothing
<1>3. \A v \in SnapshotType : [v EXCEPT !.end = disk] \in SnapshotType
  BY <1>2 DEF SnapshotType
<1>4. ASSUME NEW z, z = y
      PROVE  z \in SnapshotType /\ SnapshotOK(z)'
  <2>1. /\ z.sig = x.sig /\ z.gen = x.gen /\ z.reads = x.reads
        /\ z.data = x.data /\ z.end = disk /\ z \in SnapshotType
    BY <1>1, <1>3, <1>4 DEF SnapshotType
  <2>2. x.data <= disk
    BY <1>1 DEF SnapshotOK
  <2>3. UNCHANGED <<disk, acked, gen, read>>
    BY DEF SnapshotStats
  <2> QED BY <1>1, <1>2, <2>1, <2>2, <2>3 DEF SnapshotOK
<1>5. snapshots' = (snapshots \ {x}) \union {y}
  BY DEF SnapshotStats
<1>6. /\ read' \in [Requests -> ReadType] /\ Kept
      /\ \A r \in Requests : ReadOK(r)'
      /\ entry' \in EntryType /\ CacheIsFresh' /\ entry'.data <= disk
  BY DEF SnapshotStats, IInv, TypeOK, Kept, ReadOK, CacheIsFresh, NoEntry
<1> HIDE DEF y
<1>7. snapshots' \in SUBSET SnapshotType
      /\ \A z \in snapshots' \ snapshots : SnapshotOK(z)'
  BY <1>1, <1>4, <1>5
<1> QED BY <1>6, <1>7, SnapshotStep DEF SnapshotStats, Same

LEMMA SnapshotFailsInv ==
  ASSUME IInv, NEW x \in snapshots, SnapshotFails(x) PROVE IInv'
<1>1. x.reads \in SUBSET Requests /\ snapshots \in SUBSET SnapshotType
  BY DEF IInv, TypeOK, SnapshotType, JobReads
<1>2. /\ read' \in [Requests -> ReadType] /\ Kept
      /\ \A r \in Requests : ReadOK(r)'
  BY <1>1, FailJobFacts DEF SnapshotFails
<1>3. entry' \in EntryType /\ CacheIsFresh' /\ entry'.data <= disk
  BY DEF SnapshotFails, IInv, TypeOK, CacheIsFresh, NoEntry
<1> QED BY <1>1, <1>2, <1>3, SnapshotStep DEF SnapshotFails, Same

(* What two looks at the file with one signature tell.                        *)
LEMMA SnapshotIsExact ==
  ASSUME IInv, NEW x \in snapshots, x.end # Nothing, x.end = x.sig
  PROVE  /\ x.data = x.sig /\ x.data \in Versions /\ x.data <= disk
         /\ x.data # Nothing
BY Numbers DEF IInv, TypeOK, SnapshotType, SnapshotOK

LEMMA SnapshotReturnsInv ==
  ASSUME IInv, NEW x \in snapshots, SnapshotReturns(x) PROVE IInv'
<1>1. /\ x \in SnapshotType /\ x.reads \in SUBSET Requests /\ SnapshotOK(x)
      /\ snapshots \in SUBSET SnapshotType
  BY DEF IInv, TypeOK, SnapshotType, JobReads
<1>2. entry \in EntryType /\ CacheIsFresh /\ entry.data <= disk
  BY DEF IInv, TypeOK
<1>3. CASE FailJob(x.reads) /\ UNCHANGED entry
  <2>1. /\ read' \in [Requests -> ReadType] /\ Kept
        /\ \A r \in Requests : ReadOK(r)'
    BY <1>1, <1>3, FailJobFacts DEF SnapshotReturns
  <2>2. entry' \in EntryType /\ CacheIsFresh' /\ entry'.data <= disk
    BY <1>2, <1>3 DEF CacheIsFresh, NoEntry, SnapshotReturns
  <2> QED BY <1>1, <2>1, <2>2, SnapshotStep DEF SnapshotReturns, Same
<1>4. CASE /\ x.end = x.sig
           /\ read' = Reply(OnTime(x.reads), Content(x.data))
           /\ entry' = IF OnTime(x.reads) = {} THEN entry ELSE Writeback(x)
  <2>1. /\ x.data = x.sig /\ x.data \in Versions /\ x.data <= disk
        /\ x.data # Nothing
    BY <1>4, SnapshotIsExact DEF SnapshotReturns
  <2>2. Content(x.data) \in Answers /\ Content(x.data).data = x.data
    BY <2>1, AnswerTypes
  <2>3. /\ OnTime(x.reads) \in SUBSET Requests
        /\ \A r \in OnTime(x.reads) : read[r].at = "open" /\ read[r].floor <= x.data
    BY <1>1, <2>1 DEF OnTime, SnapshotOK
  <2>4. /\ read' \in [Requests -> ReadType] /\ Kept
        /\ \A r \in Requests : ReadOK(r)'
    BY <1>4, <2>1, <2>2, <2>3, ReplyFacts DEF SnapshotReturns
  <2>5. entry' \in EntryType /\ CacheIsFresh' /\ entry'.data <= disk
    <3>1. CASE entry' = entry
      BY <1>2, <3>1 DEF CacheIsFresh, NoEntry, SnapshotReturns
    <3>2. CASE /\ x.gen = gen
               /\ entry' = [sig |-> x.sig, data |-> x.data, gen |-> x.gen]
      <4>1. entry'.sig = x.sig /\ entry'.data = x.data /\ entry'.gen = gen
        BY <3>2
      <4>2. entry' \in EntryType
        BY <1>1, <2>1, <3>2 DEF EntryType, Seen, SnapshotType
      <4>3. acked <= x.data
        BY <1>1, <2>1, <3>2 DEF SnapshotOK
      <4>4. UNCHANGED <<acked, gen>>
        BY DEF SnapshotReturns
      <4> QED BY <2>1, <4>1, <4>2, <4>3, <4>4 DEF CacheIsFresh
    <3> QED BY <1>4, <3>1, <3>2 DEF Writeback
  <2> QED BY <1>1, <2>4, <2>5, SnapshotStep DEF SnapshotReturns, Same
<1> QED BY <1>3, <1>4 DEF SnapshotReturns

LEMMA CacheDropsInv ==
  ASSUME IInv, CacheDrops PROVE IInv'
<1>1. entry' \in EntryType /\ CacheIsFresh' /\ entry'.data <= disk
  BY Numbers DEF CacheDrops, CacheIsFresh, NoEntry, EntryType, Seen, IInv, Nothing
<1>2. /\ read' \in [Requests -> ReadType] /\ Kept
      /\ \A r \in Requests : ReadOK(r)'
  BY DEF CacheDrops, IInv, TypeOK, Kept, ReadOK
<1>3. snapshots' \in SUBSET SnapshotType
  BY DEF CacheDrops, IInv, TypeOK
<1> QED BY <1>1, <1>2, <1>3, SnapshotStep DEF CacheDrops, Same

LEMMA DeadlinePassesInv ==
  ASSUME IInv, NEW r \in Requests, DeadlinePasses(r) PROVE IInv'
<1>1. read \in [Requests -> ReadType]
  BY DEF IInv, TypeOK
<1>2. /\ read'[r] = [read[r] EXCEPT !.late = TRUE]
      /\ \A q \in Requests \ {r} : read'[q] = read[q]
      /\ read' = [read EXCEPT ![r].late = TRUE]
  BY <1>1 DEF DeadlinePasses
<1>3. /\ read'[r] \in ReadType /\ read'[r].at = read[r].at
      /\ read'[r].floor = read[r].floor /\ read'[r].out = read[r].out
  BY <1>1, <1>2 DEF ReadType
<1>4. UNCHANGED <<acked, disk>>
  BY DEF DeadlinePasses
<1>5. ASSUME NEW q \in Requests PROVE ReadOK(q)'
  <2>1. /\ read'[q].at = read[q].at /\ read'[q].floor = read[q].floor
        /\ read'[q].out = read[q].out /\ ReadOK(q)
    BY <1>2, <1>3 DEF IInv
  <2> QED BY <1>4, <2>1 DEF ReadOK
<1>6. read' \in [Requests -> ReadType] /\ Kept
  BY <1>1, <1>2, <1>3 DEF Kept
<1> QED BY <1>5, <1>6, ReadStep DEF DeadlinePasses, Same, IInv, TypeOK

LEMMA TimesOutInv ==
  ASSUME IInv, NEW r \in Requests, TimesOut(r) PROVE IInv'
<1>1. /\ read' \in [Requests -> ReadType] /\ Kept
      /\ \A q \in Requests : ReadOK(q)'
  <2>1. /\ read[r].at = "open" /\ read' = Reply({r}, Failed)
        /\ acked' = acked /\ disk' = disk
    BY DEF TimesOut
  <2>2. {r} \in SUBSET Requests /\ \A q \in {r} : read[q].at = "open"
    BY <2>1
  <2> QED BY <2>1, <2>2, ReplyFacts, AnswerTypes
<1> QED BY <1>1, ReadStep DEF TimesOut, Same, IInv, TypeOK

LEMMA ShutdownInv ==
  ASSUME IInv, Shutdown PROVE IInv'
<1>1. /\ read' \in [Requests -> ReadType] /\ Kept
      /\ \A q \in Requests : ReadOK(q)'
  <2> DEFINE S == {r \in Requests : read[r].at = "open"}
  <2>1. read' = Reply(S, Failed) /\ acked' = acked /\ disk' = disk
    BY DEF Shutdown
  <2>2. S \in SUBSET Requests /\ \A r \in S : read[r].at = "open"
    OBVIOUS
  <2> HIDE DEF S
  <2> QED BY <2>1, <2>2, ReplyFacts, AnswerTypes
<1>2. preflight' \in [Paths -> PreflightType] /\ snapshots' = {}
  BY NoPreflightFacts DEF Shutdown
<1>3. TypeOK'
  BY <1>1, <1>2 DEF Shutdown, IInv, TypeOK
<1>4. disk \in Nat
  BY Numbers DEF IInv
<1>5. \A p \in Paths : PreflightOK(p)'
  BY <1>4, NoPreflightFacts DEF Shutdown, PreflightOK, Nothing
<1>6. \A w \in Writers : WriterOK(w)'
  BY DEF Shutdown, IInv, WriterOK
<1>7. (CacheIsFresh /\ entry.data <= disk /\ acked <= disk)'
  BY DEF Shutdown, IInv, CacheIsFresh, NoEntry
<1> QED BY <1>1, <1>2, <1>3, <1>5, <1>6, <1>7 DEF IInv

LEMMA ShutdownEndsInv ==
  ASSUME IInv, ShutdownEnds PROVE IInv'
<1>1. /\ read' \in [Requests -> ReadType] /\ Kept
      /\ \A q \in Requests : ReadOK(q)'
  BY DEF ShutdownEnds, IInv, TypeOK, Kept, ReadOK
<1> QED BY <1>1, ReadStep DEF ShutdownEnds, Same

LEMMA WriteChecksInv ==
  ASSUME IInv, NEW w \in Writers, NEW e \in 0..disk \union {Nothing},
         WriteChecks(w, e)
  PROVE  IInv'
<1>1. writer \in [Writers -> WriterType] /\ disk \in Nat /\ disk \in Versions
  BY Numbers DEF IInv, TypeOK
<1>2. e \in Seen
  BY <1>1, PreviewAssumption DEF Seen, Versions
<1>3. Done \in WriterType /\ Done.at = "done"
  BY PreviewAssumption DEF Done, WriterType, Seen, Versions
<1>4. /\ writer'[w] \in WriterType /\ writer'[w].at # "written"
      /\ \A v \in Writers \ {w} : writer'[v] = writer[v]
      /\ writer' \in [Writers -> WriterType]
  <2>1. CASE writer' = [writer EXCEPT ![w] = Done]
    BY <1>1, <1>3, <2>1
  <2>2. CASE writer' = [writer EXCEPT ![w] =
                          [@ EXCEPT !.expected = e, !.at = "writing"]]
    <3>1. writer'[w] = [writer[w] EXCEPT !.expected = e, !.at = "writing"]
      BY <1>1, <2>2
    <3>2. writer'[w] \in WriterType /\ writer'[w].at = "writing"
      BY <1>1, <1>2, <3>1 DEF WriterType
    <3> QED BY <1>1, <2>2, <3>2
  <2> QED BY <2>1, <2>2 DEF WriteChecks
<1>5. \A v \in Writers : WriterOK(v)'
  <2>1. UNCHANGED disk
    BY DEF WriteChecks
  <2> QED BY <1>4, <2>1 DEF IInv, WriterOK
<1> QED BY <1>1, <1>4, <1>5, WriteStep DEF WriteChecks

LEMMA WriteLandsInv ==
  ASSUME IInv, NEW w \in Writers, WriteLands(w) PROVE IInv'
<1>1. /\ writer \in [Writers -> WriterType] /\ disk \in Nat
      /\ disk + 1 \in Versions /\ disk' = disk + 1
  BY Numbers, PreviewAssumption DEF IInv, TypeOK, WriteLands, Versions
<1>2. /\ writer'[w] = [writer[w] EXCEPT !.at = "written", !.version = disk + 1]
      /\ \A v \in Writers \ {w} : writer'[v] = writer[v]
  BY <1>1 DEF WriteLands
<1>3. writer'[w] \in WriterType /\ writer'[w].version = disk + 1
  <2>1. writer[w] \in WriterType
    BY <1>1
  <2> DEFINE n == disk + 1
  <2>2. n \in Versions
    BY <1>1
  <2>3. writer'[w] = [writer[w] EXCEPT !.at = "written", !.version = n]
    BY <1>2
  <2> HIDE DEF n
  <2>4. writer'[w] \in WriterType /\ writer'[w].version = n
    BY <2>1, <2>2, <2>3 DEF WriterType
  <2> QED BY <2>4 DEF n
<1>4. writer' \in [Writers -> WriterType]
  BY <1>1, <1>2, <1>3 DEF WriteLands
<1>5. ASSUME NEW v \in Writers \ {w} PROVE WriterOK(v)'
  <2>1. WriterOK(v) /\ writer[v].version \in Nat /\ writer'[v] = writer[v]
    BY <1>2, Numbers DEF IInv, TypeOK, WriterType
  <2> QED BY <1>1, <2>1 DEF WriterOK
<1>6. WriterOK(w)'
  BY <1>1, <1>3 DEF WriterOK
<1>7. disk' \in Versions /\ disk <= disk'
  BY <1>1
<1> QED BY <1>4, <1>5, <1>6, <1>7, WriteStep DEF WriteLands

LEMMA WriteFailsInv ==
  ASSUME IInv, NEW w \in Writers, WriteFails(w) PROVE IInv'
<1>1. writer \in [Writers -> WriterType] /\ disk \in Nat
  BY Numbers DEF IInv, TypeOK
<1>2. disk' \in Versions /\ disk <= disk'
  BY <1>1 DEF WriteFails
<1>3. Done \in WriterType /\ Done.at = "done"
  BY PreviewAssumption DEF Done, WriterType, Seen, Versions
<1>4. /\ writer' \in [Writers -> WriterType]
      /\ writer'[w] = Done /\ \A v \in Writers \ {w} : writer'[v] = writer[v]
  BY <1>1, <1>3 DEF WriteFails
<1>5. ASSUME NEW v \in Writers PROVE WriterOK(v)'
  <2>1. CASE v = w
    BY <1>3, <1>4, <2>1 DEF WriterOK
  <2>2. CASE v # w
    <3>1. WriterOK(v) /\ writer[v].version \in Nat /\ writer'[v] = writer[v]
      BY <1>4, <2>2, Numbers DEF IInv, TypeOK, WriterType
    <3>2. disk' \in Nat
      BY <1>2, Numbers DEF IInv
    <3> QED BY <1>1, <1>2, <3>1, <3>2 DEF WriterOK
  <2> QED BY <2>1, <2>2
<1> QED BY <1>2, <1>4, <1>5, WriteStep DEF WriteFails

LEMMA DiskChangesInv ==
  ASSUME IInv, DiskChanges PROVE IInv'
<1>1. /\ disk \in Nat /\ disk' = disk + 1 /\ disk' \in Versions /\ disk <= disk'
  BY Numbers, PreviewAssumption DEF IInv, TypeOK, DiskChanges, Versions
<1>2. ASSUME NEW v \in Writers PROVE WriterOK(v)'
  <2>1. WriterOK(v) /\ writer[v].version \in Nat /\ writer'[v] = writer[v]
    BY Numbers DEF IInv, TypeOK, WriterType, DiskChanges
  <2> QED BY <1>1, <2>1 DEF WriterOK
<1>3. writer' \in [Writers -> WriterType]
  BY DEF DiskChanges, IInv, TypeOK
<1> QED BY <1>1, <1>2, <1>3, WriteStep DEF DiskChanges

(* The write is acknowledged: a new generation, under which no snapshot job   *)
(* that runs was started.                                                    *)
LEMMA WriteAcksInv ==
  ASSUME IInv, NEW w \in Writers, WriteAcks(w) PROVE IInv'
<1>1. /\ writer \in [Writers -> WriterType] /\ disk \in Nat /\ acked \in Nat
      /\ gen \in Nat /\ acked <= disk
      /\ writer[w].version \in Versions /\ writer[w].version \in Nat
      /\ writer[w].version <= disk
  BY Numbers DEF IInv, TypeOK, WriterType, WriteAcks, WriterOK
<1>2. /\ disk' = disk /\ gen' = gen + 1 /\ entry' = NoEntry
      /\ acked' \in {acked, writer[w].version} /\ acked <= acked' /\ acked' <= disk
      /\ UNCHANGED <<read, preflight, snapshots, closing>>
  BY <1>1 DEF WriteAcks
<1>3. Done \in WriterType /\ Done.at = "done"
  BY PreviewAssumption DEF Done, WriterType, Seen, Versions
<1>4. /\ writer' \in [Writers -> WriterType]
      /\ writer'[w] = Done /\ \A v \in Writers \ {w} : writer'[v] = writer[v]
  BY <1>1, <1>3 DEF WriteAcks
<1>5. entry' \in EntryType /\ gen' \in Nat /\ acked' \in Versions
  BY <1>1, <1>2 DEF NoEntry, EntryType, Seen, IInv, TypeOK
<1>6. TypeOK'
  BY <1>2, <1>4, <1>5 DEF IInv, TypeOK
<1>7. \A v \in Writers : WriterOK(v)'
  BY <1>2, <1>3, <1>4 DEF IInv, WriterOK
<1>8. (CacheIsFresh /\ entry.data <= disk /\ acked <= disk)'
  BY <1>1, <1>2 DEF CacheIsFresh, NoEntry, Nothing
<1>9. ASSUME NEW r \in Requests PROVE ReadOK(r)'
  <2>1. ReadOK(r) /\ read[r].floor \in Nat
    BY Numbers DEF IInv, TypeOK, ReadType
  <2> QED BY <1>1, <1>2, <1>5, <2>1, Numbers DEF ReadOK
<1>10. ASSUME NEW x \in snapshots PROVE SnapshotOK(x)'
  <2>1. SnapshotOK(x) /\ x.gen \in Nat
    BY DEF IInv, TypeOK, SnapshotType
  <2>2. x.gen < gen'
    BY <1>1, <1>2, <2>1 DEF SnapshotOK
  <2> QED BY <1>1, <1>2, <2>1, <2>2 DEF SnapshotOK
<1>11. \A p \in Paths : PreflightOK(p)'
  BY <1>2 DEF IInv, PreflightOK
<1> QED BY <1>2, <1>6, <1>7, <1>8, <1>9, <1>10, <1>11 DEF IInv

LEMMA StutterInv ==
  ASSUME IInv, UNCHANGED vars PROVE IInv'
<1>1. /\ read' \in [Requests -> ReadType] /\ Kept
      /\ \A q \in Requests : ReadOK(q)'
  BY DEF vars, IInv, TypeOK, Kept, ReadOK
<1> QED BY <1>1, ReadStep DEF vars, Same, IInv, TypeOK

LEMMA NextInv == IInv /\ [Next]_vars => IInv'
<1> SUFFICES ASSUME IInv, [Next]_vars PROVE IInv'
  OBVIOUS
<1>1. CASE UNCHANGED vars
  BY <1>1, StutterInv
<1>2. CASE \E r \in Requests :
              \/ \E p \in Paths : Submit(r, p)
              \/ SubmitRefused(r) \/ DeadlinePasses(r) \/ TimesOut(r)
  BY <1>2, SubmitInv, SubmitRefusedInv, DeadlinePassesInv, TimesOutInv
<1>3. CASE \E p \in Paths : PreflightStats(p) \/ PreflightFails(p)
                            \/ PreflightReturns(p)
  BY <1>3, PreflightStatsInv, PreflightFailsInv, PreflightReturnsInv
<1>4. CASE \E x \in snapshots : SnapshotReads(x) \/ SnapshotStats(x)
                                \/ SnapshotFails(x) \/ SnapshotReturns(x)
  BY <1>4, SnapshotReadsInv, SnapshotStatsInv, SnapshotFailsInv,
     SnapshotReturnsInv
<1>5. CASE CacheDrops \/ DiskChanges \/ Shutdown \/ ShutdownEnds
  BY <1>5, CacheDropsInv, DiskChangesInv, ShutdownInv, ShutdownEndsInv
<1>6. CASE \E w \in Writers :
              \/ \E e \in 0..disk \union {Nothing} : WriteChecks(w, e)
              \/ WriteLands(w) \/ WriteFails(w) \/ WriteAcks(w)
  BY <1>6, WriteChecksInv, WriteLandsInv, WriteFailsInv, WriteAcksInv
<1> QED BY <1>1, <1>2, <1>3, <1>4, <1>5, <1>6 DEF Next

(* The inductive invariant holds throughout.                                 *)
THEOREM Invariance == Spec => []IInv
BY InitInv, NextInv, PTL DEF Spec

-----------------------------------------------------------------------------
(* The properties.                                                           *)

(* Every reachable state of fs.read and fs.write is a record of known parts:  *)
(* no job serves more reads than it has room for, and every answer is one.    *)
THEOREM TypeCorrect == Spec => []TypeOK
<1>1. IInv => TypeOK
  BY DEF IInv
<1> QED BY <1>1, Invariance, PTL

(* A read never shows contents older than a write acknowledged before it was  *)
(* asked for, whatever jobs and cache entries it shares.                      *)
THEOREM ReadsYourWrites == Spec => []ReadYourWrites
<1>1. IInv => ReadYourWrites
  BY DEF IInv, ReadOK, ReadYourWrites
<1> QED BY <1>1, Invariance, PTL

(* Job, deadline, full job and shutdown together answer a read once.          *)
THEOREM AnswersOnce == Spec => []AnsweredOnce
<1>1. IInv => AnsweredOnce
  BY DEF IInv, ReadOK, AnsweredOnce
<1> QED BY <1>1, Invariance, PTL

(* The cache keeps nothing that is older than an acknowledged write.          *)
THEOREM CacheStaysFresh == Spec => []CacheIsFresh
<1>1. IInv => CacheIsFresh
  BY DEF IInv
<1> QED BY <1>1, Invariance, PTL

-----------------------------------------------------------------------------
(* The implementation of FreshReads.                                         *)

Floor == [r \in Requests |-> read[r].floor]
Outs  == [r \in Requests |-> read[r].out]
Asks  == {r \in Requests : read[r].at # "new"}

LEMMA InitImplements == Init => Reading!Init
BY DEF Init, Reading!Init

(* Answers to open reads are an Answer of FreshReads.                         *)
LEMMA ReplyImplements ==
  ASSUME IInv, NEW S \in SUBSET Requests, NEW a \in Answers,
         \A r \in S : read[r].at = "open",
         \/ a = Failed
         \/ \E v \in 0..disk : a = Content(v) /\ \A r \in S : read[r].floor <= v,
         read' = Reply(S, a), acked' = acked, disk' = disk
  PROVE  Reading!Next
<1>1. read \in [Requests -> ReadType] /\ disk \in Nat
  BY Numbers DEF IInv, TypeOK
<1>2. ASSUME NEW r \in S
      PROVE  /\ Outs[r] = <<>> /\ Outs'[r] = <<a>> /\ r \in Asks
             /\ Floor'[r] = Floor[r] /\ r \in Asks'
  <2>1. /\ read[r] \in ReadType /\ ReadOK(r) /\ read[r].at = "open"
        /\ read'[r] = [read[r] EXCEPT !.at = "closed", !.late = FALSE,
                                      !.out = Append(@, a)]
    BY <1>1, <1>2 DEF IInv, Reply
  <2>2. read[r].out = <<>>
    <3>1. read[r].out \in Seq(Answers) /\ Len(read[r].out) = 0
      BY <2>1 DEF ReadType, ReadOK
    <3> QED BY <3>1
  <2>3. Append(read[r].out, a) = <<a>>
    BY <2>2
  <2>4. read'[r].out = <<a>> /\ read'[r].at = "closed" /\ read'[r].floor = read[r].floor
    BY <2>1, <2>3 DEF ReadType
  <2> QED BY <1>2, <2>1, <2>2, <2>4 DEF Outs, Asks, Floor
<1>3. \A r \in Requests \ S :
        /\ Outs'[r] = Outs[r] /\ Floor'[r] = Floor[r]
        /\ r \in Asks' <=> r \in Asks
  BY <1>1 DEF Reply, Outs, Floor, Asks
<1>4. Asks' = Asks
  BY <1>2, <1>3 DEF Asks
<1>5. Floor' = Floor
  BY <1>2, <1>3 DEF Floor
<1>6. S \subseteq Asks
  BY <1>2
<1>7. DOMAIN Outs' = Requests
  BY DEF Outs
<1>8. ASSUME NEW r \in S
      PROVE  Outs[r] = <<>> /\ Len(Outs'[r]) = 1 /\ Reading!Fits(r, Outs'[r][1])
  <2>1. Outs'[r] = <<a>> /\ Outs[r] = <<>>
    BY <1>2, <1>8
  <2>2. Len(Outs'[r]) = 1 /\ Outs'[r][1] = a
    BY <2>1
  <2>3. read[r].floor \in Nat
    BY <1>1, <1>8, Numbers DEF IInv, ReadType
  <2>4. ASSUME a = Failed PROVE Reading!Fits(r, a)
    BY <2>4 DEF Reading!Fits, Reading!Failed, Failed
  <2>5. ASSUME NEW v \in 0..disk, a = Content(v), read[r].floor <= v
        PROVE  Reading!Fits(r, a)
    <3>1. v \in Floor[r]..disk
      BY <1>1, <1>8, <2>3, <2>5 DEF Floor
    <3> QED BY <2>5, <3>1 DEF Reading!Fits, Reading!Content, Content, Floor
  <2>6. Reading!Fits(r, a)
    BY <1>8, <2>4, <2>5
  <2> QED BY <2>1, <2>2, <2>6
<1>9. Reading!Answer(S)
  BY <1>3, <1>4, <1>5, <1>6, <1>7, <1>8 DEF Reading!Answer, Outs, Floor, Asks
<1> QED BY <1>9 DEF Reading!Next

LEMMA AskImplements ==
  ASSUME IInv, NEW r \in Requests, read[r].at = "new",
         NEW answers \in {<<>>, <<Failed>>}, read' = Asked(r, answers),
         acked' = acked, disk' = disk
  PROVE  Reading!Next
<1>1. read \in [Requests -> ReadType]
  BY DEF IInv, TypeOK
<1>2. /\ read'[r].at # "new" /\ read'[r].floor = acked
      /\ read'[r].out = answers
      /\ \A q \in Requests \ {r} : read'[q] = read[q]
  BY <1>1 DEF Asked
<1>3. Outs[r] = <<>>
  <2>1. ReadOK(r) /\ read[r].out \in Seq(Answers)
    BY <1>1 DEF IInv, ReadType
  <2>2. Len(read[r].out) = 0
    BY <2>1 DEF ReadOK
  <2> QED BY <2>1, <2>2 DEF Outs
<1>4. r \notin Asks /\ Asks' = Asks \union {r}
  BY <1>2 DEF Asks
<1>5. Floor' = [Floor EXCEPT ![r] = acked]
  BY <1>2 DEF Floor
<1>6. Outs' = [Outs EXCEPT ![r] = answers]
  BY <1>2 DEF Outs
<1>7. Outs' = Outs \/ Outs' = [Outs EXCEPT ![r] = <<Failed>>]
  <2>1. CASE answers = <<>>
    BY <1>3, <1>6, <2>1 DEF Outs
  <2>2. CASE answers = <<Failed>>
    BY <1>6, <2>2
  <2> QED BY <2>1, <2>2
<1>8. Reading!Ask(r)
  BY <1>4, <1>5, <1>7 DEF Reading!Ask, Outs, Floor, Asks, Reading!Failed, Failed
<1> QED BY <1>8 DEF Reading!Next

(* A step that leaves reads and file alone is none of FreshReads.              *)
LEMMA QuietImplements ==
  ASSUME UNCHANGED <<read, acked, disk>> PROVE UNCHANGED Reading!vars
BY DEF Reading!vars

LEMMA ChangeImplements ==
  ASSUME UNCHANGED <<read, acked>>, disk' = disk + 1 PROVE Reading!Next
BY DEF Reading!Next, Reading!Change

LEMMA PreflightReturnsImplements ==
  ASSUME IInv, NEW p \in Paths, PreflightReturns(p)
  PROVE  Reading!Next \/ UNCHANGED Reading!vars
<1> DEFINE sig == preflight[p].sig
           ready == OnTime(preflight[p].reads)
<1>1. /\ preflight[p] \in PreflightType /\ PreflightOK(p)
      /\ read \in [Requests -> ReadType] /\ acked' = acked /\ disk' = disk
  BY DEF IInv, TypeOK, PreflightReturns
<1>2. /\ ready \in SUBSET Requests /\ \A r \in ready : read[r].at = "open"
  BY <1>1 DEF OnTime, PreflightType, JobReads
<1>3. sig \in Seen /\ sig # Nothing
  BY <1>1 DEF PreflightReturns, PreflightType
<1>4. sig \in Versions /\ sig \in 0..disk /\ acked \in Nat /\ disk \in Nat
  <2>1. sig \in Nat /\ disk \in Nat /\ acked \in Nat /\ sig \in Versions
    BY <1>3, Numbers DEF IInv
  <2> QED BY <1>1, <2>1 DEF PreflightOK
<1>5. CASE Hit(sig) /\ read' = Reply(ready, Content(entry.data))
  <2>1. entry # NoEntry /\ entry.data = sig /\ acked <= sig
    BY <1>3, <1>5 DEF Hit, IInv, CacheIsFresh, NoEntry
  <2>2. ASSUME NEW r \in ready PROVE read[r].floor <= sig
    <3>1. ReadOK(r) /\ read[r].floor \in Nat
      BY <1>1, <1>2, Numbers DEF IInv, ReadType
    <3> QED BY <1>4, <2>1, <3>1 DEF ReadOK
  <2>3. Content(sig) \in Answers
    BY <1>4, AnswerTypes
  <2> HIDE DEF ready, sig
  <2> QED BY <1>1, <1>2, <1>4, <1>5, <2>1, <2>2, <2>3, ReplyImplements
<1>6. CASE \E A \in SUBSET ready : read' = Reply(ready \ A, Failed)
  BY <1>1, <1>2, <1>6, ReplyImplements, AnswerTypes
<1>7. CASE UNCHANGED read
  BY <1>1, <1>7, QuietImplements
<1> QED BY <1>5, <1>6, <1>7 DEF PreflightReturns

LEMMA SnapshotReturnsImplements ==
  ASSUME IInv, NEW x \in snapshots, SnapshotReturns(x) PROVE Reading!Next
<1>1. /\ x \in SnapshotType /\ x.reads \in SUBSET Requests /\ SnapshotOK(x)
      /\ acked' = acked /\ disk' = disk
  BY DEF IInv, TypeOK, SnapshotType, JobReads, SnapshotReturns
<1>2. /\ OnTime(x.reads) \in SUBSET Requests
      /\ \A r \in OnTime(x.reads) : read[r].at = "open" /\ r \in x.reads
  BY <1>1 DEF OnTime
<1>3. CASE FailJob(x.reads)
  BY <1>1, <1>2, <1>3, ReplyImplements, AnswerTypes DEF FailJob
<1>4. CASE x.end = x.sig /\ read' = Reply(OnTime(x.reads), Content(x.data))
  <2>1. /\ x.data \in Versions /\ x.data <= disk /\ x.data # Nothing
    BY <1>4, SnapshotIsExact DEF SnapshotReturns
  <2>2. Content(x.data) \in Answers /\ x.data \in Nat /\ disk \in Nat
    BY <2>1, AnswerTypes, Numbers DEF IInv
  <2>3. \A r \in OnTime(x.reads) : read[r].floor <= x.data
    BY <1>1, <1>2, <2>1 DEF SnapshotOK
  <2>4. x.data \in 0..disk
    BY <2>1, <2>2
  <2> QED BY <1>1, <1>2, <1>4, <2>2, <2>3, <2>4, ReplyImplements
<1> QED BY <1>3, <1>4 DEF SnapshotReturns

LEMMA WriterImplements ==
  ASSUME IInv, NEW w \in Writers,
         \/ \E e \in 0..disk \union {Nothing} : WriteChecks(w, e)
         \/ WriteLands(w) \/ WriteFails(w) \/ WriteAcks(w)
  PROVE  Reading!Next \/ UNCHANGED Reading!vars
<1>1. CASE \E e \in 0..disk \union {Nothing} : WriteChecks(w, e)
  BY <1>1, QuietImplements DEF WriteChecks
<1>2. CASE WriteLands(w)
  BY <1>2, ChangeImplements DEF WriteLands
<1>3. CASE WriteFails(w)
  BY <1>3, ChangeImplements, QuietImplements DEF WriteFails
<1>4. CASE WriteAcks(w)
  <2>1. writer[w].version \in Nat /\ writer[w].version <= disk
        /\ disk \in Nat /\ acked \in Nat /\ acked <= disk
    BY <1>4, Numbers DEF IInv, TypeOK, WriterType, WriterOK, WriteAcks
  <2>2. acked' \in acked..disk
    BY <1>4, <2>1 DEF WriteAcks
  <2>3. Reading!Acknowledge
    BY <1>4, <2>2 DEF WriteAcks, Reading!Acknowledge
  <2> QED BY <2>3 DEF Reading!Next
<1> QED BY <1>1, <1>2, <1>3, <1>4

LEMMA NextImplements ==
  IInv /\ [Next]_vars => Reading!Next \/ UNCHANGED Reading!vars
<1> SUFFICES ASSUME IInv, [Next]_vars
             PROVE  Reading!Next \/ UNCHANGED Reading!vars
  OBVIOUS
<1>1. CASE UNCHANGED vars
  BY <1>1, QuietImplements DEF vars
<1>2. ASSUME NEW r \in Requests, NEW p \in Paths, Submit(r, p)
      PROVE  Reading!Next
  BY <1>2, AskImplements DEF Submit
<1>3. ASSUME NEW r \in Requests, SubmitRefused(r) PROVE Reading!Next
  BY <1>3, AskImplements DEF SubmitRefused
<1>4. ASSUME NEW r \in Requests, DeadlinePasses(r)
      PROVE  UNCHANGED Reading!vars
  <2>1. read \in [Requests -> ReadType] /\ UNCHANGED <<acked, disk>>
    BY <1>4 DEF IInv, TypeOK, DeadlinePasses
  <2>2. ASSUME NEW q \in Requests
        PROVE  /\ read'[q].at = read[q].at /\ read'[q].floor = read[q].floor
               /\ read'[q].out = read[q].out
    BY <1>4, <2>1 DEF DeadlinePasses, ReadType
  <2> QED BY <2>1, <2>2 DEF Reading!vars
<1>5. ASSUME NEW r \in Requests, TimesOut(r) PROVE Reading!Next
  <2>1. /\ {r} \in SUBSET Requests /\ \A q \in {r} : read[q].at = "open"
        /\ read' = Reply({r}, Failed) /\ acked' = acked /\ disk' = disk
    BY <1>5 DEF TimesOut
  <2> QED BY <2>1, ReplyImplements, AnswerTypes
<1>6. ASSUME NEW p \in Paths, PreflightStats(p) PROVE UNCHANGED Reading!vars
  BY <1>6, QuietImplements DEF PreflightStats
<1>7. ASSUME NEW S \in SUBSET Requests, FailJob(S), UNCHANGED <<acked, disk>>
      PROVE  Reading!Next
  <2>1. OnTime(S) \in SUBSET Requests /\ \A r \in OnTime(S) : read[r].at = "open"
    BY DEF OnTime
  <2> QED BY <1>7, <2>1, ReplyImplements, AnswerTypes DEF FailJob
<1>8. ASSUME NEW p \in Paths, PreflightFails(p) PROVE Reading!Next
  BY <1>7, <1>8 DEF PreflightFails, IInv, TypeOK, PreflightType, JobReads
<1>9. ASSUME NEW x \in snapshots, SnapshotFails(x) PROVE Reading!Next
  BY <1>7, <1>9 DEF SnapshotFails, IInv, TypeOK, SnapshotType, JobReads
<1>10. ASSUME NEW x \in snapshots, SnapshotReads(x) \/ SnapshotStats(x)
       PROVE  UNCHANGED Reading!vars
  BY <1>10, QuietImplements DEF SnapshotReads, SnapshotStats
<1>11. CASE CacheDrops \/ ShutdownEnds
  BY <1>11, QuietImplements DEF CacheDrops, ShutdownEnds
<1>12. CASE DiskChanges
  BY <1>12, ChangeImplements DEF DiskChanges
<1>13. CASE Shutdown
  <2> DEFINE S == {r \in Requests : read[r].at = "open"}
  <2>1. read' = Reply(S, Failed) /\ acked' = acked /\ disk' = disk
    BY <1>13 DEF Shutdown
  <2>2. S \in SUBSET Requests /\ \A r \in S : read[r].at = "open"
    OBVIOUS
  <2> HIDE DEF S
  <2> QED BY <2>1, <2>2, ReplyImplements, AnswerTypes
<1>14. CASE \E r \in Requests :
              \/ \E p \in Paths : Submit(r, p)
              \/ SubmitRefused(r) \/ DeadlinePasses(r) \/ TimesOut(r)
  BY <1>14, <1>2, <1>3, <1>4, <1>5
<1>15. CASE \E p \in Paths : PreflightStats(p) \/ PreflightFails(p)
                            \/ PreflightReturns(p)
  BY <1>15, <1>6, <1>8, PreflightReturnsImplements
<1>16. CASE \E x \in snapshots : SnapshotReads(x) \/ SnapshotStats(x)
                                \/ SnapshotFails(x) \/ SnapshotReturns(x)
  BY <1>16, <1>9, <1>10, SnapshotReturnsImplements
<1>17. CASE \E w \in Writers :
              \/ \E e \in 0..disk \union {Nothing} : WriteChecks(w, e)
              \/ WriteLands(w) \/ WriteFails(w) \/ WriteAcks(w)
  BY <1>17, WriterImplements
<1> QED BY <1>1, <1>11, <1>12, <1>13, <1>14, <1>15, <1>16, <1>17 DEF Next

(* Reads and writes of the daemon implement what FreshReads promises, but for *)
(* that the reads are answered in the end, which the timers see to.           *)
THEOREM ImplementsFreshReads == Spec => Reading!Safety
BY InitImplements, NextImplements, Invariance, PTL DEF Spec, Reading!Safety

-----------------------------------------------------------------------------
(* Reads and their jobs.                                                     *)

InPreflight(r) == \E p \in Paths : r \in preflight[p].reads
InSnapshot(r)  == \E x \in snapshots : r \in x.reads

PreflightsApart ==
  /\ \A r \in Requests, p, q \in Paths :
       r \in preflight[p].reads /\ r \in preflight[q].reads => p = q
  /\ \A p \in Paths : ~preflight[p].on => preflight[p].reads = {}

(* Of a version of the file as one generation knows it there is one snapshot.  *)
OneJobPerKey ==
  \A x, y \in snapshots : x.sig = y.sig /\ x.gen = y.gen => x = y

SnapshotsApart ==
  /\ OneJobPerKey
  /\ \A r \in Requests, x, y \in snapshots : r \in x.reads /\ r \in y.reads => x = y

Worked ==
  /\ \A r \in Requests : Waiting(r) => InPreflight(r) \/ InSnapshot(r)
  /\ \A r \in Requests : ~(InPreflight(r) /\ InSnapshot(r))
  /\ PreflightsApart
  /\ SnapshotsApart

LEMMA JobTypes ==
  ASSUME IInv
  PROVE  /\ read \in [Requests -> ReadType]
         /\ preflight \in [Paths -> PreflightType]
         /\ snapshots \in SUBSET SnapshotType
         /\ \A p \in Paths : /\ preflight[p] \in PreflightType
                             /\ preflight[p].reads \subseteq Requests
         /\ \A x \in snapshots : x.reads \subseteq Requests /\ x \in SnapshotType
         /\ \A r \in Requests : read[r].at = "new" => ~InPreflight(r) /\ ~InSnapshot(r)
<1>1. TypeOK /\ \A p \in Paths : PreflightOK(p)
  BY DEF IInv
<1>2. \A x \in snapshots : SnapshotOK(x)
  BY DEF IInv
<1>3. \A r \in Requests : read[r].at = "new" => ~InPreflight(r) /\ ~InSnapshot(r)
  BY <1>1, <1>2 DEF PreflightOK, SnapshotOK, InPreflight, InSnapshot
<1> QED BY <1>1, <1>3 DEF TypeOK, PreflightType, SnapshotType, JobReads

(* Answered reads wait no longer, the others as before.                       *)
LEMMA ReplyWaits ==
  ASSUME IInv, NEW S, NEW a, read' = Reply(S, a)
  PROVE  \A r \in Requests : Waiting(r)' <=> Waiting(r) /\ r \notin S
<1> SUFFICES ASSUME NEW r \in Requests
             PROVE  Waiting(r)' <=> Waiting(r) /\ r \notin S
  OBVIOUS
<1>1. CASE r \in S
  <2>1. read'[r].at = "closed"
    BY <1>1, JobTypes DEF Reply, ReadType
  <2> QED BY <1>1, <2>1 DEF Waiting
<1>2. CASE r \notin S
  <2>1. read'[r] = read[r]
    BY <1>2 DEF Reply
  <2> QED BY <1>2, <2>1 DEF Waiting
<1> QED BY <1>1, <1>2

LEMMA FailWaits ==
  ASSUME IInv, NEW S, FailJob(S)
  PROVE  \A r \in Requests : Waiting(r)' <=> Waiting(r) /\ r \notin S
<1>1. \A r \in Requests : Waiting(r)' <=> Waiting(r) /\ r \notin OnTime(S)
  BY ReplyWaits DEF FailJob
<1> QED BY <1>1 DEF OnTime, Waiting

(* Steps that leave the jobs as they are.                                     *)
LEMMA SameJobsWork ==
  ASSUME Worked, UNCHANGED snapshots,
         \A r \in Requests : Waiting(r)' => Waiting(r),
         \A p \in Paths : /\ preflight'[p].reads = preflight[p].reads
                          /\ preflight'[p].on = preflight[p].on
  PROVE  Worked'
<1>1. \A r \in Requests : /\ InPreflight(r)' <=> InPreflight(r)
                          /\ InSnapshot(r)' <=> InSnapshot(r)
  BY DEF InPreflight, InSnapshot
<1>2. PreflightsApart' /\ SnapshotsApart'
  BY DEF Worked, PreflightsApart, SnapshotsApart, OneJobPerKey
<1> QED BY <1>1, <1>2 DEF Worked

(* A snapshot goes on, and maybe serves more reads; they had none so far.     *)
LEMMA SnapshotGoesOn ==
  ASSUME SnapshotsApart, NEW x \in snapshots, NEW y, NEW A,
         y.sig = x.sig, y.gen = x.gen, y.reads = x.reads \union A,
         \A r \in A : ~InSnapshot(r),
         snapshots' = (snapshots \ {x}) \union {y}
  PROVE  /\ SnapshotsApart'
         /\ \A r : InSnapshot(r)' <=> InSnapshot(r) \/ r \in A
<1>1. OneJobPerKey'
  BY DEF SnapshotsApart, OneJobPerKey
<1>2. ASSUME NEW r \in Requests, NEW u \in snapshots', NEW v \in snapshots',
             r \in u.reads, r \in v.reads
      PROVE  u = v
  <2>1. ASSUME NEW w \in snapshots \ {x}, r \in w.reads PROVE r \notin y.reads
    BY <2>1 DEF SnapshotsApart, InSnapshot
  <2> QED BY <1>2, <2>1 DEF SnapshotsApart
<1>3. \A r : InSnapshot(r)' <=> InSnapshot(r) \/ r \in A
  BY DEF InSnapshot
<1> QED BY <1>1, <1>2, <1>3 DEF SnapshotsApart

(* The job of a path is over.                                                *)
LEMMA PreflightLeaves ==
  ASSUME IInv, Worked, NEW p \in Paths,
         preflight' = [preflight EXCEPT ![p] = NoPreflight]
  PROVE  /\ PreflightsApart'
         /\ \A r \in Requests : InPreflight(r)' <=>
                                InPreflight(r) /\ r \notin preflight[p].reads
<1>1. /\ preflight'[p].reads = {}
      /\ \A q \in Paths \ {p} : preflight'[q] = preflight[q]
  BY JobTypes, NoPreflightFacts
<1>2. PreflightsApart'
  BY <1>1 DEF Worked, PreflightsApart
<1>3. ASSUME NEW r \in Requests
      PROVE  InPreflight(r)' <=> InPreflight(r) /\ r \notin preflight[p].reads
  <2>1. ASSUME InPreflight(r)'
        PROVE  InPreflight(r) /\ r \notin preflight[p].reads
    <3>1. PICK q \in Paths : r \in preflight'[q].reads
      BY <2>1 DEF InPreflight
    <3>2. q # p /\ r \in preflight[q].reads
      BY <1>1, <3>1
    <3> QED BY <3>2 DEF Worked, PreflightsApart, InPreflight
  <2>2. ASSUME InPreflight(r), r \notin preflight[p].reads
        PROVE  InPreflight(r)'
    <3>1. PICK q \in Paths : r \in preflight[q].reads
      BY <2>2 DEF InPreflight
    <3>2. q # p
      BY <2>2, <3>1
    <3> QED BY <1>1, <3>1, <3>2 DEF InPreflight
  <2> QED BY <2>1, <2>2
<1> QED BY <1>2, <1>3

LEMMA SubmitWorks ==
  ASSUME IInv, Worked, NEW r \in Requests, NEW p \in Paths, Submit(r, p)
  PROVE  Worked'
<1>1. /\ preflight \in [Paths -> PreflightType] /\ read \in [Requests -> ReadType]
      /\ read[r].at = "new" /\ ~InPreflight(r) /\ ~InSnapshot(r)
      /\ UNCHANGED snapshots
  BY JobTypes DEF Submit
<1>2. /\ preflight'[p].reads = preflight[p].reads \union {r}
      /\ preflight'[p].on
      /\ \A q \in Paths \ {p} : preflight'[q] = preflight[q]
  <2>1. CASE /\ preflight[p].on
             /\ preflight' = [preflight EXCEPT ![p].reads = @ \union {r}]
    <3>1. preflight'[p] = [preflight[p] EXCEPT !.reads = @ \union {r}]
      BY <1>1, <2>1
    <3> QED BY <1>1, <2>1, <3>1 DEF PreflightType
  <2>2. CASE /\ ~preflight[p].on
             /\ preflight' = [preflight EXCEPT ![p] = [on |-> TRUE, reads |-> {r},
                                                       sig |-> Nothing]]
    <3>1. preflight[p].reads = {}
      BY <2>2 DEF Worked, PreflightsApart
    <3> QED BY <1>1, <2>2, <3>1
  <2> QED BY <2>1, <2>2 DEF Submit
<1>3. \A q \in Requests \ {r} : Waiting(q)' => Waiting(q)
  BY <1>1 DEF Submit, Asked, Waiting
<1>4. \A q \in Requests : /\ InPreflight(q)' <=> InPreflight(q) \/ q = r
                          /\ InSnapshot(q)' <=> InSnapshot(q)
  BY <1>1, <1>2 DEF InPreflight, InSnapshot
<1>5. PreflightsApart'
  <2>1. ASSUME NEW q \in Requests, NEW u \in Paths, NEW v \in Paths,
               q \in preflight'[u].reads, q \in preflight'[v].reads
        PROVE  u = v
    <3>1. CASE q = r
      <4>1. \A o \in Paths \ {p} : r \notin preflight'[o].reads
        BY <1>1, <1>2 DEF InPreflight
      <4> QED BY <2>1, <3>1, <4>1
    <3>2. CASE q # r
      <4>1. \A o \in Paths : q \in preflight'[o].reads => q \in preflight[o].reads
        BY <1>2, <3>2
      <4> QED BY <2>1, <4>1 DEF Worked, PreflightsApart
    <3> QED BY <3>1, <3>2
  <2>2. \A q \in Paths : ~preflight'[q].on => preflight'[q].reads = {}
    BY <1>2 DEF Worked, PreflightsApart
  <2> QED BY <2>1, <2>2 DEF PreflightsApart
<1>6. SnapshotsApart'
  BY <1>1 DEF Worked, SnapshotsApart, OneJobPerKey
<1> QED BY <1>1, <1>3, <1>4, <1>5, <1>6 DEF Worked

LEMMA PreflightFailsWorks ==
  ASSUME IInv, Worked, NEW p \in Paths, PreflightFails(p) PROVE Worked'
<1>1. \A r \in Requests : Waiting(r)' <=> Waiting(r) /\ r \notin preflight[p].reads
  BY FailWaits DEF PreflightFails
<1>2. UNCHANGED snapshots
  BY DEF PreflightFails
<1>3. \A r \in Requests : InSnapshot(r)' <=> InSnapshot(r)
  BY <1>2 DEF InSnapshot
<1>4. /\ PreflightsApart'
      /\ \A r \in Requests : InPreflight(r)' <=>
                             InPreflight(r) /\ r \notin preflight[p].reads
  BY PreflightLeaves DEF PreflightFails
<1>5. SnapshotsApart'
  BY <1>2 DEF Worked, SnapshotsApart, OneJobPerKey
<1> QED BY <1>1, <1>3, <1>4, <1>5 DEF Worked

LEMMA PreflightReturnsWorks ==
  ASSUME IInv, Worked, NEW p \in Paths, PreflightReturns(p) PROVE Worked'
<1> DEFINE sig == preflight[p].sig
           ready == OnTime(preflight[p].reads)
<1>1. /\ PreflightsApart'
      /\ \A r \in Requests : InPreflight(r)' <=>
                             InPreflight(r) /\ r \notin preflight[p].reads
  BY PreflightLeaves DEF PreflightReturns
<1>2. /\ preflight[p].reads \subseteq Requests
      /\ \A r \in Requests : r \in ready <=> r \in preflight[p].reads /\ Waiting(r)
      /\ ready \subseteq Requests
      /\ \A r \in ready : InPreflight(r) /\ ~InSnapshot(r)
  <2>1. preflight[p].reads \subseteq Requests
    BY JobTypes
  <2>2. \A r \in Requests : r \in ready <=> r \in preflight[p].reads /\ Waiting(r)
    BY DEF OnTime, Waiting
  <2>3. ready \subseteq Requests
    BY <2>1 DEF OnTime
  <2>4. \A r \in ready : InPreflight(r)
    BY <2>2, <2>3 DEF InPreflight
  <2> QED BY <2>1, <2>2, <2>3, <2>4 DEF Worked
<1> HIDE DEF ready
(* What is left to show of each way to go on: the reads that were ready are   *)
(* answered or have come to a snapshot.                                      *)
<1>3. ASSUME SnapshotsApart', NEW A \in SUBSET ready,
             \A r \in Requests : InSnapshot(r)' <=> InSnapshot(r) \/ r \in A,
             \A r \in Requests : Waiting(r)' => Waiting(r) /\ (r \in ready => r \in A)
      PROVE  Worked'
  <2>1. ASSUME NEW r \in Requests, Waiting(r)'
        PROVE  InPreflight(r)' \/ InSnapshot(r)'
    <3>1. Waiting(r) /\ (r \in ready => r \in A)
      BY <1>3, <2>1
    <3>2. InPreflight(r) \/ InSnapshot(r)
      BY <3>1 DEF Worked
    <3> QED BY <1>1, <1>2, <1>3, <3>1, <3>2
  <2>2. ASSUME NEW r \in Requests PROVE ~(InPreflight(r)' /\ InSnapshot(r)')
    <3>1. r \in A => r \in preflight[p].reads
      BY <1>2
    <3> QED BY <1>1, <1>3, <3>1 DEF Worked
  <2> QED BY <1>1, <1>3, <2>1, <2>2 DEF Worked
<1>4. CASE /\ read' = Reply(ready, Content(entry.data))
           /\ UNCHANGED snapshots
  <2>1. \A r \in Requests : Waiting(r)' <=> Waiting(r) /\ r \notin ready
    BY <1>4, ReplyWaits
  <2>2. SnapshotsApart' /\ \A r \in Requests : InSnapshot(r)' <=> InSnapshot(r)
    BY <1>4 DEF Worked, SnapshotsApart, OneJobPerKey, InSnapshot
  <2>3. {} \in SUBSET ready
    OBVIOUS
  <2> QED BY <1>3, <2>1, <2>2, <2>3
<1>5. CASE \E x \in snapshots, A \in SUBSET ready :
             /\ read' = Reply(ready \ A, Failed)
             /\ snapshots' = (snapshots \ {x})
                             \union {[x EXCEPT !.reads = @ \union A]}
  <2> PICK x \in snapshots, A \in SUBSET ready :
             /\ read' = Reply(ready \ A, Failed)
             /\ snapshots' = (snapshots \ {x})
                             \union {[x EXCEPT !.reads = @ \union A]}
    BY <1>5
  <2> DEFINE y == [x EXCEPT !.reads = @ \union A]
  <2>1. y.sig = x.sig /\ y.gen = x.gen /\ y.reads = x.reads \union A
    BY JobTypes DEF SnapshotType
  <2>2. snapshots' = (snapshots \ {x}) \union {y}
    OBVIOUS
  <2> HIDE DEF y
  <2>3. \A r \in Requests : Waiting(r)' <=> Waiting(r) /\ r \notin ready \ A
    BY ReplyWaits
  <2>4. SnapshotsApart' /\ \A r : InSnapshot(r)' <=> InSnapshot(r) \/ r \in A
    BY <1>2, <2>1, <2>2, SnapshotGoesOn DEF Worked
  <2> QED BY <1>3, <2>3, <2>4
<1>6. CASE /\ \A x \in snapshots : ~SameKey(x, sig)
           /\ snapshots' = IF ready = {} THEN snapshots
                           ELSE snapshots \union {NewSnapshot(sig, ready)}
           /\ UNCHANGED read
  <2>1. \A r \in Requests : Waiting(r)' <=> Waiting(r)
    BY <1>6 DEF Waiting
  <2>2. CASE ready = {} /\ snapshots' = snapshots
    <3>1. SnapshotsApart' /\ \A r \in Requests : InSnapshot(r)' <=> InSnapshot(r)
      BY <2>2 DEF Worked, SnapshotsApart, OneJobPerKey, InSnapshot
    <3>2. {} \in SUBSET ready
      OBVIOUS
    <3> QED BY <1>3, <2>1, <2>2, <3>1, <3>2
  <2>3. CASE snapshots' = snapshots \union {NewSnapshot(sig, ready)}
    <3> DEFINE z == NewSnapshot(sig, ready)
    <3>1. z.sig = sig /\ z.gen = gen /\ z.reads = ready
      BY DEF NewSnapshot
    <3>2. snapshots' = snapshots \union {z}
      BY <2>3
    <3> HIDE DEF z
    <3>3. \A x \in snapshots : ~(x.sig = z.sig /\ x.gen = z.gen)
      BY <1>6, <3>1 DEF SameKey
    <3>4. OneJobPerKey'
      BY <3>2, <3>3 DEF Worked, SnapshotsApart, OneJobPerKey
    <3>5. \A x \in snapshots, r \in Requests : ~(r \in x.reads /\ r \in z.reads)
      BY <1>2, <3>1 DEF InSnapshot
    <3>6. SnapshotsApart'
      BY <3>2, <3>4, <3>5 DEF Worked, SnapshotsApart
    <3>7. \A r \in Requests : InSnapshot(r)' <=> InSnapshot(r) \/ r \in ready
      BY <3>1, <3>2 DEF InSnapshot
    <3>8. ready \in SUBSET ready
      OBVIOUS
    <3> QED BY <1>3, <2>1, <3>6, <3>7, <3>8
  <2> QED BY <1>6, <2>2, <2>3
<1> QED BY <1>4, <1>5, <1>6 DEF PreflightReturns, ready

(* The worker of a snapshot gets on.                                         *)
LEMMA SnapshotMovesWorks ==
  ASSUME IInv, Worked, NEW x \in snapshots, SnapshotReads(x) \/ SnapshotStats(x)
  PROVE  Worked'
<1>1. PICK y : /\ y.sig = x.sig /\ y.gen = x.gen /\ y.reads = x.reads
               /\ snapshots' = (snapshots \ {x}) \union {y}
  <2>1. x \in SnapshotType
    BY JobTypes
  <2>2. CASE SnapshotReads(x)
    <3> DEFINE y == [x EXCEPT !.data = disk]
    <3>1. y.sig = x.sig /\ y.gen = x.gen /\ y.reads = x.reads
      BY <2>1 DEF SnapshotType
    <3> QED BY <2>2, <3>1 DEF SnapshotReads
  <2>3. CASE SnapshotStats(x)
    <3> DEFINE y == [x EXCEPT !.end = disk]
    <3>1. y.sig = x.sig /\ y.gen = x.gen /\ y.reads = x.reads
      BY <2>1 DEF SnapshotType
    <3> QED BY <2>3, <3>1 DEF SnapshotStats
  <2> QED BY <2>2, <2>3
<1>2. UNCHANGED <<read, preflight>>
  BY DEF SnapshotReads, SnapshotStats
<1>3. SnapshotsApart' /\ \A r : InSnapshot(r)' <=> InSnapshot(r)
  <2> DEFINE A == {}
  <2>1. /\ y.reads = x.reads \union A /\ SnapshotsApart
        /\ \A r : r \notin A
    BY <1>1 DEF Worked
  <2> HIDE DEF A
  <2>2. SnapshotsApart' /\ \A r : InSnapshot(r)' <=> InSnapshot(r) \/ r \in A
    BY <1>1, <2>1, SnapshotGoesOn
  <2> QED BY <2>1, <2>2
<1>4. \A r \in Requests : /\ InPreflight(r)' <=> InPreflight(r)
                          /\ Waiting(r)' <=> Waiting(r)
  BY <1>2 DEF InPreflight, Waiting
<1>5. PreflightsApart'
  BY <1>2 DEF Worked, PreflightsApart
<1> QED BY <1>3, <1>4, <1>5 DEF Worked

(* A snapshot job is over, and has answered.                                  *)
LEMMA SnapshotEndsWorks ==
  ASSUME IInv, Worked, NEW x \in snapshots, SnapshotFails(x) \/ SnapshotReturns(x)
  PROVE  Worked'
<1>1. snapshots' = snapshots \ {x} /\ UNCHANGED preflight
  BY DEF SnapshotFails, SnapshotReturns
<1>2. \A r \in Requests : Waiting(r)' => Waiting(r) /\ r \notin x.reads
  <2>1. CASE FailJob(x.reads)
    BY <2>1, FailWaits
  <2>2. CASE read' = Reply(OnTime(x.reads), Content(x.data))
    <3>1. \A r \in Requests : Waiting(r)' <=> Waiting(r) /\ r \notin OnTime(x.reads)
      BY <2>2, ReplyWaits
    <3> QED BY <3>1 DEF OnTime, Waiting
  <2> QED BY <2>1, <2>2 DEF SnapshotFails, SnapshotReturns
<1>3. \A r \in Requests : /\ InPreflight(r)' <=> InPreflight(r)
                          /\ InSnapshot(r)' => InSnapshot(r)
                          /\ InSnapshot(r) /\ r \notin x.reads => InSnapshot(r)'
  BY <1>1 DEF InPreflight, InSnapshot
<1>4. PreflightsApart' /\ SnapshotsApart'
  BY <1>1 DEF Worked, PreflightsApart, SnapshotsApart, OneJobPerKey
<1> QED BY <1>2, <1>3, <1>4 DEF Worked

LEMMA ShutdownWorks ==
  ASSUME IInv, Worked, Shutdown PROVE Worked'
<1>1. /\ snapshots' = {} /\ \A p \in Paths : preflight'[p] = NoPreflight
  BY DEF Shutdown
<1>2. \A r \in Requests : ~InPreflight(r)' /\ ~InSnapshot(r)'
  BY <1>1, NoPreflightFacts DEF InPreflight, InSnapshot
<1>3. \A r \in Requests : ~Waiting(r)'
  <2>1. \A r \in Requests : Waiting(r)' <=>
          Waiting(r) /\ r \notin {q \in Requests : read[q].at = "open"}
    BY ReplyWaits DEF Shutdown
  <2> QED BY <2>1 DEF Waiting
<1>4. PreflightsApart' /\ SnapshotsApart'
  BY <1>1, NoPreflightFacts DEF PreflightsApart, SnapshotsApart, OneJobPerKey
<1> QED BY <1>2, <1>3, <1>4 DEF Worked

LEMMA WorkedNext == IInv /\ Worked /\ [Next]_vars => Worked'
<1> SUFFICES ASSUME IInv, Worked, [Next]_vars PROVE Worked'
  OBVIOUS
<1>1. ASSUME UNCHANGED <<preflight, snapshots>>,
             \A r \in Requests : Waiting(r)' => Waiting(r)
      PROVE  Worked'
  BY <1>1, SameJobsWork
<1>2. ASSUME UNCHANGED <<read, preflight, snapshots>> PROVE Worked'
  BY <1>1, <1>2 DEF Waiting
<1>3. CASE \E r \in Requests :
              \/ \E p \in Paths : Submit(r, p)
              \/ SubmitRefused(r) \/ DeadlinePasses(r) \/ TimesOut(r)
  <2> PICK r \in Requests :
              \/ \E p \in Paths : Submit(r, p)
              \/ SubmitRefused(r) \/ DeadlinePasses(r) \/ TimesOut(r)
    BY <1>3
  <2>1. CASE SubmitRefused(r)
    <3>1. \A q \in Requests : Waiting(q)' => Waiting(q)
      BY <2>1, JobTypes DEF SubmitRefused, Asked, Waiting
    <3> QED BY <1>1, <2>1, <3>1 DEF SubmitRefused
  <2>2. CASE DeadlinePasses(r)
    <3>1. read'[r] = [read[r] EXCEPT !.late = TRUE]
          /\ \A q \in Requests \ {r} : read'[q] = read[q]
      BY <2>2, JobTypes DEF DeadlinePasses
    <3>2. \A q \in Requests : Waiting(q)' => Waiting(q)
      BY <3>1, JobTypes DEF Waiting, ReadType
    <3> QED BY <1>1, <2>2, <3>2 DEF DeadlinePasses
  <2>3. CASE TimesOut(r)
    <3>1. \A q \in Requests : Waiting(q)' => Waiting(q)
      BY <2>3, ReplyWaits DEF TimesOut
    <3> QED BY <1>1, <2>3, <3>1 DEF TimesOut
  <2> QED BY <2>1, <2>2, <2>3, SubmitWorks
<1>4. CASE \E p \in Paths : PreflightStats(p)
  <2> PICK p \in Paths : PreflightStats(p)
    BY <1>4
  <2>1. \A q \in Paths : /\ preflight'[q].reads = preflight[q].reads
                         /\ preflight'[q].on = preflight[q].on
    <3>1. /\ preflight'[p] = [preflight[p] EXCEPT !.sig = disk]
          /\ \A q \in Paths \ {p} : preflight'[q] = preflight[q]
      BY JobTypes DEF PreflightStats
    <3> QED BY <3>1, JobTypes DEF PreflightType
  <2>2. \A r \in Requests : Waiting(r)' => Waiting(r)
    BY DEF PreflightStats, Waiting
  <2> QED BY <2>1, <2>2, SameJobsWork DEF PreflightStats
<1>5. CASE \E p \in Paths : PreflightFails(p) \/ PreflightReturns(p)
  BY <1>5, PreflightFailsWorks, PreflightReturnsWorks
<1>6. CASE \E x \in snapshots : SnapshotReads(x) \/ SnapshotStats(x)
                                \/ SnapshotFails(x) \/ SnapshotReturns(x)
  BY <1>6, SnapshotMovesWorks, SnapshotEndsWorks
<1>7. CASE CacheDrops \/ DiskChanges \/ ShutdownEnds \/ UNCHANGED vars
  BY <1>2, <1>7 DEF CacheDrops, DiskChanges, ShutdownEnds, vars
<1>8. CASE Shutdown
  BY <1>8, ShutdownWorks
<1>9. CASE \E w \in Writers :
              \/ \E e \in 0..disk \union {Nothing} : WriteChecks(w, e)
              \/ WriteLands(w) \/ WriteFails(w) \/ WriteAcks(w)
  BY <1>2, <1>9 DEF WriteChecks, WriteLands, WriteFails, WriteAcks
<1> QED BY <1>3, <1>4, <1>5, <1>6, <1>7, <1>8, <1>9 DEF Next

LEMMA WorkedInit == Init => Worked
<1> SUFFICES ASSUME Init PROVE Worked
  OBVIOUS
<1>1. \A r \in Requests : ~InPreflight(r) /\ ~InSnapshot(r) /\ ~Waiting(r)
  BY NoPreflightFacts DEF Init, InPreflight, InSnapshot, Waiting
<1>2. PreflightsApart /\ SnapshotsApart
  BY NoPreflightFacts DEF Init, PreflightsApart, SnapshotsApart, OneJobPerKey
<1> QED BY <1>1, <1>2 DEF Worked

(* No read is left behind when a job ends, fails or hands its reads on: until *)
(* its deadline it is in one job, and in one only.                            *)
THEOREM ReadsAreWorkedFor == Spec => []WaitingReadsHaveOneJob
<1>1. Worked => WaitingReadsHaveOneJob
  BY DEF Worked, PreflightsApart, SnapshotsApart, InPreflight, InSnapshot,
         WaitingReadsHaveOneJob
<1> QED BY <1>1, WorkedInit, WorkedNext, Invariance, PTL DEF Spec

(* Two workers never read the same version of the file for the same           *)
(* generation of the cache: later readers share the job that runs.            *)
THEOREM SnapshotsAreShared == Spec => []OneJobPerKey
<1>1. Worked => OneJobPerKey
  BY DEF Worked, SnapshotsApart
<1> QED BY <1>1, WorkedInit, WorkedNext, Invariance, PTL DEF Spec
=============================================================================
