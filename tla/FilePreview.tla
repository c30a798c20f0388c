---------------------------- MODULE FilePreview ----------------------------
(***************************************************************************)
(* fs.read and fs.write of the daemon for one file                            *)
(* (src/src/daemon/file-preview-read-coordinator.ts with its fan-out, cache,  *)
(* drain and worker modules, and handleFsWrite of command-handler.ts).        *)
(*                                                                         *)
(* A read joins the preflight job of the path it names, or starts one; when   *)
(* the worker has resolved and stat'ed the file the reads of the job join a   *)
(* snapshot job, or start one, or are served from the cache.  A worker reads  *)
(* the contents and stats the file again.  Every read has a deadline timer.   *)
(* Meanwhile the file is written, by fs.write or by anybody.                  *)
(*                                                                         *)
(* Contents are version numbers, and two versions never have the same         *)
(* signature (mtime and size).  All paths name the one file.  A job gets what *)
(* PoolPromise says of dispatch: it is refused, answered or rejected.         *)
(***************************************************************************)
EXTENDS Integers, FiniteSets, Sequences

CONSTANTS
  Requests,    \* reads, each with a requestId of its own
  Paths,       \* names of the file
  Writers,     \* fs.write commands
  AttachedCap, \* reads one job may serve
  MaxVersion   \* a bound on the changes of the file

ASSUME PreviewAssumption ==
  /\ IsFiniteSet(Requests)
  /\ AttachedCap \in Nat \ {0}
  /\ MaxVersion \in Nat

VARIABLES
  disk,      \* the version of the file
  acked,     \* the newest version an fs.write reported as written
  writer,    \* the fs.write commands
  gen,       \* the generation of the file in the cache
  entry,     \* its cache entry
  read,      \* the reads
  preflight, \* the preflight job of each path
  snapshots, \* the snapshot jobs
  closing    \* the pool is being shut down

vars == <<disk, acked, writer, gen, entry, read, preflight, snapshots, closing>>

Nothing == -1
Versions == 0..MaxVersion
Seen == Versions \union {Nothing}

Failed == [ok |-> FALSE, data |-> 0]
Content(v) == [ok |-> TRUE, data |-> v]
Answers == [ok : BOOLEAN, data : Versions]

ReadType == [at : {"new", "open", "closed"}, late : BOOLEAN,
             floor : Versions, out : Seq(Answers)]
WriterType == [at : {"new", "writing", "written", "done"},
               expected : Seen, version : Versions]
JobReads == {S \in SUBSET Requests : Cardinality(S) <= AttachedCap}
PreflightType == [on : BOOLEAN, reads : JobReads, sig : Seen]
SnapshotType == [sig : Versions, gen : Nat, reads : JobReads,
                 data : Seen, end : Seen]
EntryType == [sig : Seen, data : Seen, gen : Nat]

TypeOK ==
  /\ disk \in Versions
  /\ acked \in Versions
  /\ writer \in [Writers -> WriterType]
  /\ gen \in Nat
  /\ entry \in EntryType
  /\ read \in [Requests -> ReadType]
  /\ preflight \in [Paths -> PreflightType]
  /\ snapshots \in SUBSET SnapshotType
  /\ closing \in BOOLEAN

NoPreflight == [on |-> FALSE, reads |-> {}, sig |-> Nothing]
NoEntry == [sig |-> Nothing, data |-> Nothing, gen |-> 0]

Idle == [at |-> "new", expected |-> Nothing, version |-> 0]
Done == [at |-> "done", expected |-> Nothing, version |-> 0]

Init ==
  /\ disk = 0
  /\ acked = 0
  /\ writer = [w \in Writers |-> Idle]
  /\ gen = 0
  /\ entry = NoEntry
  /\ read = [r \in Requests |-> [at |-> "new", late |-> FALSE, floor |-> 0,
                                 out |-> <<>>]]
  /\ preflight = [p \in Paths |-> NoPreflight]
  /\ snapshots = {}
  /\ closing = FALSE

-----------------------------------------------------------------------------
(* Answering.                                                                *)

(* Mutant: the reads of a job that were answered meanwhile are not left out.  *)
OnTimeOrNot(S) == {r \in S : ~read[r].late}

(* Of the reads of a job those that still wait, and whose deadline has not    *)
(* passed; the others were answered, or their timer is about to.              *)
OnTime(S) == {r \in S : read[r].at = "open" /\ ~read[r].late}

(* fanout.sendTerminal and forceTerminal, to several reads.                   *)
Reply(S, a) ==
  [r \in Requests |-> IF r \in S
     THEN [read[r] EXCEPT !.at = "closed", !.late = FALSE,
                          !.out = Append(@, a)]
     ELSE read[r]]

(* finishJobWithError and finishJobWithWorkerError.                           *)
FailJob(S) == read' = Reply(OnTime(S), Failed)

-----------------------------------------------------------------------------
(* Reads.                                                                    *)

Asked(r, answers) ==
  [read EXCEPT ![r] = [at |-> IF answers = <<>> THEN "open" ELSE "closed",
                       late |-> FALSE, floor |-> acked, out |-> answers]]

(* submit, refused: the path is invalid, the queue is long, or the job the    *)
(* read would join is full, or the pool takes no job.                         *)
SubmitRefused(r) ==
  /\ read[r].at = "new"
  /\ read' = Asked(r, <<Failed>>)
  /\ UNCHANGED <<disk, acked, writer, gen, entry, preflight, snapshots, closing>>

(* Mutant: one read too many.                                                *)
HasRoomForOneMore(S) == Cardinality(S) <= AttachedCap

(* Room in a job for one read more.                                           *)
HasRoom(S) == Cardinality(S) < AttachedCap

(* submit and attachToPreflight.                                             *)
Submit(r, p) ==
  /\ read[r].at = "new"
  /\ read' = Asked(r, <<>>)
  /\ \/ /\ preflight[p].on
        /\ HasRoom(preflight[p].reads)
        /\ preflight' = [preflight EXCEPT ![p].reads = @ \union {r}]
     \/ /\ ~preflight[p].on
        /\ ~closing
        /\ preflight' = [preflight EXCEPT ![p] = [on |-> TRUE, reads |-> {r},
                                                  sig |-> Nothing]]
  /\ UNCHANGED <<disk, acked, writer, gen, entry, snapshots, closing>>

(* The worker resolves, checks and stats the file.                           *)
PreflightStats(p) ==
  /\ preflight[p].on
  /\ preflight[p].sig = Nothing
  /\ preflight' = [preflight EXCEPT ![p].sig = disk]
  /\ UNCHANGED <<disk, acked, writer, gen, entry, read, snapshots, closing>>

(* runPreflight, when the job was rejected or the worker reports an error.    *)
PreflightFails(p) ==
  /\ preflight[p].on
  /\ FailJob(preflight[p].reads)
  /\ preflight' = [preflight EXCEPT ![p] = NoPreflight]
  /\ UNCHANGED <<disk, acked, writer, gen, entry, snapshots, closing>>

(* getCached: the signature and the generation must both be the present ones. *)
Hit(sig) == entry.sig = sig /\ entry.gen = gen

(* Mutant: the key is the signature, as if every write were seen by it.       *)
SameSignature(x, sig) == x.sig = sig

(* makeSnapshotKey.                                                          *)
SameKey(x, sig) == x.sig = sig /\ x.gen = gen

(* Mutant: the reads that start a job are not among those it answers.         *)
NewSnapshotUnattached(sig, S) == [sig |-> sig, gen |-> gen, reads |-> {},
                                  data |-> Nothing, end |-> Nothing]

NewSnapshot(sig, S) == [sig |-> sig, gen |-> gen, reads |-> S,
                        data |-> Nothing, end |-> Nothing]

(* runPreflight's loop and attachToSnapshot: a read whose deadline has passed *)
(* is left to its timer.                                                     *)
PreflightReturns(p) ==
  LET sig == preflight[p].sig
      ready == OnTime(preflight[p].reads)
  IN /\ sig # Nothing
     /\ preflight' = [preflight EXCEPT ![p] = NoPreflight]
     /\ \/ (* served from the cache *)
           /\ Hit(sig)
           /\ read' = Reply(ready, Content(entry.data))
           /\ UNCHANGED snapshots
        \/ (* attached to a running snapshot job, as far as it has room *)
           \E x \in snapshots, A \in SUBSET ready :
             /\ ~Hit(sig)
             /\ SameKey(x, sig)
             /\ Cardinality(x.reads \union A) <= AttachedCap
             /\ A = ready \/ Cardinality(x.reads \union A) = AttachedCap
             /\ read' = Reply(ready \ A, Failed)
             /\ snapshots' = (snapshots \ {x})
                             \union {[x EXCEPT !.reads = @ \union A]}
        \/ (* a snapshot job of their own; one nobody waits for is not run *)
           /\ ~Hit(sig)
           /\ \A x \in snapshots : ~SameKey(x, sig)
           /\ snapshots' = IF ready = {} THEN snapshots
                           ELSE snapshots \union {NewSnapshot(sig, ready)}
           /\ UNCHANGED read
     /\ UNCHANGED <<disk, acked, writer, gen, entry, closing>>

(* The worker reads the file, and stats it again.                             *)
SnapshotReads(x) ==
  /\ x.data = Nothing
  /\ snapshots' = (snapshots \ {x}) \union {[x EXCEPT !.data = disk]}
  /\ UNCHANGED <<disk, acked, writer, gen, entry, read, preflight, closing>>

SnapshotStats(x) ==
  /\ x.data # Nothing
  /\ x.end = Nothing
  /\ snapshots' = (snapshots \ {x}) \union {[x EXCEPT !.end = disk]}
  /\ UNCHANGED <<disk, acked, writer, gen, entry, read, preflight, closing>>

(* runSnapshot, when the job was rejected or the worker reports an error.     *)
SnapshotFails(x) ==
  /\ FailJob(x.reads)
  /\ snapshots' = snapshots \ {x}
  /\ UNCHANGED <<disk, acked, writer, gen, entry, preflight, closing>>

(* Mutant: the snapshot is kept under the generation of the day.              *)
WritebackAnyway(x) == [sig |-> x.sig, data |-> x.data, gen |-> gen]

(* isWritebackEligible and writeSnapshot: nothing is kept across a write.     *)
Writeback(x) ==
  IF x.gen = gen THEN [sig |-> x.sig, data |-> x.data, gen |-> x.gen] ELSE entry

SnapshotReturns(x) ==
  /\ x.end # Nothing
  /\ snapshots' = snapshots \ {x}
  /\ \/ /\ x.end # x.sig
        /\ FailJob(x.reads)
        /\ UNCHANGED entry
     \/ /\ x.end = x.sig
        /\ read' = Reply(OnTime(x.reads), Content(x.data))
        /\ entry' = IF OnTime(x.reads) = {} THEN entry ELSE Writeback(x)
  /\ UNCHANGED <<disk, acked, writer, gen, preflight, closing>>

(* The TTL, and eviction for the sake of other files.                         *)
CacheDrops ==
  /\ entry # NoEntry
  /\ entry' = NoEntry
  /\ UNCHANGED <<disk, acked, writer, gen, read, preflight, snapshots, closing>>

DeadlinePasses(r) ==
  /\ read[r].at = "open"
  /\ ~read[r].late
  /\ read' = [read EXCEPT ![r].late = TRUE]
  /\ UNCHANGED <<disk, acked, writer, gen, entry, preflight, snapshots, closing>>

(* Mutant: the timer leaves a read to the job that still works for it.        *)
TimesOutUnlessAttached(r) ==
  /\ read[r].at = "open"
  /\ read[r].late
  /\ \A p \in Paths : r \notin preflight[p].reads
  /\ read' = Reply({r}, Failed)
  /\ UNCHANGED <<disk, acked, writer, gen, entry, preflight, snapshots, closing>>

(* fanout.timeoutRecord.                                                     *)
TimesOut(r) ==
  /\ read[r].at = "open"
  /\ read[r].late
  /\ read' = Reply({r}, Failed)
  /\ UNCHANGED <<disk, acked, writer, gen, entry, preflight, snapshots, closing>>

(* shutdown: every open read is answered, then the pool rejects every job.    *)
Shutdown ==
  /\ ~closing
  /\ closing' = TRUE
  /\ read' = Reply({r \in Requests : read[r].at = "open"}, Failed)
  /\ preflight' = [p \in Paths |-> NoPreflight]
  /\ snapshots' = {}
  /\ UNCHANGED <<disk, acked, writer, gen, entry>>

ShutdownEnds ==
  /\ closing
  /\ closing' = FALSE
  /\ UNCHANGED <<disk, acked, writer, gen, entry, read, preflight, snapshots>>

-----------------------------------------------------------------------------
(* Writes.                                                                   *)

(* handleFsWrite up to the write: the version asked for must be on disk.      *)
WriteChecks(w, e) ==
  /\ writer[w].at = "new"
  /\ writer' = [writer EXCEPT ![w] =
       IF e \in {Nothing, disk} THEN [@ EXCEPT !.expected = e, !.at = "writing"]
       ELSE Done]
  /\ UNCHANGED <<disk, acked, gen, entry, read, preflight, snapshots, closing>>

(* fsWriteFile succeeds.                                                     *)
WriteLands(w) ==
  /\ writer[w].at = "writing"
  /\ disk < MaxVersion
  /\ disk' = disk + 1
  /\ writer' = [writer EXCEPT ![w].at = "written", ![w].version = disk + 1]
  /\ UNCHANGED <<acked, gen, entry, read, preflight, snapshots, closing>>

(* It fails, possibly after it changed the file: nothing is invalidated.      *)
WriteFails(w) ==
  /\ writer[w].at = "writing"
  /\ disk' \in {disk, disk + 1} \intersect Versions
  /\ writer' = [writer EXCEPT ![w] = Done]
  /\ UNCHANGED <<acked, gen, entry, read, preflight, snapshots, closing>>

(* invalidateGitCachesForPath, invalidatePath, and the answer.                *)
WriteAcks(w) ==
  /\ writer[w].at = "written"
  /\ writer' = [writer EXCEPT ![w] = Done]
  /\ acked' = IF writer[w].version > acked THEN writer[w].version ELSE acked
  /\ gen' = gen + 1
  /\ entry' = NoEntry
  /\ UNCHANGED <<disk, read, preflight, snapshots, closing>>

(* Anybody else writes the file; also the truncation fsWriteFile begins with. *)
DiskChanges ==
  /\ disk < MaxVersion
  /\ disk' = disk + 1
  /\ UNCHANGED <<acked, writer, gen, entry, read, preflight, snapshots, closing>>

-----------------------------------------------------------------------------
Next ==
  \/ \E r \in Requests :
       \/ \E p \in Paths : Submit(r, p)
       \/ SubmitRefused(r) \/ DeadlinePasses(r) \/ TimesOut(r)
  \/ \E p \in Paths : PreflightStats(p) \/ PreflightFails(p) \/ PreflightReturns(p)
  \/ \E x \in snapshots : SnapshotReads(x) \/ SnapshotStats(x)
                          \/ SnapshotFails(x) \/ SnapshotReturns(x)
  \/ CacheDrops
  \/ \E w \in Writers :
       \/ \E e \in 0..disk \union {Nothing} : WriteChecks(w, e)
       \/ WriteLands(w) \/ WriteFails(w) \/ WriteAcks(w)
  \/ DiskChanges
  \/ Shutdown \/ ShutdownEnds

Spec == Init /\ [][Next]_vars

(* Only timers must fire: no worker, and no writer, ever has to come back.    *)
Fairness == \A r \in Requests : WF_vars(DeadlinePasses(r) \/ TimesOut(r))
FairSpec == Spec /\ Fairness

-----------------------------------------------------------------------------
(* Properties.                                                               *)

(* A read asked for after an fs.write was acknowledged never shows contents   *)
(* from before that write, although it may join a preflight that stat'ed the  *)
(* file before the write.  Anybody else's writes have no such guarantee.      *)
ReadYourWrites ==
  \A r \in Requests : \A i \in DOMAIN read[r].out :
    read[r].out[i].ok => read[r].floor <= read[r].out[i].data

(* However a read comes to its end (its job, its deadline, a full job, the    *)
(* shutdown), it gets one answer.                                            *)
AnsweredOnce ==
  \A r \in Requests : Len(read[r].out) = IF read[r].at = "closed" THEN 1 ELSE 0

(* The cache never holds contents older than an acknowledged write, nor any   *)
(* under another version's signature: a snapshot that was under way when the  *)
(* file was written is not put back.                                         *)
CacheIsFresh ==
  entry # NoEntry => /\ entry.sig = entry.data
                     /\ acked <= entry.data
                     /\ entry.gen = gen

(* A read whose deadline is still to come is in one running job, and in one   *)
(* only: nothing that ends a job, or moves its reads to another one, leaves a *)
(* read behind for its timer, or leaves it to two answers.                    *)
Waiting(r) == read[r].at = "open" /\ ~read[r].late

WaitingReadsHaveOneJob ==
  \A r \in Requests :
    /\ Waiting(r) => \/ \E p \in Paths : r \in preflight[p].reads
                     \/ \E x \in snapshots : r \in x.reads
    /\ \A p \in Paths, x \in snapshots :
         r \notin preflight[p].reads \intersect x.reads
    /\ \A p, q \in Paths :
         r \in preflight[p].reads \intersect preflight[q].reads => p = q
    /\ \A x, y \in snapshots : r \in x.reads \intersect y.reads => x = y

(* fs.read promises what FreshReads says: each read is answered, once, and    *)
(* with contents that are recent enough, though no worker need come back.     *)
Reading == INSTANCE FreshReads WITH
  floor <- [r \in Requests |-> read[r].floor],
  asked <- {r \in Requests : read[r].at # "new"},
  out   <- [r \in Requests |-> read[r].out]
ServesFreshReads == Reading!Spec
=============================================================================
