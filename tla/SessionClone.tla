---------------------------- MODULE SessionClone ----------------------------
(***************************************************************************)
(* The clone of a session group by the daemon                                 *)
(* (src/src/daemon/session-group-clone.ts, with the launch and close          *)
(* functions it calls in session-manager.ts, subsession-manager.ts and        *)
(* session-close.ts, and the stores it writes).                               *)
(*                                                                         *)
(* handleSessionGroupCloneCommand reserves a name, resolves directories,      *)
(* launches a main session and its sub-sessions, writes their rows in the     *)
(* server's database and copies the P2P config, looking between the awaits    *)
(* whether somebody cancelled.  Whatever fails, it rolls back what it noted   *)
(* as created.  Several clones may run at once; requests and cancels come at  *)
(* any time.  The main session's row is left out: writes of it nobody awaits  *)
(* may reach the server after those that are awaited, and undo them.          *)
(*                                                                         *)
(* A session "is up" while its process or provider session exists.  Time is   *)
(* not modelled: ten minutes may pass between any two steps.                  *)
(***************************************************************************)
EXTENDS Integers

CONSTANTS
  Runs,    \* operations; each is used once
  Names,   \* names a cloned main session may get
  MaxSubs, \* sub-sessions a source group may have
  Subs,    \* and those the source of each operation may have
  NoName

ASSUME CloneAssumption ==
  /\ MaxSubs \in Nat
  /\ Subs \in [Runs -> 0..MaxSubs]
  /\ NoName \notin Names
  /\ Names \intersect (Runs \X (0..MaxSubs)) = {}

VARIABLES
  run,       \* the operations and what their handlers have in hand
  known,     \* operationsByIdempotencyKey, the operations under way of it
  reserved,  \* activeTargetReservations
  cancelled, \* cancelledOperationIds
  up,        \* the sessions that exist
  store,     \* the sessions with a record in the session store
  rows       \* the sub-sessions with a row in the server's database

vars == <<run, known, reserved, cancelled, up, store, rows>>

(* Member 0 of a clone is its main session, the others its sub-sessions,      *)
(* whose names are fresh.                                                    *)
Members == 0..MaxSubs
Sessions == Names \union (Runs \X Members)

Ending == {"succeeded", "failed", "cancelled", "cleanup_required"}
Building == {"cwd", "main", "subs", "rows", "config"}
Undoing == {"stopSub", "dropSub", "stopProject", "dropMain", "restore"}
Cleanup == {"session", "other"}

RunType == [at : {"new", "end"} \union Building \union Undoing,
            name : Names \union {NoName},
            n : Members, i : Members,
            made : 0..(MaxSubs + 1),
            wrote : BOOLEAN,
            code : {"none", "error", "cancelled"},
            owed : SUBSET Cleanup,
            verdict : Ending \union {"none"}]

TypeOK ==
  /\ run \in [Runs -> RunType]
  /\ known \in SUBSET Runs
  /\ reserved \in SUBSET Names
  /\ cancelled \in SUBSET Runs
  /\ up \in SUBSET Sessions
  /\ store \in SUBSET Sessions
  /\ rows \in SUBSET (Runs \X (1..MaxSubs))

NewRun == [at |-> "new", name |-> NoName, n |-> 0, i |-> 0, made |-> 0,
           wrote |-> FALSE, code |-> "none", owed |-> {}, verdict |-> "none"]

Init ==
  /\ run = [r \in Runs |-> NewRun]
  /\ known = {}
  /\ reserved = {}
  /\ cancelled = {}
  /\ up = {}
  /\ store = {}
  /\ rows = {}

Member(r, i) == IF i = 0 THEN run[r].name ELSE <<r, i>>
Current(r) == Member(r, run[r].i)

(* The row a request is about, if it is one this module keeps.                *)
Row(r) == {<<r, run[r].i>>} \ {<<r, 0>>}

Active(r) == run[r].at \in Building \union Undoing


-----------------------------------------------------------------------------
(* Where a handler goes next.                                                *)

(* The error code of a failure: a cancel outranks what was thrown.            *)
Code(r) == IF r \in cancelled THEN "cancelled" ELSE "error"

(* The catch clause with something created: from the last sub-session back.   *)
Unwound(r, rec) ==
  [rec EXCEPT !.at = IF rec.made > 1 THEN "stopSub" ELSE "stopProject",
              !.i = rec.made - 1,
              !.code = Code(r)]

(* assertNotCancelled after an await.                                        *)
Onward(r, rec) == IF r \in cancelled THEN Unwound(r, rec) ELSE rec

Goto(r, at, i) == [run EXCEPT ![r].at = at, ![r].i = i]

(* The end of the handler: the name is free for others again.                 *)
Release(r) ==
  /\ reserved' = reserved \ {run[r].name}
  /\ cancelled' = cancelled \ {r}
  /\ known' = known \ {r}

(* What is left of an operation when its handler has returned.                *)
Over(rec, verdict) ==
  [NewRun EXCEPT !.at = "end", !.name = rec.name, !.owed = rec.owed,
                 !.n = IF verdict = "succeeded" THEN rec.n ELSE 0,
                 !.verdict = verdict]

Verdict(rec) == IF rec.owed # {} THEN "cleanup_required"
                ELSE IF rec.code = "cancelled" THEN "cancelled" ELSE "failed"

Finished(rec) == Over(rec, Verdict(rec))

(* The catch clause with nothing created.                                    *)
Abandon(r) ==
  /\ run' = [run EXCEPT ![r] = Finished([run[r] EXCEPT !.code = Code(r)])]
  /\ Release(r)

-----------------------------------------------------------------------------
(* Requests and cancels.                                                     *)

(* Every request starts with pruneOperations: a record untouched for ten      *)
(* minutes is forgotten, whether or not its operation is over.  A request     *)
(* whose key is known does no more; it is answered with that operation.       *)
StartKnown(old) ==
  /\ known' = known \ old
  /\ UNCHANGED <<run, reserved, cancelled, up, store, rows>>

(* buildCloneSpec throws before it awaits: no such source, or no such name.   *)
StartRefused(r, old) ==
  /\ run[r].at = "new"
  /\ known' = known \ old
  /\ run' = [run EXCEPT ![r] = Finished([run[r] EXCEPT !.code = "error"])]
  /\ UNCHANGED <<reserved, cancelled, up, store, rows>>

(* Mutant: reservations are not consulted.                                   *)
FreeInTheStore(t) == t \notin store

(* The names the server adds to a request only make it refuse more.           *)
Free(t) == t \notin store /\ t \notin reserved

(* buildCloneSpec up to its first await.                                     *)
StartAccepted(r, t, old) ==
  /\ run[r].at = "new"
  /\ Free(t)
  /\ known' = (known \ old) \union {r}
  /\ run' = [run EXCEPT ![r].at = "cwd", ![r].name = t]
  /\ reserved' = reserved \union {t}
  /\ UNCHANGED <<cancelled, up, store, rows>>

(* handleSessionGroupCloneCancel of a remembered operation that is not over.  *)
Cancel(r) ==
  /\ r \in known
  /\ cancelled' = cancelled \union {r}
  /\ UNCHANGED <<run, known, reserved, up, store, rows>>

-----------------------------------------------------------------------------
(* Building.                                                                 *)

(* Directories are resolved and the source's n active children listed.        *)
CwdResolved(r, n) ==
  /\ run[r].at = "cwd"
  /\ r \notin cancelled
  /\ run' = [run EXCEPT ![r].at = "main", ![r].n = n]
  /\ UNCHANGED <<known, reserved, cancelled, up, store, rows>>

(* A directory is unusable, the main session cannot be launched, or the clone *)
(* was cancelled before that.                                                *)
FailsEarly(r) ==
  /\ run[r].at \in {"cwd", "main"}
  /\ Abandon(r)
  /\ UNCHANGED <<up, store, rows>>

(* Mutant: the last sub-session is left out.                                 *)
AfterLaunchOfAll(rec) == IF rec.made < rec.n
  THEN [rec EXCEPT !.at = "subs", !.i = rec.made]
  ELSE [rec EXCEPT !.at = "rows", !.i = 0]

(* Mutant: the loop goes one too far.                                        *)
AfterLaunchOfOneMore(rec) == IF rec.made <= rec.n + 1
  THEN [rec EXCEPT !.at = "subs", !.i = rec.made]
  ELSE [rec EXCEPT !.at = "rows", !.i = 0]

(* The loop over the sub-sessions, then the one over the rows.                *)
AfterLaunch(rec) == IF rec.made <= rec.n
  THEN [rec EXCEPT !.at = "subs", !.i = rec.made]
  ELSE [rec EXCEPT !.at = "rows", !.i = 0]

(* launchSession or startSubSession, then the patched record is upserted.  A  *)
(* sub-session is synchronised too, which may throw after it is noted.        *)
Launched(r) ==
  /\ run[r].at \in {"main", "subs"}
  /\ up' = up \union {Current(r)}
  /\ store' = store \union {Current(r)}
  /\ LET rec == [run[r] EXCEPT !.made = @ + 1] IN
       \/ run' = [run EXCEPT ![r] = Onward(r, AfterLaunch(rec))]
       \/ /\ run[r].at = "subs"
          /\ run' = [run EXCEPT ![r] = Unwound(r, rec)]
  /\ UNCHANGED <<known, reserved, cancelled, rows>>

(* startSubSession throws, with nothing noted.                                *)
SubFails(r) ==
  /\ run[r].at = "subs"
  /\ run' = [run EXCEPT ![r] = Unwound(r, run[r])]
  /\ UNCHANGED <<known, reserved, cancelled, up, store, rows>>

(* Cancels are looked at when all rows are written.                          *)
AfterRow(r, rec) == IF rec.i < rec.n
  THEN [rec EXCEPT !.i = rec.i + 1]
  ELSE Onward(r, [rec EXCEPT !.at = "config"])

(* persistSessionRecordAwaited of one member.                                *)
RowWritten(r) ==
  /\ run[r].at = "rows"
  /\ rows' = rows \union Row(r)
  /\ run' = [run EXCEPT ![r] = AfterRow(r, run[r])]
  /\ UNCHANGED <<known, reserved, cancelled, up, store>>

(* The request fails; the server may have written the row all the same.       *)
RowRefused(r) ==
  /\ run[r].at = "rows"
  /\ rows' \in {rows, rows \union Row(r)}
  /\ run' = [run EXCEPT ![r] = Unwound(r, run[r])]
  /\ UNCHANGED <<known, reserved, cancelled, up, store>>

(* Mutant: nobody looks for a cancel after the config is copied.              *)
CommitsAnyway(r) == TRUE

(* The last assertNotCancelled: nothing is awaited between it and the result. *)
Commits(r) == r \notin cancelled

(* copyDaemonLocalP2pConfig, with or without a config to copy.                *)
ConfigCopied(r) ==
  /\ run[r].at = "config"
  /\ run' = [run EXCEPT ![r] = IF Commits(r) THEN Over(run[r], "succeeded")
                               ELSE Unwound(r, [run[r] EXCEPT !.wrote = TRUE])]
  /\ IF Commits(r) THEN Release(r) ELSE UNCHANGED <<reserved, cancelled, known>>
  /\ UNCHANGED <<up, store, rows>>

(* The file of configs cannot be read or written.  The rollback is not told,  *)
(* though the copy may be in memory already.                                 *)
ConfigFails(r) ==
  /\ run[r].at = "config"
  /\ run' = [run EXCEPT ![r] = Unwound(r, run[r])]
  /\ UNCHANGED <<known, reserved, cancelled, up, store, rows>>

-----------------------------------------------------------------------------
(* Rolling back.                                                             *)

(* stopSubSession, then removeSession.  A close that fails is returned and    *)
(* not thrown, and the result is not looked at.                              *)
SubStopped(r) ==
  /\ run[r].at = "stopSub"
  /\ up' \in {up, up \ {Current(r)}}
  /\ store' = store \ {Current(r)}
  /\ run' = Goto(r, "dropSub", run[r].i)
  /\ UNCHANGED <<known, reserved, cancelled, rows>>

AfterSub(rec) == IF rec.i > 1
  THEN [rec EXCEPT !.at = "stopSub", !.i = rec.i - 1]
  ELSE [rec EXCEPT !.at = "stopProject", !.i = 0]

(* A row is deleted; or the request fails, with or without effect, and the    *)
(* row is listed for cleaning up.                                            *)
RowDropped(r, ok) ==
  rows' \in IF ok THEN {rows \ Row(r)} ELSE {rows, rows \ Row(r)}

Noted(rec, ok) == IF ok THEN rec ELSE [rec EXCEPT !.owed = rec.owed \union {"other"}]

SubDropped(r, ok) ==
  /\ run[r].at = "dropSub"
  /\ RowDropped(r, ok)
  /\ run' = [run EXCEPT ![r] = AfterSub(Noted(run[r], ok))]
  /\ UNCHANGED <<known, reserved, cancelled, up, store>>

(* Mutant: the result of stopProject is ignored, as stopSubSession's is.      *)
OwedUnseen(ok) == {}

OwedAfterStop(ok) == IF ok THEN {} ELSE {"session"}

(* stopProject, then removeSession.  A main session that does not close is   *)
(* listed for cleaning up.                                                   *)
ProjectStopped(r, ok) ==
  /\ run[r].at = "stopProject"
  /\ IF ok THEN up' = up \ {Current(r)} ELSE up' \in {up, up \ {Current(r)}}
  /\ store' = store \ {Current(r)}
  /\ run' = [run EXCEPT ![r].at = "dropMain",
                        ![r].owed = @ \union OwedAfterStop(ok)]
  /\ UNCHANGED <<known, reserved, cancelled, rows>>

(* Without a config to restore the handler ends here.                         *)
MainDropped(r, ok) ==
  /\ run[r].at = "dropMain"
  /\ RowDropped(r, ok)
  /\ IF run[r].wrote
       THEN /\ run' = [run EXCEPT ![r] = [Noted(run[r], ok) EXCEPT !.at = "restore"]]
            /\ UNCHANGED <<reserved, cancelled, known>>
       ELSE /\ run' = [run EXCEPT ![r] = Finished(Noted(run[r], ok))]
            /\ Release(r)
  /\ UNCHANGED <<up, store>>

(* The config the name had comes back, or it is removed; the file may refuse. *)
ConfigRestored(r, ok) ==
  /\ run[r].at = "restore"
  /\ run' = [run EXCEPT ![r] = Finished(Noted(run[r], ok))]
  /\ Release(r)
  /\ UNCHANGED <<up, store, rows>>

-----------------------------------------------------------------------------
(* What the handler of an operation does next.                               *)
Step(r) ==
  \/ \E n \in 0..Subs[r] : CwdResolved(r, n)
  \/ FailsEarly(r)
  \/ Launched(r)
  \/ SubFails(r)
  \/ RowWritten(r)
  \/ RowRefused(r)
  \/ ConfigCopied(r)
  \/ ConfigFails(r)
  \/ SubStopped(r)
  \/ \E ok \in BOOLEAN : \/ SubDropped(r, ok)
                         \/ ProjectStopped(r, ok)
                         \/ MainDropped(r, ok)
                         \/ ConfigRestored(r, ok)

Next ==
  \/ \E old \in SUBSET known :
       \/ StartKnown(old)
       \/ \E r \in Runs : \/ StartRefused(r, old)
                          \/ \E t \in Names : StartAccepted(r, t, old)
  \/ \E r \in Runs : Cancel(r)
  \/ \E r \in Runs : Step(r)

Spec == Init /\ [][Next]_vars

(* Launches and requests end.                                                *)
FairSpec == Spec /\ \A r \in Runs : WF_vars(Step(r))

-----------------------------------------------------------------------------
(* Correctness.                                                              *)

(* A clone under way, or done.                                               *)
Holds(r) == Active(r) \/ run[r].verdict = "succeeded"

(* No two clones have the same name, from the check of it to the end, though  *)
(* names are free again after a rollback and requests come while others       *)
(* await; and the reservations are those of the clones under way.             *)
OneOwnerPerName ==
  /\ \A r, s \in Runs : Holds(r) /\ Holds(s) /\ run[r].name = run[s].name
                        => r = s
  /\ reserved = {run[r].name : r \in {q \in Runs : Active(q)}}

(* A clone that reported success has all its sessions, in the store as in     *)
(* fact, and every sub-session has its row, whatever other clones undo.       *)
SuccessIsWhole ==
  \A r \in Runs : run[r].verdict = "succeeded" =>
    \A i \in 0..run[r].n :
      /\ Member(r, i) \in up \intersect store
      /\ i > 0 => Member(r, i) \in rows

(* A main session that exists belongs to a clone under way or done, or is on  *)
(* the list of a clone that ended with cleanup required.                      *)
LeftoversAreOwed ==
  \A t \in Names \intersect up : \E r \in Runs :
    /\ run[r].name = t
    /\ Holds(r) \/ "session" \in run[r].owed

(* A clone is opened, then done or undone, as CloneTransaction says: it never *)
(* succeeds after a cancel was taken, and it ends.                            *)
Promise == INSTANCE CloneTransaction WITH
  phase <- [r \in Runs |->
    IF run[r].at = "new" THEN "none"
    ELSE IF Active(r) THEN "open"
    ELSE IF run[r].verdict = "succeeded" THEN "done" ELSE "undone"],
  name  <- [r \in Runs |-> run[r].name],
  asked <- cancelled
KeepsTheTransaction == Promise!Spec

(* A clone that failed or was cancelled, and says that nothing needs cleaning *)
(* up, has left no session behind.                                           *)
NothingRunsOn ==
  \A r \in Runs : run[r].verdict \in {"failed", "cancelled"} =>
    \A i \in 1..MaxSubs : Member(r, i) \notin up
=============================================================================
