-------------------------- MODULE CloneTransaction --------------------------
(***************************************************************************)
(* What the clone of a session group promises its user: a clone is opened     *)
(* under a name nobody else holds, ends, and ends as done or as undone, with  *)
(* no way from one to the other; asked to stop before its end, it is undone.  *)
(***************************************************************************)
CONSTANTS
  Runs,  \* clones
  Names, \* names a cloned group may get
  NoName

VARIABLES
  phase, \* of each clone
  name,  \* the name it was opened under
  asked  \* the open clones somebody asked to stop

vars == <<phase, name, asked>>

Phases == {"none", "open", "done", "undone"}

Init ==
  /\ phase = [r \in Runs |-> "none"]
  /\ name = [r \in Runs |-> NoName]
  /\ asked = {}

(* A clone that is open, or done, has its name to itself.                     *)
Held(t) == \E r \in Runs : name[r] = t /\ phase[r] \in {"open", "done"}

(* buildCloneSpec reserves a free name.                                      *)
Open(r, t) ==
  /\ phase[r] = "none"
  /\ ~Held(t)
  /\ phase' = [phase EXCEPT ![r] = "open"]
  /\ name' = [name EXCEPT ![r] = t]
  /\ UNCHANGED asked

(* A request that is not even started.                                       *)
Refuse(r) ==
  /\ phase[r] = "none"
  /\ phase' = [phase EXCEPT ![r] = "undone"]
  /\ UNCHANGED <<name, asked>>

(* handleSessionGroupCloneCancel.                                            *)
Ask(r) ==
  /\ phase[r] = "open"
  /\ asked' = asked \union {r}
  /\ UNCHANGED <<phase, name>>

(* The last assertNotCancelled, and the result.                              *)
Commit(r) ==
  /\ phase[r] = "open"
  /\ r \notin asked
  /\ phase' = [phase EXCEPT ![r] = "done"]
  /\ UNCHANGED <<name, asked>>

(* The end of a failed or cancelled clone, rolled back as far as it could be. *)
Undo(r) ==
  /\ phase[r] = "open"
  /\ phase' = [phase EXCEPT ![r] = "undone"]
  /\ asked' = asked \ {r}
  /\ UNCHANGED name

End(r) == Commit(r) \/ Undo(r)

Next == \E r \in Runs : \/ \E t \in Names : Open(r, t)
                        \/ Refuse(r)
                        \/ Ask(r)
                        \/ End(r)

Safety == Init /\ [][Next]_vars

(* Whatever happens, a clone that was opened ends.                            *)
Spec == Safety /\ \A r \in Runs : WF_vars(End(r))
=============================================================================
