---------------------------- MODULE FreshReads ----------------------------
(***************************************************************************)
(* What reading a file through the daemon promises, without workers, jobs,    *)
(* caches or timers (fs.read and fs.write of src/src/daemon).                 *)
(*                                                                         *)
(* A read that is asked for is answered, once: with an error, or with a       *)
(* version the file has had, and never one older than a write that was        *)
(* acknowledged before the read was asked for.                               *)
(***************************************************************************)
EXTENDS Naturals, Sequences

CONSTANTS Requests   \* the reads

VARIABLES
  disk,    \* the file's version
  acked,   \* the newest version some writer was told of
  floor,   \* for each read, acked at the time it was asked for
  asked,   \* the reads asked for
  out      \* what each read was answered
vars == <<disk, acked, floor, asked, out>>

Failed == [ok |-> FALSE, data |-> 0]
Content(v) == [ok |-> TRUE, data |-> v]

Init ==
  /\ disk = 0
  /\ acked = 0
  /\ floor = [r \in Requests |-> 0]
  /\ asked = {}
  /\ out = [r \in Requests |-> <<>>]

Change ==
  /\ disk' = disk + 1
  /\ UNCHANGED <<acked, floor, asked, out>>

Acknowledge ==
  /\ acked' \in acked..disk
  /\ UNCHANGED <<disk, floor, asked, out>>

(* A read may be turned away, with an error, as soon as it is asked for.      *)
Ask(r) ==
  /\ r \notin asked
  /\ asked' = asked \union {r}
  /\ floor' = [floor EXCEPT ![r] = acked]
  /\ \/ out' = out
     \/ out' = [out EXCEPT ![r] = <<Failed>>]
  /\ UNCHANGED <<disk, acked>>

(* Reads that wait for the same file are answered together.                   *)
Fits(r, a) == a = Failed \/ \E v \in floor[r]..disk : a = Content(v)

Answer(S) ==
  /\ S \subseteq asked
  /\ \A r \in S : out[r] = <<>> /\ Len(out'[r]) = 1 /\ Fits(r, out'[r][1])
  /\ \A r \in Requests \ S : out'[r] = out[r]
  /\ DOMAIN out' = Requests
  /\ UNCHANGED <<disk, acked, floor, asked>>

Next ==
  \/ Change
  \/ Acknowledge
  \/ \E r \in Requests : Ask(r)
  \/ \E S \in SUBSET Requests : Answer(S)

Safety == Init /\ [][Next]_vars

(* Again and again nobody waits; as answers stay, and reads are finitely      *)
(* many, no read waits for ever.                                             *)
Answers == []<>(\A r \in asked : out[r] # <<>>)

Spec == Safety /\ Answers
=============================================================================
