---------------------------- MODULE CommandPromise ----------------------------
(***************************************************************************)
(* What a browser may be told about the commands it sends to a daemon, as  *)
(* shared/ack-protocol.ts sets it out: an acknowledgement, a rejection or  *)
(* a failure that it may answer by sending the command again.              *)
(***************************************************************************)
EXTENDS Naturals

CONSTANT Commands

VARIABLES
  user,    \* what the browser was last told of each command
  sends,   \* how often it has sent the command
  acks,    \* how many command.ack it was given for it
  lapses   \* how often the server forgot that it had given one

promise == <<user, sends, acks, lapses>>

Outcomes == {"unsent", "waiting", "acked", "rejected", "failed"}

Init ==
  /\ user = [c \in Commands |-> "unsent"]
  /\ sends = [c \in Commands |-> 0]
  /\ acks = [c \in Commands |-> 0]
  /\ lapses = [c \in Commands |-> 0]

(* A command is sent, and again as long as it is not accepted or rejected;  *)
(* a daemon known to be offline makes it fail at once.                      *)
Sent(c) ==
  /\ user[c] \in {"unsent", "waiting", "failed"}
  /\ user'[c] \in {"waiting", "failed"}
  /\ sends'[c] = sends[c] + 1
  /\ acks'[c] = acks[c] /\ lapses'[c] = lapses[c]

(* The daemon has the command: by its ack, or by the message it echoes.  A  *)
(* failure may turn out too pessimistic, a rejection too.                   *)
Accepted(c) ==
  /\ user[c] # "unsent"
  /\ user'[c] = "acked"
  /\ acks'[c] \in {acks[c], acks[c] + 1}
  /\ sends'[c] = sends[c] /\ lapses'[c] = lapses[c]

(* The daemon already had the command when this copy of it came.  The       *)
(* rejection may be for a copy of which the browser knows nothing, and      *)
(* comes also after the command is known to be accepted.                    *)
Rejected(c) ==
  /\ user[c] # "unsent"
  /\ user'[c] = "rejected"
  /\ acks'[c] = acks[c] + 1
  /\ sends'[c] = sends[c] /\ lapses'[c] = lapses[c]

(* Only a command still waiting fails, never one known to be accepted.      *)
Failed(c) ==
  /\ user[c] = "waiting"
  /\ user'[c] = "failed"
  /\ acks'[c] = acks[c] /\ sends'[c] = sends[c] /\ lapses'[c] = lapses[c]

(* An acknowledgement is remembered for some minutes only.                  *)
Forgets(c) ==
  /\ acks[c] > 0
  /\ lapses'[c] = lapses[c] + 1
  /\ user'[c] = user[c] /\ sends'[c] = sends[c] /\ acks'[c] = acks[c]

Idle(c) ==
  user'[c] = user[c] /\ sends'[c] = sends[c] /\ acks'[c] = acks[c] /\ lapses'[c] = lapses[c]

(* A command is acknowledged once for each time it is sent, and once more   *)
(* only if the acknowledgement given was forgotten.                         *)
Next ==
  /\ \A c \in Commands :
       Idle(c) \/ Sent(c) \/ Accepted(c) \/ Rejected(c) \/ Failed(c) \/ Forgets(c)
  /\ \A c \in Commands : acks'[c] <= sends'[c] + lapses'[c]

Spec == Init /\ [][Next]_promise
=============================================================================
