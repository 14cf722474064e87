---------------------------- MODULE SteerMailbox ----------------------------
(***************************************************************************)
(* What a run promises about the messages steered into it, with nothing of *)
(* the loop: accepted messages wait in an inbox, are applied in the order  *)
(* they came and all together, and those still waiting when the run is     *)
(* over are reported, once.  What is accepted after the report stays in    *)
(* the inbox.                                                              *)
(***************************************************************************)
EXTENDS Sequences

CONSTANTS Runs, Messages

VARIABLES
  accepted,  \* accepted[r]: the messages Steer answered true for
  inbox,     \* those that wait
  applied,   \* those in the conversation of the run
  reported,  \* those the host was told the run did not apply
  over       \* the runs that have reported

vars == <<accepted, inbox, applied, reported, over>>

Empty == [r \in Runs |-> <<>>]

Init ==
  /\ accepted = Empty /\ inbox = Empty /\ applied = Empty /\ reported = Empty
  /\ over = {}

AppendTo(box, rs, m) ==
  [r \in Runs |-> IF r \in rs THEN Append(box[r], m) ELSE box[r]]

Accept(m, rs) ==
  /\ accepted' = AppendTo(accepted, rs, m)
  /\ inbox' = AppendTo(inbox, rs, m)
  /\ UNCHANGED <<applied, reported, over>>

Apply(r) ==
  /\ r \notin over
  /\ applied' = [applied EXCEPT ![r] = @ \o inbox[r]]
  /\ inbox' = [inbox EXCEPT ![r] = <<>>]
  /\ UNCHANGED <<accepted, reported, over>>

Report(r) ==
  /\ r \notin over
  /\ over' = over \cup {r}
  /\ reported' = [reported EXCEPT ![r] = @ \o inbox[r]]
  /\ inbox' = [inbox EXCEPT ![r] = <<>>]
  /\ UNCHANGED <<accepted, applied>>

Next ==
  \/ \E m \in Messages, rs \in SUBSET Runs : Accept(m, rs)
  \/ \E r \in Runs : Apply(r) \/ Report(r)

Spec == Init /\ [][Next]_vars
=============================================================================
