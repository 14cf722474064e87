----------------------------- MODULE SlotFiring -----------------------------
(***************************************************************************)
(* What the cron scheduler promises of firing, with nothing of how: within *)
(* one life of the process a dated slot of a task is fired at most once,   *)
(* and a task that is being executed is not fired again.  NoSlot is the    *)
(* slot of a task that has no next_run: it may fire again and again, and   *)
(* so may a slot that a user sets again.                                   *)
(***************************************************************************)
CONSTANTS Tasks, NoSlot

VARIABLES
  fired,  \* fired[t]: the slots of t fired in this life
  active  \* the tasks being executed

vars == <<fired, active>>

Init == fired = [t \in Tasks |-> {}] /\ active = {}

FireSlot(t, slot) ==
  /\ t \notin active
  /\ slot = NoSlot \/ slot \notin fired[t]
  /\ fired' = [fired EXCEPT ![t] = @ \cup {slot}]
  /\ active' = active \cup {t}

Finish(t) == active' = active \ {t} /\ UNCHANGED fired

\* A user's update of the task sets it to a slot that was fired.
SetAgain(t, slot) ==
  /\ slot \in fired[t] /\ fired' = [fired EXCEPT ![t] = @ \ {slot}]
  /\ UNCHANGED active

\* Only memory is promised: a new process starts over.
Restart == fired' = [t \in Tasks |-> {}] /\ active' = {}

\* The slot is any value: what a slot is belongs to the implementation.
Next ==
  \/ \E t \in Tasks :
       \/ \E slot \in fired'[t] : FireSlot(t, slot)
       \/ \E slot \in fired[t] : SetAgain(t, slot)
       \/ Finish(t)
  \/ Restart

Spec == Init /\ [][Next]_vars
=============================================================================
