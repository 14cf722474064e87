---------------------------- MODULE Conversation ----------------------------
(***************************************************************************)
(* What the stored history of a session promises to those who write to it: *)
(* it only grows, and what one writer adds is in it at most once and in    *)
(* the order in which that writer said it.  A writer that does not know    *)
(* the history may put another in its place, which has all that it said    *)
(* itself.                                                                 *)
(***************************************************************************)
EXTENDS Naturals, Sequences

CONSTANTS
  Beginnings,  \* the histories a session may have had before
  Writers

VARIABLES
  log,       \* the turns stored, each with who wrote it (by) and its number (n)
  overwrote  \* who has put another history in the place of the one stored

\* The turns in s of the writer of m all come before m.
ComesAfter(m, s) == \A i \in DOMAIN s : s[i].by = m.by => s[i].n < m.n

\* The turns of each writer are in their order, and none is there twice.
InOrder(s) == \A i, j \in DOMAIN s : i < j /\ s[i].by = s[j].by => s[i].n < s[j].n

Init == log \in Beginnings /\ overwrote = << >>

\* A save adds any number of turns.
Save ==
  /\ Len(log) <= Len(log')
  /\ log = SubSeq(log', 1, Len(log))
  /\ \A i \in (Len(log) + 1)..Len(log') : ComesAfter(log'[i], SubSeq(log', 1, i - 1))
  /\ UNCHANGED overwrote

Overwrite(c) ==
  /\ overwrote' = Append(overwrote, c)
  /\ InOrder(log')
  /\ \A i \in DOMAIN log : log[i].by = c => \E j \in DOMAIN log' : log'[j] = log[i]

Next == Save \/ \E c \in Writers : Overwrite(c)

Spec == Init /\ [][Next]_<<log, overwrote>>
=============================================================================
