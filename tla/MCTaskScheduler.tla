-------------------------- MODULE MCTaskScheduler --------------------------
(* Small instances of TaskScheduler: a schedule is its period.             *)
EXTENDS TaskScheduler, TLC

MCCronNext(s, t) == s * ((t \div s) + 1)

\* The rows of one priority are walked by next_run, tasks that are numbers by
\* their number.
SamePriority == [t \in Tasks |-> 0]
ByNumber == [t \in Tasks |-> t]

Symmetry == Permutations(Tasks) \cup Permutations(RunIds)
=============================================================================
