----------------------------- MODULE ToolBatches -----------------------------
(***************************************************************************)
(* partitionToolCalls (pkg/agent/tool_orchestration.go), the order of the  *)
(* batch executor, beside the order of the gate.  "The gate applies the    *)
(* same partition incrementally" (subagent_limits.go:152).                 *)
(***************************************************************************)
EXTENDS ToolTurn, Sequences

\* A batch: whether its calls run side by side, and the calls.
Batch == [safe : BOOLEAN, members : SUBSET Calls]

IsSafe(c) == kind[c] # "exclusive"

\* Mutant: neighbours are joined whatever they declared.
JoinsAny(batches, c) == batches # <<>> /\ batches[Len(batches)].safe

Joins(batches, c) == batches # <<>> /\ batches[Len(batches)].safe /\ IsSafe(c)

AddCall(batches, c) ==
    IF Joins(batches, c)
    THEN [batches EXCEPT ![Len(batches)].members = @ \cup {c}]
    ELSE Append(batches, [safe |-> IsSafe(c), members |-> {c}])

\* The batches after the first i of the calls the gate of the attempt has
\* seen, in the order of emission.
batchesAfter[i \in 0..emitted] ==
    IF i = 0 THEN << >>
    ELSE IF i \in Dispatched(attempt) THEN AddCall(batchesAfter[i - 1], i)
    ELSE batchesAfter[i - 1]

partitionToolCalls == batchesAfter[emitted]

BatchOf(c) == CHOOSE i \in DOMAIN partitionToolCalls : c \in partitionToolCalls[i].members

\* A set of calls with all that its calls wait for.
Closed(S) == \A e \in S : waitFor[e] \subseteq S

\* The calls that c waits for, directly or through those it waits for.
Predecessors(c) ==
    {d \in Calls : \A S \in SUBSET Calls : waitFor[c] \subseteq S /\ Closed(S) => d \in S}

\* The gate and the batch executor agree on the order of the calls of a
\* turn: a call waits for exactly the calls of the batches before its own.
GateIsThePartition ==
    \A c, d \in Dispatched(attempt) :
        d \in Predecessors(c) <=> BatchOf(d) < BatchOf(c)

=============================================================================
