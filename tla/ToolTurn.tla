------------------------------ MODULE ToolTurn ------------------------------
(***************************************************************************)
(* The tool calls of one streamed turn of the agent loop                   *)
(* (pkg/agent/runtime.go, runtime_tool_adapter.go, subagent_limits.go).    *)
(*                                                                         *)
(* The model streams its calls; each is admitted to the gate of the        *)
(* attempt in the order it was emitted and gets a goroutine, which waits   *)
(* for its predecessors, takes a slot if it is a sub-agent, executes,      *)
(* reports and lets its successors start.  An attempt that fails is        *)
(* repeated with a new collector and a new gate.  When the stream is over  *)
(* the loop collects the results; when the run is over it closes the       *)
(* channel every goroutine reports to.                                     *)
(*                                                                         *)
(* Calls are numbered in the order of emission, over all attempts.         *)
(***************************************************************************)
EXTENDS Naturals, FiniteSets

CONSTANTS MaxCalls,      \* bound: calls a turn emits
          MaxAttempts,   \* LLM retries and token escalations, plus one
          MaxParallel    \* SubagentMaxParallel

ASSUME BoundsAssumption ==
    MaxCalls \in Nat /\ MaxAttempts \in Nat \ {0} /\ MaxParallel \in Nat \ {0}

VARIABLES
    \* the loop: where the turn is, which attempt, how many calls were
    \* emitted, whether the run's context is over
    turn, attempt, emitted, cancelled,
    \* the calls: what each declared, its attempt, the done channels its
    \* ticket waits for, where its goroutine is
    kind, att, waitFor, phase,
    \* the gate of the attempt: lastExclusive, sinceExclusive; the tickets
    \* that hold a slot of their gate
    last, since, holding,
    \* the collector: results sent, calls answered without being executed
    results, collapsed,
    \* the process died of a send on the closed channel
    crashed

loop  == <<turn, attempt, emitted, cancelled>>
calls == <<kind, att, waitFor, phase>>
gate  == <<last, since, holding>>
vars  == <<loop, calls, gate, results, collapsed, crashed>>

Calls  == 1..MaxCalls
Kinds  == {"exclusive", "safe", "sub", "repeat"}
Phases == {"none", "waiting", "running", "refused", "reported", "finished"}
NoCall == 0

Init ==
    /\ turn = "streaming" /\ attempt = 1 /\ emitted = 0 /\ cancelled = FALSE
    /\ kind = [c \in Calls |-> "safe"]
    /\ att = [c \in Calls |-> 0]
    /\ waitFor = [c \in Calls |-> {}]
    /\ phase = [c \in Calls |-> "none"]
    /\ last = NoCall /\ since = {} /\ holding = {}
    /\ results = [c \in Calls |-> 0]
    /\ collapsed = {}
    /\ crashed = FALSE

\* The calls of attempt a.
Of(a) == {c \in Calls : att[c] = a}

\* What a send on the event channel does to the process.
Emits == crashed' = (turn = "ended")

-----------------------------------------------------------------------------
(* The stream.                                                             *)

\* Mutant: an exclusive call waits for the exclusive one before it only.
WaitsForLastOnly(k) == {last} \ {NoCall}

\* The done channels a new ticket of kind k waits for.
WaitSet(k) == IF k = "exclusive" THEN since \cup ({last} \ {NoCall}) ELSE {last} \ {NoCall}

\* OnToolCall: a read-only call that was made before is answered at once,
\* any other is admitted and its goroutine started.
Emit(k) ==
    LET c == emitted + 1 IN
    /\ turn = "streaming" /\ emitted < MaxCalls
    /\ emitted' = c
    /\ kind' = [kind EXCEPT ![c] = k]
    /\ att' = [att EXCEPT ![c] = attempt]
    /\ \/ /\ k = "repeat"
          /\ \E d \in Of(attempt) : kind[d] = "safe"
          /\ collapsed' = collapsed \cup {c}
          /\ UNCHANGED <<waitFor, phase, last, since>>
       \/ /\ k # "repeat"
          /\ waitFor' = [waitFor EXCEPT ![c] = WaitSet(k)]
          /\ phase' = [phase EXCEPT ![c] = "waiting"]
          /\ IF k = "exclusive" THEN last' = c /\ since' = {}
                                ELSE since' = since \cup {c} /\ UNCHANGED last
          /\ UNCHANGED collapsed
    /\ UNCHANGED <<turn, attempt, cancelled, holding, results, crashed>>

\* The provider's answer is whole: the loop collects.
StreamSucceeds ==
    /\ turn = "streaming" /\ turn' = "collecting"
    /\ UNCHANGED <<attempt, emitted, cancelled, calls, gate, results, collapsed, crashed>>

\* A transient failure, or an answer cut off by its budget of tokens: a new
\* attempt with a new collector and a new gate.
StreamIsRetried ==
    /\ turn = "streaming" /\ ~cancelled /\ attempt < MaxAttempts
    /\ attempt' = attempt + 1
    /\ last' = NoCall /\ since' = {} /\ collapsed' = {}
    /\ UNCHANGED <<turn, emitted, cancelled, calls, holding, results, crashed>>

\* task_complete or task_blocked was in the stream.
StreamIsTerminal ==
    /\ turn = "streaming" /\ turn' = "terminal"
    /\ UNCHANGED <<attempt, emitted, cancelled, calls, gate, results, collapsed, crashed>>

\* An error no retry is left for, a cancelled run, the end of the budget of
\* tokens: the run ends here, and closes the channel.
StreamEndsTheRun ==
    /\ turn = "streaming" /\ turn' = "ended"
    /\ UNCHANGED <<attempt, emitted, cancelled, calls, gate, results, collapsed, crashed>>

Cancel ==
    /\ ~cancelled /\ turn # "ended" /\ cancelled' = TRUE
    /\ UNCHANGED <<turn, attempt, emitted, calls, gate, results, collapsed, crashed>>

-----------------------------------------------------------------------------
(* The goroutine of a call: executeGatedAsyncTool.                         *)

Ready(c) == \A d \in waitFor[c] : phase[d] = "finished"

SlotFree(a) == Cardinality({d \in holding : att[d] = a}) < MaxParallel

\* wait returns nil.  A select with both cases ready takes either, so that a
\* run that is over does not stop a call whose predecessors are done.
Begin(c) ==
    /\ phase[c] = "waiting" /\ Ready(c)
    /\ IF kind[c] = "sub" THEN SlotFree(att[c]) /\ holding' = holding \cup {c}
                          ELSE UNCHANGED holding
    /\ phase' = [phase EXCEPT ![c] = "running"]
    /\ Emits
    /\ UNCHANGED <<loop, kind, att, waitFor, last, since, results, collapsed>>

\* wait returns the context's error: the call is answered and not started.
Refuse(c) ==
    /\ phase[c] = "waiting" /\ cancelled
    /\ phase' = [phase EXCEPT ![c] = "refused"]
    /\ UNCHANGED <<loop, kind, att, waitFor, gate, results, collapsed, crashed>>

\* The execution is over (or was refused): events, result, wg.Done.
Report(c) ==
    /\ phase[c] \in {"running", "refused"}
    /\ phase' = [phase EXCEPT ![c] = "reported"]
    /\ results' = [results EXCEPT ![c] = @ + 1]
    /\ Emits
    /\ UNCHANGED <<loop, kind, att, waitFor, gate, collapsed>>

\* Mutant: the slot is kept.
KeepSlot(c) == UNCHANGED holding

ReleaseSlot(c) == holding' = holding \ {c}

\* ticket.finish: the slot goes back, the done channel is closed.
Finish(c) ==
    /\ phase[c] = "reported"
    /\ phase' = [phase EXCEPT ![c] = "finished"]
    /\ ReleaseSlot(c)
    /\ UNCHANGED <<loop, kind, att, waitFor, last, since, results, collapsed, crashed>>

-----------------------------------------------------------------------------
(* The end of the turn.                                                    *)

Dispatched(a) == Of(a) \ collapsed

\* Mutant: wg.Add is called in the goroutine.
BegunDone(a) == \A c \in Dispatched(a) : phase[c] \in {"waiting", "reported", "finished"}

\* wg.Wait of the collector of attempt a.
WaitOver(a) == \A c \in Dispatched(a) : phase[c] \in {"reported", "finished"}

\* A call that has no result of its own.
AnsweredHere(c) == c \in collapsed

\* collect: every result that was sent, and one for every collapsed call.
Collect ==
    /\ turn = "collecting" /\ WaitOver(attempt)
    /\ turn' = "answered"
    /\ results' = [c \in Calls |-> IF AnsweredHere(c) THEN results[c] + 1 ELSE results[c]]
    /\ UNCHANGED <<attempt, emitted, cancelled, calls, gate, collapsed, crashed>>

\* A terminal call ends the run, after the calls the turn has started; its
\* answer may be rejected and the run goes on with the next round.
Terminate ==
    /\ turn = "terminal" /\ WaitOver(attempt)
    /\ turn' \in {"ended", "rejected"}
    /\ UNCHANGED <<attempt, emitted, cancelled, calls, gate, results, collapsed, crashed>>

\* The rounds that follow are other turns; at the end of one of them the run
\* ends.
RunEnds ==
    /\ turn \in {"answered", "rejected"} /\ turn' = "ended"
    /\ UNCHANGED <<attempt, emitted, cancelled, calls, gate, results, collapsed, crashed>>

StreamEnds == StreamSucceeds \/ StreamIsTerminal \/ StreamEndsTheRun

CallStep(c) == Begin(c) \/ Refuse(c) \/ Report(c) \/ Finish(c)

\* A process that died takes no step.
Next == /\ ~crashed
        /\ \/ \E k \in Kinds : Emit(k)
           \/ StreamIsRetried \/ StreamEnds \/ Cancel
           \/ \E c \in Calls : CallStep(c)
           \/ Collect \/ Terminate \/ RunEnds

Spec == Init /\ [][Next]_vars

\* A stream ends (the provider or its watchdog sees to it), a tool returns,
\* the loop and the goroutines go on.  Retries and calls are bounded.
FairSpec == /\ Spec
            /\ WF_vars(~crashed /\ StreamEnds)
            /\ WF_vars(~crashed /\ (Collect \/ Terminate))
            /\ \A c \in Calls : WF_vars(~crashed /\ CallStep(c))

-----------------------------------------------------------------------------
(* Properties.                                                             *)

TypeOK ==
    /\ turn \in {"streaming", "collecting", "terminal", "answered", "rejected", "ended"}
    /\ attempt \in 1..MaxAttempts /\ emitted \in 0..MaxCalls
    /\ cancelled \in BOOLEAN /\ crashed \in BOOLEAN
    /\ kind \in [Calls -> Kinds] /\ att \in [Calls -> 0..MaxAttempts]
    /\ waitFor \in [Calls -> SUBSET Calls] /\ phase \in [Calls -> Phases]
    /\ last \in Calls \cup {NoCall} /\ since \subseteq Calls
    /\ holding \subseteq Calls /\ collapsed \subseteq Calls
    /\ results \in [Calls -> 0..1]

Started(c) == phase[c] \in {"running", "reported", "finished"}

\* Nothing overtakes a write (subagent_limits.go:158): of two calls of an
\* attempt, one of them exclusive, the later starts only when the earlier is
\* over, as long as the run is not stopped.
NothingOvertakesAWrite ==
    ~cancelled =>
      \A c, d \in Calls :
        c < d /\ att[c] = att[d] /\ phase[c] # "none" /\ Started(d)
        /\ (kind[c] = "exclusive" \/ kind[d] = "exclusive")
          => phase[c] = "finished"

\* The transcript pairs every call with one answer (runtime.go:1996,
\* runtime_tool_adapter.go:62): when a turn is answered, every call of its
\* attempt has exactly one result, whether it was executed, refused or
\* collapsed.
EveryCallAnswered ==
    turn = "answered" => \A c \in Of(attempt) : results[c] = 1

\* Whatever the order of kinds, the slots and the moment of a cancel, every
\* call that was admitted comes to its end: the gate has no deadlock.
CallsEnd == \A c \in Calls : phase[c] = "waiting" ~> phase[c] = "finished" \/ crashed

\* A run does not end under the calls it started: they report to a channel
\* that is still open (runtime.go:883).
NoSendAfterClose == ~crashed
=============================================================================
