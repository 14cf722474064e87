------------------------------ MODULE RunStream ------------------------------
(***************************************************************************)
(* The rounds of the agent loop for the runs of one session, the messages  *)
(* a host steers into them while they go, the events they emit, and the    *)
(* observer that turns events into the status of a run's task.             *)
(*                                                                         *)
(* Every run has a task of its own (RunConfig.TaskID).  A message is its   *)
(* number.  Of a round there remain the decisions: what the model and the  *)
(* tools return is any outcome the loop tells apart.  Of the events there  *)
(* remain those that write a status, and of a dropped message its entry in *)
(* reported.  A write of the conversation that fails and a compaction that *)
(* fails are the same event, an error the run goes on after.               *)
(*                                                                         *)
(* A sub-agent is a tool of the round that started it.  Of what it emits,  *)
(* the two events that keep their type in the parent's stream remain.  It  *)
(* may speak at any time from the first call of the model on: the calls of *)
(* an attempt that was repeated, and those of a turn that failed, are not  *)
(* waited for.  What it sends once the channel is closed is ToolTurn's.    *)
(***************************************************************************)
EXTENDS Integers, Sequences

CONSTANTS
  Runs,         \* runs on one session
  MaxRounds,    \* rounds a run may take, or UnlimitedRounds
  LintRetries,  \* how often a rejected answer is sent back
  MaxSteers,    \* bound: messages hosts try to steer
  MaxFailures,  \* bound: failed writes and failed compactions
  MaxForwarded  \* bound: events of sub-agents

UnlimitedRounds == -1

ASSUME BoundsAssumption ==
  /\ MaxRounds \in Nat \cup {UnlimitedRounds}
  /\ LintRetries \in Nat /\ MaxSteers \in Nat /\ MaxFailures \in Nat
  /\ MaxForwarded \in Nat

VARIABLES
  pc,        \* where a run is
  round,     \* rounds begun
  lint,      \* lintRetryBudget: retries left
  known,     \* how many messages it had accepted at the last model call
  stopped,   \* the runs whose context is cancelled
  queue,     \* steers of the run's handle
  accepted,  \* the messages Steer answered true for
  applied,   \* those put into the conversation
  reported,  \* those dropped with an event
  stream,    \* events the observer has not taken yet
  end,       \* the terminal event, once emitted
  status,    \* the status on the task row
  sent,      \* messages steered so far
  failures,  \* failures so far
  outlived,  \* the runs a sub-agent spoke for after their terminal event
  forwarded  \* events of sub-agents so far

loop == <<pc, round, lint, known>>
mail == <<queue, accepted, applied, reported, sent>>
events == <<stream, end, failures>>
children == <<outlived, forwarded>>
vars == <<loop, stopped, mail, events, status, children>>

Messages == 1..MaxSteers
Terminals == {"completed", "blocked", "cancelled", "failed"}

\* Events of type EventTypeError; "failed" is the one that ends a run.
Errors == {"lint_retry", "lint_exhausted", "unsaved", "failed"}
OwnEvents == Errors \cup Terminals

ChildEvents == {"child_blocked", "child_cancelled"}
Events == OwnEvents \cup ChildEvents

\* The type of an event, which does not say whose it is.
TypeOf(e) ==
  IF e = "child_blocked" THEN "blocked"
  ELSE IF e = "child_cancelled" THEN "cancelled" ELSE e

NeverCalled == -1

\* The runs in s.runs.
Registered == {r \in Runs : pc[r] \notin {"idle", "released"}}

\* The runs that have called dropSteers.
Over == {r \in Runs : pc[r] \in {"closed", "released"}}

Init ==
  /\ pc = [r \in Runs |-> "idle"]
  /\ round = [r \in Runs |-> 0]
  /\ lint = [r \in Runs |-> LintRetries]
  /\ known = [r \in Runs |-> NeverCalled]
  /\ stopped = {}
  /\ queue = [r \in Runs |-> <<>>] /\ accepted = [r \in Runs |-> <<>>]
  /\ applied = [r \in Runs |-> <<>>] /\ reported = [r \in Runs |-> <<>>]
  /\ stream = [r \in Runs |-> <<>>]
  /\ end = [r \in Runs |-> "none"]
  /\ status = [r \in Runs |-> "none"]
  /\ sent = 0 /\ failures = 0
  /\ outlived = {} /\ forwarded = 0

StartRun(r) ==
  /\ pc[r] = "idle"
  /\ pc' = [pc EXCEPT ![r] = "prepare"]
  /\ status' = [status EXCEPT ![r] = "running"]
  /\ UNCHANGED <<round, lint, known, stopped, mail, events, children>>

CancelRun(r) ==
  /\ r \in Registered \ stopped
  /\ stopped' = stopped \cup {r}
  /\ UNCHANGED <<loop, mail, events, status, children>>

(***************************************************************************)
(* Hosts.                                                                  *)
(***************************************************************************)
AppendTo(box, rs, m) ==
  [r \in Runs |-> IF r \in rs THEN Append(box[r], m) ELSE box[r]]

queueSteer(rs) ==
  /\ sent < MaxSteers
  /\ sent' = sent + 1
  /\ queue' = AppendTo(queue, rs, sent + 1)
  /\ accepted' = AppendTo(accepted, rs, sent + 1)
  /\ UNCHANGED <<loop, stopped, applied, reported, events, status, children>>

\* False, and nothing is queued, when no run of the session is registered.
Steer == Registered # {} /\ queueSteer(Registered)

SteerRun(r) == r \in Registered /\ queueSteer({r})

(***************************************************************************)
(* Pieces of a round.                                                      *)
(***************************************************************************)
roundsExhausted(r) == MaxRounds # UnlimitedRounds /\ round[r] >= MaxRounds

hasSteers(r) == queue[r] # <<>>

takeSteers(r) == queue' = [queue EXCEPT ![r] = <<>>]

\* Mutant: only the first waiting message.
firstSteer(r) == IF queue[r] = <<>> THEN <<>> ELSE <<Head(queue[r])>>

\* What a run appends to the conversation; none when the queue is empty.
pendingSteers(r) == queue[r]

\* Mutant: in the first round only.
FirstRoundOnly(r) ==
  IF round[r] > 0 THEN UNCHANGED mail
  ELSE /\ applied' = [applied EXCEPT ![r] = @ \o pendingSteers(r)]
       /\ takeSteers(r)
       /\ UNCHANGED <<accepted, reported, sent>>

applySteers(r) ==
  /\ applied' = [applied EXCEPT ![r] = @ \o pendingSteers(r)]
  /\ takeSteers(r)
  /\ UNCHANGED <<accepted, reported, sent>>

\* The events of work that may fail and that the run goes on after.
Attempt(evs) ==
  \/ evs = <<>> /\ UNCHANGED failures
  \/ /\ evs = <<"unsaved">>
     /\ failures < MaxFailures
     /\ failures' = failures + 1

Trouble == {<<>>, <<"unsaved">>}

Emit(r, evs) == stream' = [stream EXCEPT ![r] = @ \o evs]

\* Mutant: a round that is not counted.
SameRound(r) == UNCHANGED round

CountRound(r) == round' = [round EXCEPT ![r] = @ + 1]

\* The end of an iteration of the loop, by "continue" or at its last line.
NextRound(r) ==
  /\ CountRound(r)
  /\ pc' = [pc EXCEPT ![r] = "top"]

EndWith(r, outcome) ==
  /\ pc' = [pc EXCEPT ![r] = "ended"]
  /\ end' = [end EXCEPT ![r] = outcome]
  /\ UNCHANGED round

\* Mutant: the event first.
EventFirst(trouble) == <<"completed">> \o trouble

\* completeRun: the conversation is written before the event goes out.
CompletionEvents(trouble) == trouble \o <<"completed">>

completeRun(r) ==
  /\ EndWith(r, "completed")
  /\ \E evs \in Trouble : Attempt(evs) /\ Emit(r, CompletionEvents(evs))

\* blockRun: the event first; the reports before it are the caller's.
blockRun(r, reports) ==
  /\ EndWith(r, "blocked")
  /\ \E evs \in Trouble :
       Attempt(evs) /\ Emit(r, reports \o <<"blocked">> \o evs)

cancelRun(r) ==
  /\ EndWith(r, "cancelled")
  /\ \E evs \in Trouble : Attempt(evs) /\ Emit(r, evs \o <<"cancelled">>)

failRun(r) ==
  /\ EndWith(r, "failed")
  /\ \E evs \in Trouble : Attempt(evs) /\ Emit(r, evs \o <<"failed">>)

\* An answer is complete, is sent back, or has been sent back too often.
lintGate(r) ==
  \/ completeRun(r) /\ UNCHANGED lint
  \/ /\ lint[r] > 0
     /\ lint' = [lint EXCEPT ![r] = @ - 1]
     /\ Emit(r, <<"lint_retry">>)
     /\ NextRound(r)
     /\ UNCHANGED <<end, failures>>
  \/ lint[r] = 0 /\ blockRun(r, <<"lint_exhausted">>) /\ UNCHANGED lint

(***************************************************************************)
(* The loop.                                                               *)
(***************************************************************************)
\* The hooks let the prompt pass and the context of the turn is ready.
Prepare(r) ==
  /\ pc[r] = "prepare"
  /\ pc' = [pc EXCEPT ![r] = "top"]
  /\ UNCHANGED <<round, lint, known, stopped, mail, events, status, children>>

RejectPrompt(r) ==
  /\ pc[r] = "prepare"
  /\ blockRun(r, <<"failed">>)
  /\ UNCHANGED <<lint, known, stopped, mail, status, children>>

\* The context is read at the top of a round, and by what fails under it.
SeeCancel(r) ==
  /\ pc[r] \in {"top", "model"} /\ r \in stopped
  /\ cancelRun(r)
  /\ UNCHANGED <<lint, known, stopped, mail, status, children>>

\* An answer without tools, checked: there is no round left to send it back.
RoundsOut(r) ==
  /\ pc[r] = "top" /\ r \notin stopped
  /\ roundsExhausted(r)
  /\ completeRun(r) \/ blockRun(r, <<>>)
  /\ UNCHANGED <<lint, known, stopped, mail, status, children>>

\* A compaction, then the messages that wait.
BeginRound(r) ==
  /\ pc[r] = "top" /\ r \notin stopped
  /\ ~roundsExhausted(r)
  /\ applySteers(r)
  /\ \E evs \in Trouble : Attempt(evs) /\ Emit(r, evs)
  /\ pc' = [pc EXCEPT ![r] = "calling"]
  /\ UNCHANGED <<round, lint, known, stopped, end, status, children>>

\* The input is built and the model called.  What is accepted from the step
\* before on is not in this input.
CallModel(r) ==
  /\ pc[r] = "calling"
  /\ pc' = [pc EXCEPT ![r] = "model"]
  /\ known' = [known EXCEPT ![r] = Len(accepted[r])]
  /\ UNCHANGED <<round, lint, stopped, mail, events, status, children>>

\* The model called tools and they returned, or it handed over.
ToolRound(r) ==
  /\ pc[r] = "model"
  /\ NextRound(r)
  /\ UNCHANGED <<lint, known, stopped, mail, events, status, children>>

\* steerBeforeFinal: an answer ends the run unless a message waits.
Answer(r) ==
  /\ pc[r] = "model"
  /\ \/ /\ hasSteers(r)
        /\ applySteers(r)
        /\ \E evs \in Trouble : Attempt(evs) /\ Emit(r, evs)
        /\ NextRound(r)
        /\ UNCHANGED <<lint, end>>
     \/ ~hasSteers(r) /\ lintGate(r) /\ UNCHANGED mail
  /\ UNCHANGED <<known, stopped, status, children>>

\* task_complete: the answer is checked, the queue is not.
TaskComplete(r) ==
  /\ pc[r] = "model"
  /\ lintGate(r)
  /\ UNCHANGED <<known, stopped, mail, status, children>>

\* A repeated tool call answered from the record, or a stop hook.
CompleteAtOnce(r) ==
  /\ pc[r] = "model"
  /\ completeRun(r)
  /\ UNCHANGED <<lint, known, stopped, mail, status, children>>

\* task_blocked, a tool that reports a block, a token budget spent.
Block(r) ==
  /\ pc[r] = "model"
  /\ blockRun(r, <<>>)
  /\ UNCHANGED <<lint, known, stopped, mail, status, children>>

ModelFails(r) ==
  /\ pc[r] = "model" /\ r \notin stopped
  /\ failRun(r)
  /\ UNCHANGED <<lint, known, stopped, mail, status, children>>

\* The batch of tools fails as a whole: an error, and nothing is saved.
ToolsFail(r) ==
  /\ pc[r] = "model" /\ r \notin stopped
  /\ EndWith(r, "failed")
  /\ Emit(r, <<"failed">>)
  /\ UNCHANGED <<lint, known, stopped, mail, failures, status, children>>

\* The deferred end of the loop: report what waits, close the channel.
DropSteers(r) ==
  /\ pc[r] = "ended"
  /\ reported' = [reported EXCEPT ![r] = @ \o pendingSteers(r)]
  /\ takeSteers(r)
  /\ pc' = [pc EXCEPT ![r] = "closed"]
  /\ UNCHANGED <<round, lint, known, stopped, accepted, applied, sent, events,
                 status, children>>

\* A sub-agent is blocked, or its own timeout or the run's context ends it.
\* Its other events are turned into state updates.
forwardSubAgentEvent(r, e) ==
  /\ known[r] # NeverCalled /\ pc[r] \notin {"closed", "released"}
  /\ forwarded < MaxForwarded
  /\ forwarded' = forwarded + 1
  /\ Emit(r, <<e>>)
  /\ outlived' = IF pc[r] = "ended" THEN outlived \cup {r} ELSE outlived
  /\ UNCHANGED <<loop, stopped, mail, end, failures, status>>

(***************************************************************************)
(* The observer of a run.                                                  *)
(***************************************************************************)
persistRunTaskEvent(e, s) ==
  IF e \in Errors THEN "failed"
  ELSE IF e \in {"completed", "blocked"} THEN e ELSE s

\* Mutant: a cancelled run has no status of its own.
CancelNotRecorded(e, s) ==
  IF e \in {"completed", "blocked", "failed"} THEN e
  ELSE IF e = "unsaved" THEN "failed" ELSE s

persistRunTaskState(e, s) ==
  IF e \in Terminals THEN e ELSE IF e = "unsaved" THEN "failed" ELSE s

Observe(r) ==
  /\ stream[r] # <<>>
  /\ LET e == TypeOf(Head(stream[r]))
         s == persistRunTaskEvent(e, status[r])
     IN  status' = [status EXCEPT ![r] = persistRunTaskState(e, s)]
  /\ stream' = [stream EXCEPT ![r] = Tail(@)]
  /\ UNCHANGED <<loop, stopped, mail, end, failures, children>>

\* The channel is closed and read to its end: the handle leaves s.runs.
Release(r) ==
  /\ pc[r] = "closed" /\ stream[r] = <<>>
  /\ pc' = [pc EXCEPT ![r] = "released"]
  /\ UNCHANGED <<round, lint, known, stopped, mail, events, status, children>>

Hosts == Steer \/ \E r \in Runs : SteerRun(r) \/ StartRun(r) \/ CancelRun(r)

ModelTurn(r) ==
  \/ ToolRound(r) \/ Answer(r) \/ TaskComplete(r) \/ CompleteAtOnce(r)
  \/ Block(r) \/ ModelFails(r) \/ ToolsFail(r)

Loop(r) ==
  \/ Prepare(r) \/ RejectPrompt(r)
  \/ SeeCancel(r) \/ RoundsOut(r) \/ BeginRound(r) \/ CallModel(r)
  \/ ModelTurn(r) \/ DropSteers(r)

SubAgents(r) == \E e \in ChildEvents : forwardSubAgentEvent(r, e)

Observer(r) == Observe(r) \/ Release(r)

\* Every run is over.
Done == (\A r \in Runs : pc[r] = "released") /\ UNCHANGED vars

Next ==
  Hosts \/ (\E r \in Runs : Loop(r) \/ SubAgents(r) \/ Observer(r)) \/ Done

Spec == Init /\ [][Next]_vars

(***************************************************************************)
(* The model and the tools return, and the goroutines of a run go on.      *)
(***************************************************************************)
FairSpec ==
  Spec /\ \A r \in Runs : WF_vars(Loop(r)) /\ WF_vars(Observer(r))

(***************************************************************************)
(* Properties.                                                             *)
(***************************************************************************)
\* Types; and a bounded loop never begins a round beyond its bound.
TypeOK ==
  /\ pc \in [Runs -> {"idle", "prepare", "top", "calling", "model", "ended",
                      "closed", "released"}]
  /\ round \in [Runs -> Nat] /\ lint \in [Runs -> Nat]
  /\ MaxRounds # UnlimitedRounds => \A r \in Runs : round[r] <= MaxRounds
  /\ stopped \subseteq Runs
  /\ queue \in [Runs -> Seq(Messages)] /\ accepted \in [Runs -> Seq(Messages)]
  /\ applied \in [Runs -> Seq(Messages)]
  /\ reported \in [Runs -> Seq(Messages)]
  /\ stream \in [Runs -> Seq(Events)]
  /\ end \in [Runs -> Terminals \cup {"none"}]
  /\ status \in [Runs -> Terminals \cup {"none", "running"}]
  /\ known \in [Runs -> Nat \cup {NeverCalled}]
  /\ sent \in 0..MaxSteers /\ failures \in 0..MaxFailures
  /\ outlived \subseteq Runs /\ forwarded \in 0..MaxForwarded

\* A message is never lost from sight, doubled or overtaken: what a run has
\* accepted is what it applied, then what it reported as dropped, then what
\* its handle still holds, in the order it came (steer.go:85-189).
MailboxIsExact ==
  \A r \in Runs : accepted[r] = applied[r] \o reported[r] \o queue[r]

\* A message is accepted while the call is prepared, or while the model
\* answers, and is not in that call.  It misses no second one: at every call
\* all that had been accepted when the model was called before is in the
\* conversation, whichever way the round between ended (steer.go:112-116,
\* runtime.go:664-666).
MissesOneCallAtMost ==
  [][\A r \in Runs : pc[r] = "calling" /\ pc'[r] = "model" =>
                       known[r] <= Len(applied'[r])]_vars

\* Once a run is released, its task says how it ended, whatever errors it
\* and its sub-agents emitted on the way.  There are two exceptions in the
\* code: a run that blocked and whose conversation could not be written after
\* the event reads failed; and a run whose sub-agent was blocked or cancelled
\* after the run's own end reads what happened to the sub-agent.
StatusMatchesEnd ==
  \A r \in Runs : pc[r] = "released" =>
    \/ status[r] = end[r]
    \/ end[r] = "blocked" /\ status[r] = "failed" /\ failures > 0
    \/ r \in outlived /\ status[r] \in {"blocked", "cancelled"}

\* The terminal event of r has gone out and the observer has recorded it.
Announced(r) ==
  end[r] # "none" /\ \A i \in 1..Len(stream[r]) : stream[r][i] # end[r]

\* Once a run is announced as completed or cancelled, nothing of the run's own
\* takes it back: everything that can go wrong is reported before the terminal
\* event (runtime.go:1427-1436).  An event of a sub-agent may.
CompletedRowIsFinal ==
  [][\A r \in Runs :
       end[r] \in {"completed", "cancelled"} /\ Announced(r) =>
         status'[r] = status[r] \/ Head(stream[r]) \in ChildEvents]_vars

\* The loop does with the messages what a mailbox promises: it applies or
\* reports them in order and all together, and applies none after it has
\* reported (steer.go:105-189).
Mailbox == INSTANCE SteerMailbox WITH inbox <- queue, over <- Over
ImplementsMailbox == Mailbox!Spec

\* A run whose rounds are bounded ends and leaves the registry, however many
\* messages arrive during its answers and however often it is sent back.
RunEnds ==
  \A r \in Runs : pc[r] = "prepare" ~> pc[r] = "released"
=============================================================================
