------------------------------ MODULE RunProofs ------------------------------
(***************************************************************************)
(* Proofs about a run: about its loop and the stream of its events         *)
(* (RunStream), for every set of runs and every bound, those of a run      *)
(* without a limit of rounds included; then about the history of its       *)
(* session (SessionHistory), for every set of copies and texts.  The two   *)
(* are specifications of their own: Spec is the stream's, SessionSpec the  *)
(* session's.                                                              *)
(***************************************************************************)
EXTENDS RunStream, SessionHistory, SequenceTheorems, WellFoundedInduction, TLAPS


(***************************************************************************)
(* A step of the model is one of a few kinds.  What a run emits matters by *)
(* its last event alone.                                                   *)
(***************************************************************************)
Going == {"prepare", "top", "calling", "model"}

\* Batches of events a run goes on after.
Soft == {<<>>, <<"unsaved">>, <<"lint_retry">>}

\* A batch that ends with its terminal event, or with the failed write that
\* may follow a block.
LastSays(evs, e) ==
  /\ evs \in Seq(Events) /\ Len(evs) > 0
  /\ evs[Len(evs)] = e \/ (e = "blocked" /\ evs[Len(evs)] = "unsaved")

FailureStep(evs) ==
  /\ failures' \in failures..MaxFailures
  /\ Len(evs) > 0 /\ evs[Len(evs)] = "unsaved" => failures' > 0

RunOver(r) ==
  \E e \in Terminals, evs \in Seq(Events) :
    /\ LastSays(evs, e) /\ FailureStep(evs)
    /\ EndWith(r, e) /\ Emit(r, evs)

EndsStep(r) ==
  /\ pc[r] \in Going
  /\ RunOver(r)
  /\ UNCHANGED <<lint, known, stopped, mail, status, children>>

GoesOnStep(r) ==
  /\ pc[r] \in Going
  /\ \/ /\ pc' = [pc EXCEPT ![r] = "calling"] /\ pc[r] = "top"
        /\ ~roundsExhausted(r) /\ UNCHANGED round /\ applySteers(r)
     \/ /\ pc' = [pc EXCEPT ![r] = "top"]
        /\ \/ pc[r] = "prepare" /\ UNCHANGED round
           \/ pc[r] = "model" /\ CountRound(r)
        /\ applySteers(r) \/ UNCHANGED mail
  /\ lint' = lint \/ (lint[r] > 0 /\ lint' = [lint EXCEPT ![r] = @ - 1])
  /\ \E evs \in Soft : Emit(r, evs)
  /\ failures' \in failures..MaxFailures
  /\ UNCHANGED <<known, stopped, end, status, children>>

\* A batch of errors, then the terminal event, then perhaps an error.
LEMMA Batches ==
  /\ \A evs \in Trouble, e \in Terminals :
       LastSays(evs \o <<e>>, e) /\ (evs \o <<e>>)[Len(evs \o <<e>>)] = e
  /\ \A evs \in Trouble, reports \in {<<>>, <<"failed">>, <<"lint_exhausted">>} :
       LastSays(reports \o <<"blocked">> \o evs, "blocked")
BY SMTT(30) DEF LastSays, Trouble, Terminals, Events, OwnEvents, Errors

\* However a run ends, it ends with its terminal event.
LEMMA Endings ==
  ASSUME failures \in 0..MaxFailures, NEW r \in Runs
  PROVE  /\ completeRun(r) => RunOver(r)
         /\ cancelRun(r) => RunOver(r)
         /\ failRun(r) => RunOver(r)
         /\ \A reports \in {<<>>, <<"failed">>, <<"lint_exhausted">>} :
              blockRun(r, reports) => RunOver(r)
<1>1. ASSUME NEW evs \in Trouble, Attempt(evs), NEW e \in Terminals,
             EndWith(r, e), Emit(r, evs \o <<e>>)
      PROVE  RunOver(r)
  <2>1. /\ LastSays(evs \o <<e>>, e)
        /\ (evs \o <<e>>)[Len(evs \o <<e>>)] = e
    BY Batches
  <2>2. evs \o <<e>> \in Seq(Events)
    BY <2>1 DEF LastSays
  <2>3. FailureStep(evs \o <<e>>)
    BY <1>1, <2>1, BoundsAssumption DEF FailureStep, Attempt, Terminals
  <2> QED BY <1>1, <2>1, <2>2, <2>3 DEF RunOver
<1>2. ASSUME NEW evs \in Trouble, Attempt(evs),
             NEW reports \in {<<>>, <<"failed">>, <<"lint_exhausted">>},
             EndWith(r, "blocked"), Emit(r, reports \o <<"blocked">> \o evs)
      PROVE  RunOver(r)
  <2> DEFINE batch == reports \o <<"blocked">> \o evs
  <2>1. LastSays(batch, "blocked")
    BY Batches
  <2>2. batch \in Seq(Events)
    BY <2>1 DEF LastSays
  <2>3. FailureStep(batch)
    <3>1. CASE evs = <<>>
      <4>1. batch[Len(batch)] = "blocked"
        BY <3>1
      <4> QED BY <1>2, <3>1, <4>1, BoundsAssumption DEF FailureStep, Attempt
    <3>2. CASE evs = <<"unsaved">>
      BY <1>2, <3>2, BoundsAssumption DEF FailureStep, Attempt
    <3> QED BY <3>1, <3>2 DEF Trouble
  <2>4. "blocked" \in Terminals
    BY DEF Terminals
  <2> HIDE DEF batch
  <2> QED BY <1>2, <2>1, <2>2, <2>3, <2>4 DEF RunOver, batch
<1>3. {"completed", "cancelled", "failed"} \subseteq Terminals
  BY DEF Terminals
<1> QED BY <1>1, <1>2, <1>3
        DEF completeRun, CompletionEvents, cancelRun, failRun, blockRun

\* While the model is called and answers there is a round to count.
RoomInModel ==
  \A r \in Runs : pc[r] \in {"calling", "model"} => ~roundsExhausted(r)

TypeInv == TypeOK /\ RoomInModel

\* Trouble is soft, and counted.
LEMMA SoftAttempt ==
  ASSUME failures \in 0..MaxFailures, NEW r,
         \E evs \in Trouble : Attempt(evs) /\ Emit(r, evs)
  PROVE  /\ \E evs \in Soft : Emit(r, evs)
         /\ failures' \in failures..MaxFailures
BY BoundsAssumption DEF Attempt, Trouble, Soft

\* An answer that is checked ends the run or sends it on.
LEMMA GateKinds ==
  ASSUME TypeInv, NEW r \in Runs, pc[r] = "model", lintGate(r),
         UNCHANGED <<known, stopped, mail, status, children>>
  PROVE  EndsStep(r) \/ GoesOnStep(r)
<1>1. CASE completeRun(r) /\ UNCHANGED lint
  BY <1>1, Endings DEF EndsStep, Going, TypeInv, TypeOK
<1>2. CASE blockRun(r, <<"lint_exhausted">>) /\ UNCHANGED lint
  BY <1>2, Endings DEF EndsStep, Going, TypeInv, TypeOK
<1>3. CASE /\ lint[r] > 0
           /\ lint' = [lint EXCEPT ![r] = @ - 1]
           /\ Emit(r, <<"lint_retry">>)
           /\ NextRound(r)
           /\ UNCHANGED <<end, failures>>
  <2>1. pc'[r] = "top"
    BY <1>3 DEF NextRound, TypeInv, TypeOK
  <2> QED BY <1>3, <2>1
          DEF GoesOnStep, Going, Soft, NextRound, TypeInv, TypeOK
<1> QED BY <1>1, <1>2, <1>3 DEF lintGate

\* Every step of the loop ends the run or sends it on, but for the call of the
\* model and the report of what was dropped.
LEMMA LoopKinds ==
  ASSUME TypeInv, NEW r \in Runs, Loop(r)
  PROVE  EndsStep(r) \/ GoesOnStep(r) \/ CallModel(r) \/ DropSteers(r)
<1> USE DEF TypeInv, TypeOK, Going
<1>0. failures \in failures..MaxFailures /\ Emit(r, <<>>) = (stream' = stream)
  <2>1. stream[r] \o <<>> = stream[r]
    BY ConcatEmptySeq
  <2> QED BY <2>1, BoundsAssumption DEF Emit
<1>1. CASE Prepare(r)
  BY <1>0, <1>1 DEF Prepare, GoesOnStep, events, Soft
<1>2. CASE RejectPrompt(r)
  BY <1>2, Endings DEF RejectPrompt, EndsStep
<1>3. CASE SeeCancel(r)
  BY <1>3, Endings DEF SeeCancel, EndsStep
<1>4. CASE RoundsOut(r)
  BY <1>4, Endings DEF RoundsOut, EndsStep
<1>5. CASE BeginRound(r)
  <2>1. /\ \E evs \in Soft : Emit(r, evs)
        /\ failures' \in failures..MaxFailures
    BY <1>5, SoftAttempt DEF BeginRound
  <2>2. /\ pc' = [pc EXCEPT ![r] = "calling"] /\ pc[r] = "top"
        /\ ~roundsExhausted(r) /\ applySteers(r)
        /\ UNCHANGED <<round, lint, known, stopped, end, status, children>>
    BY <1>5 DEF BeginRound
  <2> QED BY <2>1, <2>2 DEF GoesOnStep
<1>6. CASE ToolRound(r)
  BY <1>0, <1>6 DEF ToolRound, NextRound, GoesOnStep, events, Soft
<1>7. CASE Answer(r)
  <2>1. CASE /\ hasSteers(r) /\ applySteers(r) /\ NextRound(r)
             /\ \E evs \in Trouble : Attempt(evs) /\ Emit(r, evs)
             /\ UNCHANGED <<lint, end>>
    <3>1. /\ \E evs \in Soft : Emit(r, evs)
          /\ failures' \in failures..MaxFailures
      BY <2>1, SoftAttempt
    <3> QED BY <1>7, <2>1, <3>1 DEF Answer, NextRound, GoesOnStep
  <2>2. CASE lintGate(r) /\ UNCHANGED mail
    BY <1>7, <2>2, GateKinds DEF Answer
  <2> QED BY <1>7, <2>1, <2>2 DEF Answer
<1>8. CASE TaskComplete(r)
  BY <1>8, GateKinds DEF TaskComplete
<1>9. CASE CompleteAtOnce(r)
  BY <1>9, Endings DEF CompleteAtOnce, EndsStep
<1>10. CASE Block(r)
  BY <1>10, Endings DEF Block, EndsStep
<1>11. CASE ModelFails(r)
  BY <1>11, Endings DEF ModelFails, EndsStep
<1>12. CASE ToolsFail(r)
  <2>1. LastSays(<<"failed">>, "failed") /\ "failed" \in Terminals
    BY DEF LastSays, Terminals, Events, OwnEvents, Errors
  <2>2. FailureStep(<<"failed">>) /\ <<"failed">> \in Seq(Events)
    BY <1>12, <2>1, BoundsAssumption DEF ToolsFail, FailureStep, LastSays
  <2> QED BY <1>12, <2>1, <2>2 DEF ToolsFail, EndsStep, RunOver
<1> QED BY <1>1, <1>2, <1>3, <1>4, <1>5, <1>6, <1>7, <1>8, <1>9, <1>10, <1>11,
           <1>12 DEF Loop, ModelTurn

(***************************************************************************)
(* Types.                                                                  *)
(***************************************************************************)
\* What is emitted is made of events.
LEMMA EmitType ==
  ASSUME stream \in [Runs -> Seq(Events)], NEW r \in Runs,
         NEW evs \in Seq(Events), Emit(r, evs)
  PROVE  stream' \in [Runs -> Seq(Events)]
BY ConcatProperties DEF Emit

\* What moves between the boxes are messages.
LEMMA MailType ==
  ASSUME NEW r \in Runs,
         queue \in [Runs -> Seq(Messages)], applied \in [Runs -> Seq(Messages)],
         reported \in [Runs -> Seq(Messages)]
  PROVE  /\ [applied EXCEPT ![r] = @ \o pendingSteers(r)]
              \in [Runs -> Seq(Messages)]
         /\ [reported EXCEPT ![r] = @ \o pendingSteers(r)]
              \in [Runs -> Seq(Messages)]
         /\ [queue EXCEPT ![r] = <<>>] \in [Runs -> Seq(Messages)]
BY ConcatProperties, EmptySeq DEF pendingSteers

LEMMA SteerType ==
  ASSUME NEW box \in [Runs -> Seq(Messages)], NEW rs, NEW m \in Messages
  PROVE  AppendTo(box, rs, m) \in [Runs -> Seq(Messages)]
BY AppendProperties DEF AppendTo

\* The observer writes statuses.
LEMMA StatusType ==
  ASSUME NEW e \in Events, NEW s \in Terminals \cup {"none", "running"}
  PROVE  persistRunTaskState(TypeOf(e), persistRunTaskEvent(TypeOf(e), s))
           \in Terminals \cup {"none", "running"}
BY DEF persistRunTaskState, persistRunTaskEvent, TypeOf, Events, OwnEvents,
       ChildEvents, Errors, Terminals

LEMMA TypeInit == Init => TypeInv
BY BoundsAssumption, EmptySeq
DEF Init, TypeInv, TypeOK, RoomInModel, Terminals, UnlimitedRounds, NeverCalled

LEMMA TypeEnds ==
  ASSUME TypeInv, NEW r \in Runs, EndsStep(r)
  PROVE  TypeInv'
<1> USE DEF TypeInv, TypeOK
<1>1. stream' \in [Runs -> Seq(Events)]
  BY EmitType DEF EndsStep, RunOver
<1>2. failures' \in 0..MaxFailures
  BY BoundsAssumption DEF EndsStep, RunOver, FailureStep
<1>3. /\ \E e \in Terminals : EndWith(r, e)
      /\ UNCHANGED <<lint, known, stopped, mail, status, children>>
  BY DEF EndsStep, RunOver
<1>4. /\ pc' \in [Runs -> {"idle", "prepare", "top", "calling", "model",
                           "ended", "closed", "released"}]
      /\ end' \in [Runs -> Terminals \cup {"none"}]
      /\ UNCHANGED round
  <2>1. PICK e \in Terminals : EndWith(r, e)
    BY <1>3
  <2>2. pc' = [pc EXCEPT ![r] = "ended"] /\ end' = [end EXCEPT ![r] = e]
    BY <2>1 DEF EndWith
  <2>3. UNCHANGED round
    BY <2>1 DEF EndWith
  <2> QED BY <2>2, <2>3
<1>5. RoomInModel'
  BY <1>3 DEF EndWith, RoomInModel, roundsExhausted
<1> QED BY <1>1, <1>2, <1>3, <1>4, <1>5 DEF mail, children

LEMMA TypeGoesOn ==
  ASSUME TypeInv, NEW r \in Runs, GoesOnStep(r)
  PROVE  TypeInv'
<1> USE DEF TypeInv, TypeOK
<1>1. stream' \in [Runs -> Seq(Events)]
  <2>1. Soft \subseteq Seq(Events)
    BY DEF Soft, Events, OwnEvents, Errors
  <2> QED BY <2>1, EmitType DEF GoesOnStep
<1>2. failures' \in 0..MaxFailures
  BY BoundsAssumption DEF GoesOnStep
<1>3. /\ queue' \in [Runs -> Seq(Messages)]
      /\ accepted' \in [Runs -> Seq(Messages)]
      /\ applied' \in [Runs -> Seq(Messages)]
      /\ reported' \in [Runs -> Seq(Messages)]
      /\ sent' \in 0..MaxSteers
  <2>1. CASE UNCHANGED mail
    BY <2>1 DEF mail
  <2>2. CASE applySteers(r)
    <3>1. applied' = [applied EXCEPT ![r] = @ \o pendingSteers(r)]
      BY <2>2 DEF applySteers
    <3>2. queue' = [queue EXCEPT ![r] = <<>>]
      BY <2>2 DEF applySteers, takeSteers
    <3>3. UNCHANGED <<accepted, reported, sent>>
      BY <2>2 DEF applySteers
    <3>4. applied' \in [Runs -> Seq(Messages)] /\ queue' \in [Runs -> Seq(Messages)]
      BY <3>1, <3>2, MailType
    <3> QED BY <3>3, <3>4
  <2> QED BY <2>1, <2>2 DEF GoesOnStep
<1>4. /\ pc' \in [Runs -> {"idle", "prepare", "top", "calling", "model",
                           "ended", "closed", "released"}]
      /\ lint' \in [Runs -> Nat]
      /\ UNCHANGED <<known, stopped, end, status, children>>
  <2>1. \E q \in {"top", "calling"} : pc' = [pc EXCEPT ![r] = q]
    BY DEF GoesOnStep
  <2>2. lint' = lint \/ (lint[r] > 0 /\ lint' = [lint EXCEPT ![r] = @ - 1])
    BY DEF GoesOnStep
  <2>3. lint' \in [Runs -> Nat]
    <3>1. lint \in [Runs -> Nat]
      OBVIOUS
    <3>2. lint[r] \in Nat /\ (lint[r] > 0 => lint[r] - 1 \in Nat)
      <4>1. lint[r] \in Nat
        BY <3>1, Zenon
      <4>2. \A n \in Nat : n > 0 => n - 1 \in Nat
        OBVIOUS
      <4> QED BY <4>1, <4>2, Zenon
    <3>3. lint[r] > 0 => [lint EXCEPT ![r] = @ - 1] \in [Runs -> Nat]
      BY <3>1, <3>2, Zenon
    <3> QED BY <2>2, <3>1, <3>3
  <2>4. pc \in [Runs -> {"idle", "prepare", "top", "calling", "model", "ended",
                      "closed", "released"}]
    OBVIOUS
  <2>5. pc' \in [Runs -> {"idle", "prepare", "top", "calling", "model", "ended",
                      "closed", "released"}]
    BY <2>1, <2>4, Zenon
  <2>6. UNCHANGED <<known, stopped, end, status, children>>
    BY DEF GoesOnStep
  <2> QED BY <2>3, <2>5, <2>6
<1>5. /\ round' \in [Runs -> Nat]
      /\ MaxRounds # UnlimitedRounds => \A x \in Runs : round'[x] <= MaxRounds
      /\ RoomInModel'
  <2>1. CASE UNCHANGED round
    BY <2>1 DEF GoesOnStep, RoomInModel, roundsExhausted
  <2>2. CASE pc[r] = "model" /\ CountRound(r) /\ pc' = [pc EXCEPT ![r] = "top"]
    <3>1. MaxRounds # UnlimitedRounds => round[r] < MaxRounds
      BY <2>2, BoundsAssumption DEF RoomInModel, roundsExhausted, UnlimitedRounds
    <3>2. round' = [round EXCEPT ![r] = @ + 1]
      BY <2>2 DEF CountRound
    <3>3. MaxRounds # UnlimitedRounds =>
            MaxRounds \in Nat /\ \A x \in Runs : round'[x] <= MaxRounds
      BY <3>1, <3>2, BoundsAssumption
    <3>4. RoomInModel'
      BY <2>2, <3>2 DEF RoomInModel, roundsExhausted
    <3> QED BY <3>2, <3>3, <3>4
  <2> QED BY <2>1, <2>2 DEF GoesOnStep
<1> QED BY <1>1, <1>2, <1>3, <1>4, <1>5 DEF children

LEMMA TypeStep == TypeInv /\ [Next]_vars => TypeInv'
<1> SUFFICES ASSUME TypeInv, [Next]_vars PROVE TypeInv'
  OBVIOUS
<1>1. CASE UNCHANGED vars
  BY <1>1
  DEF vars, loop, mail, events, children, TypeInv, TypeOK, RoomInModel,
      roundsExhausted
<1>2. ASSUME NEW rs, queueSteer(rs) PROVE TypeInv'
  <2>1. sent + 1 \in Messages /\ sent' \in 0..MaxSteers
    BY <1>2, BoundsAssumption DEF queueSteer, Messages, TypeInv, TypeOK
  <2>2. /\ queue' \in [Runs -> Seq(Messages)]
        /\ accepted' \in [Runs -> Seq(Messages)]
    BY <1>2, <2>1, SteerType DEF queueSteer, TypeInv, TypeOK
  <2> QED BY <1>2, <2>1, <2>2
          DEF queueSteer, loop, events, children, TypeInv, TypeOK, RoomInModel,
              roundsExhausted
<1>3. ASSUME NEW r \in Runs, StartRun(r) \/ CancelRun(r) \/ Release(r)
      PROVE  TypeInv'
  BY <1>3
  DEF StartRun, CancelRun, Release, Registered, loop, mail, events, children,
      TypeInv, TypeOK, RoomInModel, roundsExhausted
<1>4. ASSUME NEW r \in Runs, Loop(r) PROVE TypeInv'
  <2>1. CASE DropSteers(r)
    <3>1. reported' \in [Runs -> Seq(Messages)] /\ queue' \in [Runs -> Seq(Messages)]
      BY <2>1, MailType DEF DropSteers, takeSteers, TypeInv, TypeOK
    <3> QED BY <2>1, <3>1
            DEF DropSteers, events, children, TypeInv, TypeOK, RoomInModel,
                roundsExhausted
  <2>2. CASE CallModel(r)
    <3>1. known' \in [Runs -> Nat \cup {NeverCalled}]
      <4>1. Len(accepted[r]) \in Nat
        BY LenProperties DEF TypeInv, TypeOK
      <4> QED BY <2>2, <4>1 DEF CallModel, TypeInv, TypeOK
    <3> QED BY <2>2, <3>1
            DEF CallModel, mail, events, children, TypeInv, TypeOK, RoomInModel,
                roundsExhausted
  <2> QED BY <1>4, <2>1, <2>2, LoopKinds, TypeEnds, TypeGoesOn
<1>5. ASSUME NEW r \in Runs, Observe(r) PROVE TypeInv'
  <2>1. Head(stream[r]) \in Events /\ Tail(stream[r]) \in Seq(Events)
    BY <1>5, HeadTailProperties DEF Observe, TypeInv, TypeOK
  <2>2. status' \in [Runs -> Terminals \cup {"none", "running"}]
    BY <1>5, <2>1, StatusType DEF Observe, TypeInv, TypeOK
  <2> QED BY <1>5, <2>1, <2>2
          DEF Observe, loop, mail, children, TypeInv, TypeOK, RoomInModel,
              roundsExhausted
<1>6. ASSUME NEW r \in Runs, SubAgents(r) PROVE TypeInv'
  <2>1. PICK e \in ChildEvents : forwardSubAgentEvent(r, e)
    BY <1>6 DEF SubAgents
  <2>2. <<e>> \in Seq(Events)
    BY DEF Events
  <2>3. stream' \in [Runs -> Seq(Events)]
    BY <2>1, <2>2, EmitType DEF forwardSubAgentEvent, TypeInv, TypeOK
  <2> QED BY <2>1, <2>3, BoundsAssumption
          DEF forwardSubAgentEvent, loop, mail, TypeInv, TypeOK, RoomInModel,
              roundsExhausted
<1> QED BY <1>1, <1>2, <1>3, <1>4, <1>5, <1>6
        DEF Next, Hosts, Steer, SteerRun, Observer, Done

\* Every state has the declared types, and no run goes beyond its rounds.
THEOREM TypeCorrect == Spec => []TypeOK
<1>1. TypeInv => TypeOK
  BY DEF TypeInv
<1> QED BY <1>1, TypeInit, TypeStep, PTL DEF Spec

(***************************************************************************)
(* The mailbox.                                                            *)
(***************************************************************************)
\* What a step does to the messages: nothing, a host's message for some runs,
\* the application of all that waits, or the report of it.
Untouched == UNCHANGED <<queue, accepted, applied, reported>> /\ Over' = Over

Applied(r) ==
  /\ r \in Runs \ Over /\ Over' = Over
  /\ applied' = [applied EXCEPT ![r] = @ \o queue[r]]
  /\ queue' = [queue EXCEPT ![r] = <<>>]
  /\ UNCHANGED <<accepted, reported>>

Dropped(r) ==
  /\ r \in Runs \ Over /\ Over' = Over \cup {r}
  /\ reported' = [reported EXCEPT ![r] = @ \o queue[r]]
  /\ queue' = [queue EXCEPT ![r] = <<>>]
  /\ UNCHANGED <<accepted, applied>>

Steered(rs, m) ==
  /\ rs \subseteq Runs /\ m \in Messages /\ Over' = Over
  /\ queue' = AppendTo(queue, rs, m)
  /\ accepted' = AppendTo(accepted, rs, m)
  /\ UNCHANGED <<applied, reported>>

LEMMA MailKinds ==
  ASSUME TypeInv, [Next]_vars
  PROVE  \/ Untouched
         \/ \E r \in Runs : Applied(r) \/ Dropped(r)
         \/ \E rs \in SUBSET Runs, m \in Messages : Steered(rs, m)
<1> USE DEF TypeInv, TypeOK
<1>1. CASE UNCHANGED vars
  BY <1>1 DEF vars, loop, mail, Untouched, Over
<1>2. ASSUME NEW rs \in SUBSET Runs, queueSteer(rs)
      PROVE  Steered(rs, sent + 1) /\ sent + 1 \in Messages
  BY <1>2, BoundsAssumption DEF queueSteer, Steered, Messages, loop, Over
<1>3. ASSUME NEW r \in Runs,
             \/ StartRun(r) \/ CancelRun(r) \/ Release(r) \/ Observe(r)
             \/ SubAgents(r) \/ CallModel(r)
      PROVE  Untouched
  BY <1>3
  DEF StartRun, CancelRun, Release, Observe, SubAgents, forwardSubAgentEvent,
      CallModel, loop, mail, Untouched, Over
<1>4. ASSUME NEW r \in Runs, EndsStep(r) PROVE Untouched
  <2>1. pc[r] \in Going /\ pc' = [pc EXCEPT ![r] = "ended"]
    BY <1>4 DEF EndsStep, RunOver, EndWith
  <2> QED BY <1>4, <2>1 DEF EndsStep, mail, Untouched, Over, Going
<1>5. ASSUME NEW r \in Runs, GoesOnStep(r) PROVE Untouched \/ Applied(r)
  <2>1. Over' = Over /\ r \notin Over
    BY <1>5 DEF GoesOnStep, Going, Over
  <2>2. CASE applySteers(r)
    BY <2>1, <2>2 DEF applySteers, takeSteers, pendingSteers, Applied
  <2>3. CASE UNCHANGED mail
    BY <2>1, <2>3 DEF Untouched, mail
  <2> QED BY <1>5, <2>2, <2>3 DEF GoesOnStep
<1>6. ASSUME NEW r \in Runs, DropSteers(r) PROVE Dropped(r)
  BY <1>6 DEF DropSteers, takeSteers, pendingSteers, Dropped, Over
<1>7. Registered \in SUBSET Runs /\ \A r \in Runs : {r} \in SUBSET Runs
  BY DEF Registered
<1> QED BY <1>1, <1>2, <1>3, <1>4, <1>5, <1>6, <1>7, LoopKinds
        DEF Next, Hosts, Steer, SteerRun, Observer, Done

\* A run reports only once it is over.
NothingReported == \A r \in Runs \ Over : reported[r] = <<>>

MailInv == MailboxIsExact /\ NothingReported

\* Appending to the last of three sequences appends to them all.
LEMMA AppendToThird ==
  ASSUME NEW a \in Seq(Messages), NEW b \in Seq(Messages),
         NEW c \in Seq(Messages), NEW m \in Messages
  PROVE  a \o b \o Append(c, m) = Append(a \o b \o c, m)
<1>1. a \o b \in Seq(Messages) /\ a \o b \o c \in Seq(Messages)
  BY ConcatProperties
<1>2. <<m>> \in Seq(Messages)
  OBVIOUS
<1>3. a \o b \o (c \o <<m>>) = a \o b \o c \o <<m>>
  BY <1>1, <1>2, ConcatAssociative
<1> QED BY <1>1, <1>3, AppendIsConcat

\* Moving the last of three sequences to the end of the second.
LEMMA Regroup ==
  ASSUME NEW a \in Seq(Messages), NEW b \in Seq(Messages),
         NEW c \in Seq(Messages)
  PROVE  a \o b \o c = a \o (b \o c) \o <<>>
<1>1. a \o b \o c = a \o (b \o c)
  BY ConcatAssociative
<1>2. b \o c \in Seq(Messages)
  BY ConcatProperties
<1>3. a \o (b \o c) \in Seq(Messages)
  BY <1>2, ConcatProperties
<1>4. a \o (b \o c) \o <<>> = a \o (b \o c)
  BY <1>3, ConcatEmptySeq
<1> QED BY <1>1, <1>4

LEMMA MailStep == TypeInv /\ MailInv /\ [Next]_vars => MailInv'
<1> SUFFICES ASSUME TypeInv, MailInv, [Next]_vars PROVE MailInv'
  OBVIOUS
<1> USE DEF TypeInv, TypeOK, MailInv
<1>1. CASE Untouched
  BY <1>1 DEF Untouched, MailboxIsExact, NothingReported
<1>2. ASSUME NEW r \in Runs, Applied(r) PROVE MailInv'
  <2>1. reported[r] = <<>>
    BY <1>2 DEF Applied, NothingReported
  <2>2. accepted[r] = applied[r] \o queue[r]
    <3>1. applied[r] \o <<>> = applied[r]
      BY ConcatEmptySeq
    <3>2. accepted[r] = applied[r] \o reported[r] \o queue[r]
      BY DEF MailboxIsExact
    <3> QED BY <2>1, <3>1, <3>2
  <2>3. applied[r] \o queue[r] \in Seq(Messages)
    BY ConcatProperties
  <2>4. (applied[r] \o queue[r]) \o <<>> \o <<>> = applied[r] \o queue[r]
    BY <2>3, ConcatEmptySeq
  <2>5. MailboxIsExact'
    <3>1. ASSUME NEW x \in Runs
          PROVE  accepted'[x] = applied'[x] \o reported'[x] \o queue'[x]
      <4>1. CASE x = r
        BY <1>2, <2>1, <2>2, <2>4, <4>1 DEF Applied
      <4>2. CASE x # r
        BY <1>2, <4>2 DEF Applied, MailboxIsExact
      <4> QED BY <4>1, <4>2
    <3> QED BY <3>1 DEF MailboxIsExact
  <2> QED BY <1>2, <2>5 DEF Applied, NothingReported
<1>3. ASSUME NEW r \in Runs, Dropped(r) PROVE MailInv'
  <2>1. applied[r] \o reported[r] \o queue[r]
          = applied[r] \o (reported[r] \o queue[r]) \o <<>>
    <3>1. /\ applied[r] \in Seq(Messages) /\ reported[r] \in Seq(Messages)
          /\ queue[r] \in Seq(Messages)
      OBVIOUS
    <3> HIDE DEF TypeInv, TypeOK, MailInv
    <3> QED BY <3>1, Regroup
  <2>2. MailboxIsExact'
    <3>1. ASSUME NEW x \in Runs
          PROVE  accepted'[x] = applied'[x] \o reported'[x] \o queue'[x]
      <4>1. CASE x = r
        BY <1>3, <2>1, <4>1 DEF Dropped, MailboxIsExact
      <4>2. CASE x # r
        BY <1>3, <4>2 DEF Dropped, MailboxIsExact
      <4> QED BY <4>1, <4>2
    <3> QED BY <3>1 DEF MailboxIsExact
  <2> QED BY <1>3, <2>2 DEF Dropped, NothingReported
<1>4. ASSUME NEW rs \in SUBSET Runs, NEW m \in Messages, Steered(rs, m)
      PROVE  MailInv'
  <2>1. ASSUME NEW r \in Runs
        PROVE  applied[r] \o reported[r] \o Append(queue[r], m)
                 = Append(applied[r] \o reported[r] \o queue[r], m)
    <3>1. /\ applied[r] \in Seq(Messages) /\ reported[r] \in Seq(Messages)
          /\ queue[r] \in Seq(Messages)
      OBVIOUS
    <3> QED BY ONLY <3>1, AppendToThird, m \in Messages
  <2>2. MailboxIsExact'
    BY <1>4, <2>1 DEF Steered, MailboxIsExact, AppendTo
  <2> QED BY <1>4, <2>2 DEF Steered, NothingReported
<1> QED BY <1>1, <1>2, <1>3, <1>4, MailKinds

LEMMA MailInit == Init => MailInv
<1>1. <<>> \o <<>> \o <<>> = <<>>
  BY ConcatEmptySeq, EmptySeq
<1> QED BY <1>1 DEF Init, MailInv, MailboxIsExact, NothingReported

\* A message a run has accepted is in the conversation, reported or waiting,
\* and in one of them only, in the order of arrival.
THEOREM MailboxStaysExact == Spec => []MailboxIsExact
<1>1. MailInv => MailboxIsExact
  BY DEF MailInv
<1> QED BY <1>1, TypeInit, TypeStep, MailInit, MailStep, PTL DEF Spec

\* What a run had accepted at a call is in the conversation when the next
\* call is prepared.
KnownInv ==
  \A r \in Runs : /\ known[r] <= Len(accepted[r])
                  /\ pc[r] = "calling" => known[r] <= Len(applied[r])

\* A run that takes its messages has all it accepted.
LEMMA TakesAll ==
  ASSUME TypeInv, MailInv, NEW r \in Runs, pc[r] = "top", applySteers(r)
  PROVE  applied'[r] = accepted[r]
<1> USE DEF TypeInv, TypeOK
<1>1. applied'[r] = applied[r] \o queue[r]
  BY DEF applySteers, pendingSteers
<1>2. accepted[r] = applied[r] \o <<>> \o queue[r]
  BY DEF MailInv, MailboxIsExact, NothingReported, Over
<1> QED BY <1>1, <1>2, ConcatEmptySeq

\* A host's message makes the list longer.
LEMMA SteerLonger ==
  ASSUME TypeOK, NEW r \in Runs, NEW rs, NEW m,
         accepted' = AppendTo(accepted, rs, m)
  PROVE  Len(accepted[r]) <= Len(accepted'[r]) /\ Len(accepted'[r]) \in Nat
<1>1. accepted[r] \in Seq(Messages)
  BY DEF TypeOK
<1>2. Len(Append(accepted[r], m)) = Len(accepted[r]) + 1
  BY <1>1
<1>3. Len(accepted[r]) \in Nat
  BY <1>1, LenProperties
<1> QED BY <1>2, <1>3 DEF AppendTo

LEMMA KnownInit == Init => KnownInv
<1> SUFFICES ASSUME Init, NEW r \in Runs
             PROVE  /\ known[r] <= Len(accepted[r])
                    /\ pc[r] = "calling" => known[r] <= Len(applied[r])
  BY Zenon DEF KnownInv
<1>1. known[r] = -1 /\ accepted[r] = <<>> /\ pc[r] = "idle"
  BY DEF Init, NeverCalled
<1>2. Len(accepted[r]) = 0
  BY <1>1, EmptySeq
<1> QED BY <1>1, <1>2

LEMMA KnownStep == TypeInv /\ MailInv /\ KnownInv /\ [Next]_vars => KnownInv'
<1> SUFFICES ASSUME TypeInv, MailInv, KnownInv, [Next]_vars, NEW x \in Runs
             PROVE  /\ known'[x] <= Len(accepted'[x])
                    /\ pc'[x] = "calling" => known'[x] <= Len(applied'[x])
  BY DEF KnownInv
<1> USE DEF TypeInv, TypeOK
<1>0. /\ known[x] <= Len(accepted[x])
      /\ pc[x] = "calling" => known[x] <= Len(applied[x])
      /\ known[x] \in Int /\ Len(accepted[x]) \in Nat /\ Len(applied[x]) \in Nat
  BY LenProperties DEF KnownInv, NeverCalled
<1> HIDE DEF TypeInv, TypeOK
<1>1. CASE UNCHANGED vars
  BY <1>0, <1>1 DEF vars, loop, mail
<1> DEFINE Good == /\ known'[x] <= Len(accepted'[x])
                   /\ pc'[x] = "calling" => known'[x] <= Len(applied'[x])
<1>2. ASSUME NEW rs, queueSteer(rs) PROVE Good
  <2>1. Len(accepted[x]) <= Len(accepted'[x]) /\ Len(accepted'[x]) \in Nat
    BY <1>2, SteerLonger DEF queueSteer, TypeInv
  <2>2. UNCHANGED <<pc, known, applied>>
    BY <1>2 DEF queueSteer, loop
  <2> QED BY <1>0, <2>1, <2>2
<1>3. ASSUME UNCHANGED <<known, accepted, applied>>,
             pc'[x] = "calling" => pc[x] = "calling"
      PROVE  Good
  BY <1>0, <1>3
<1>4. ASSUME NEW r \in Runs, GoesOnStep(r) PROVE Good
  <2>1. UNCHANGED <<known, accepted>>
    BY <1>4 DEF GoesOnStep, applySteers, mail
  <2>2. CASE pc'[x] # "calling"
    BY <1>0, <2>1, <2>2
  <2>3. CASE x # r
    <3>1. pc'[x] = pc[x]
      BY <1>4, <2>3 DEF GoesOnStep, TypeInv, TypeOK
    <3>2. applied'[x] = applied[x]
      BY <1>4, <2>3 DEF GoesOnStep, applySteers, mail, TypeInv, TypeOK
    <3> QED BY <1>0, <2>1, <3>1, <3>2
  <2>4. CASE x = r /\ pc'[x] = "calling"
    <3>1. pc[r] = "top" /\ applySteers(r)
      BY <1>4, <2>4 DEF GoesOnStep, TypeInv, TypeOK
    <3>2. applied'[r] = accepted[r]
      BY <3>1, TakesAll
    <3> QED BY <1>0, <2>1, <2>4, <3>2
  <2> QED BY <2>2, <2>3, <2>4
<1>5. ASSUME NEW r \in Runs, EndsStep(r) PROVE Good
  <2>1. UNCHANGED <<known, accepted, applied>>
    BY <1>5 DEF EndsStep, mail
  <2>2. pc'[x] = "calling" => pc[x] = "calling"
    BY <1>5 DEF EndsStep, RunOver, EndWith, TypeInv, TypeOK
  <2> QED BY <1>3, <2>1, <2>2
<1>6. ASSUME NEW r \in Runs, CallModel(r) PROVE Good
  <2>1. UNCHANGED <<accepted, applied>>
    BY <1>6 DEF CallModel, mail
  <2>2. known'[x] = known[x] \/ known'[x] = Len(accepted[x])
    BY <1>6 DEF CallModel, TypeInv, TypeOK
  <2>3. pc'[x] = "calling" => pc[x] = "calling" /\ known'[x] = known[x]
    BY <1>6 DEF CallModel, TypeInv, TypeOK
  <2> QED BY <1>0, <2>1, <2>2, <2>3
<1>7. ASSUME NEW r \in Runs,
             \/ StartRun(r) \/ CancelRun(r) \/ DropSteers(r) \/ Observe(r)
             \/ Release(r) \/ SubAgents(r)
      PROVE  Good
  <2>1. UNCHANGED <<known, accepted, applied>>
    BY <1>7 DEF StartRun, CancelRun, DropSteers, Observe, Release, SubAgents,
               forwardSubAgentEvent, mail, loop
  <2>2. pc'[x] = "calling" => pc[x] = "calling"
    BY <1>7 DEF StartRun, CancelRun, DropSteers, Observe, Release, SubAgents,
               forwardSubAgentEvent, loop, TypeInv, TypeOK
  <2> QED BY <1>3, <2>1, <2>2
<1>8. ASSUME NEW r \in Runs, Loop(r) PROVE Good
  <2>1. EndsStep(r) \/ GoesOnStep(r) \/ CallModel(r) \/ DropSteers(r)
    BY <1>8, LoopKinds
  <2> QED BY <1>4, <1>5, <1>6, <1>7, <2>1
<1> HIDE DEF Good
<1>9. Good
  BY <1>1, <1>2, <1>7, <1>8
  DEF Next, Hosts, Steer, SteerRun, Observer, Done, Good
<1> QED BY <1>9 DEF Good

\* What was accepted before one call is in the conversation at the next.
THEOREM OneCallMissed == Spec => MissesOneCallAtMost
<1>1. TypeInv /\ KnownInv /\ [Next]_vars =>
        [\A r \in Runs : pc[r] = "calling" /\ pc'[r] = "model" =>
                           known[r] <= Len(applied'[r])]_vars
  <2> SUFFICES ASSUME TypeInv, KnownInv, [Next]_vars,
                      NEW r \in Runs, pc[r] = "calling", pc'[r] = "model"
               PROVE  known[r] <= Len(applied'[r])
    OBVIOUS
  <2> USE DEF TypeInv, TypeOK
  <2>1. ASSUME NEW x \in Runs, GoesOnStep(x) PROVE FALSE
    BY <2>1 DEF GoesOnStep
  <2>2. ASSUME NEW x \in Runs, EndsStep(x) PROVE FALSE
    BY <2>2 DEF EndsStep, RunOver, EndWith
  <2>3. ASSUME NEW x \in Runs,
               \/ StartRun(x) \/ CancelRun(x) \/ DropSteers(x) \/ Observer(x)
               \/ SubAgents(x)
        PROVE  FALSE
    BY <2>3 DEF StartRun, CancelRun, DropSteers, Observer, Observe, Release,
               SubAgents, forwardSubAgentEvent, loop
  <2>4. ~(UNCHANGED pc)
    OBVIOUS
  <2>5. PICK x \in Runs : CallModel(x)
    BY <2>1, <2>2, <2>3, <2>4, LoopKinds
    DEF Next, Hosts, Steer, SteerRun, queueSteer, Done, vars, loop
  <2>6. applied' = applied
    BY <2>5 DEF CallModel, mail
  <2> QED BY <2>6 DEF KnownInv
<1> QED BY <1>1, TypeInit, TypeStep, MailInit, MailStep, KnownInit, KnownStep,
           PTL
        DEF Spec, MissesOneCallAtMost

\* Every behaviour of the loop is one of the mailbox: it applies and reports
\* in order and all together, and applies nothing once it has reported.
THEOREM ImplementsSteerMailbox == Spec => ImplementsMailbox
<1>1. Init => Mailbox!Init
  BY DEF Init, Mailbox!Init, Mailbox!Empty, Over
<1>2. TypeInv /\ [Next]_vars => [Mailbox!Next]_Mailbox!vars
  <2> SUFFICES ASSUME TypeInv, [Next]_vars PROVE [Mailbox!Next]_Mailbox!vars
    OBVIOUS
  <2>1. CASE Untouched
    BY <2>1 DEF Untouched, Mailbox!vars
  <2>2. ASSUME NEW r \in Runs, Applied(r) PROVE Mailbox!Next
    BY <2>2 DEF Applied, Mailbox!Next, Mailbox!Apply
  <2>3. ASSUME NEW r \in Runs, Dropped(r) PROVE Mailbox!Next
    BY <2>3 DEF Dropped, Mailbox!Next, Mailbox!Report
  <2>4. ASSUME NEW rs \in SUBSET Runs, NEW m \in Messages, Steered(rs, m)
        PROVE  Mailbox!Next
    BY <2>4
    DEF Steered, AppendTo, Mailbox!Next, Mailbox!Accept, Mailbox!AppendTo
  <2> QED BY <2>1, <2>2, <2>3, <2>4, MailKinds
<1> QED BY <1>1, <1>2, TypeInit, TypeStep, PTL
        DEF Spec, ImplementsMailbox, Mailbox!Spec

(***************************************************************************)
(* The status of a task.                                                   *)
(***************************************************************************)
\* What e says of a run that ended with outcome.
Tells(e, outcome) ==
  e = outcome \/ (outcome = "blocked" /\ e = "unsaved" /\ failures > 0)

Recorded(r) ==
  \/ status[r] = end[r]
  \/ end[r] = "blocked" /\ status[r] = "failed" /\ failures > 0
  \/ r \in outlived /\ status[r] \in {"blocked", "cancelled"}

\* The k-th event of the stream decides, or the status does if k is 0; the
\* rest are those of sub-agents that outlived the run.
DecidedAt(r, k) ==
  /\ \A i \in (k + 1)..Len(stream[r]) : stream[r][i] \in ChildEvents
  /\ k < Len(stream[r]) => r \in outlived
  /\ k = 0 => Recorded(r)
  /\ k > 0 => Tells(stream[r][k], end[r])

StatusInvOf(r) ==
  /\ pc[r] \in Going \cup {"idle"} => end[r] = "none"
  /\ pc[r] \in {"ended", "closed", "released"} =>
       end[r] \in Terminals /\ \E k \in 0..Len(stream[r]) : DecidedAt(r, k)
  /\ pc[r] = "released" => stream[r] = <<>>

StatusInv == \A r \in Runs : StatusInvOf(r)

\* Runs a step does not touch keep what they had.
LEMMA OthersKeepStatus ==
  ASSUME TypeInv, failures' \in failures..MaxFailures, NEW x \in Runs,
         StatusInvOf(x),
         pc'[x] = pc[x], stream'[x] = stream[x], status'[x] = status[x],
         end'[x] = end[x], x \in outlived => x \in outlived'
  PROVE  StatusInvOf(x)'
<1>1. failures > 0 => failures' > 0
  BY BoundsAssumption DEF TypeInv, TypeOK
<1>2. ASSUME NEW k \in 0..Len(stream[x]), DecidedAt(x, k)
      PROVE  DecidedAt(x, k)'
  BY <1>1, <1>2 DEF DecidedAt, Recorded, Tells
<1> QED BY <1>2 DEF StatusInvOf

\* An event decides the status, whatever it was.
LEMMA LastEventDecides ==
  ASSUME NEW e \in Events, NEW s
  PROVE  LET n == persistRunTaskState(TypeOf(e),
                                      persistRunTaskEvent(TypeOf(e), s))
         IN  /\ e \in Terminals => n = e
             /\ e = "unsaved" => n = "failed"
             /\ e \in ChildEvents => n \in {"blocked", "cancelled"}
BY DEF persistRunTaskState, persistRunTaskEvent, TypeOf, Events, OwnEvents,
       ChildEvents, Errors, Terminals

LEMMA StatusEnds ==
  ASSUME TypeInv, StatusInv, NEW r \in Runs, EndsStep(r)
  PROVE  StatusInvOf(r)'
<1> USE DEF TypeInv, TypeOK
<1>1. PICK e \in Terminals, evs \in Seq(Events) :
        /\ LastSays(evs, e) /\ FailureStep(evs)
        /\ EndWith(r, e) /\ Emit(r, evs)
  BY DEF EndsStep, RunOver
<1>2. /\ pc'[r] = "ended" /\ end'[r] = e
      /\ stream'[r] = stream[r] \o evs
  BY <1>1 DEF EndWith, Emit
<1> DEFINE a == stream[r]
<1>3. a \in Seq(Events) /\ Len(a) \in Nat /\ Len(evs) \in Nat /\ Len(evs) > 0
  BY <1>1, LenProperties DEF LastSays
<1>4. /\ Len(a \o evs) = Len(a) + Len(evs)
      /\ \A i \in 1..(Len(a) + Len(evs)) :
           (a \o evs)[i] = IF i <= Len(a) THEN a[i] ELSE evs[i - Len(a)]
  BY <1>3, ConcatProperties
<1>5. /\ (a \o evs)[Len(a \o evs)] = evs[Len(evs)]
      /\ Len(a \o evs) \in Nat \ {0}
  BY <1>3, <1>4
<1>6. Tells(evs[Len(evs)], e)'
  BY <1>1, <1>3 DEF LastSays, FailureStep, Tells
<1>7. PICK k \in Nat \ {0} : k = Len(stream'[r])
  BY <1>2, <1>5
<1>8. stream'[r][k] = evs[Len(evs)]
  BY <1>2, <1>5, <1>7
<1>9. DecidedAt(r, k)'
  BY <1>2, <1>6, <1>7, <1>8 DEF DecidedAt, Tells
<1> QED BY <1>2, <1>7, <1>9 DEF StatusInvOf, Going

LEMMA StatusForward ==
  ASSUME TypeInv, StatusInv, NEW r \in Runs, SubAgents(r)
  PROVE  StatusInvOf(r)'
<1> USE DEF TypeInv, TypeOK
<1>1. PICK c \in ChildEvents : forwardSubAgentEvent(r, c)
  BY DEF SubAgents
<1>2. /\ stream'[r] = stream[r] \o <<c>> /\ pc[r] # "released"
      /\ UNCHANGED <<pc, end, status, failures>>
      /\ pc[r] = "closed" => FALSE
      /\ pc[r] = "ended" => outlived' = outlived \cup {r}
  BY <1>1 DEF forwardSubAgentEvent, Emit, loop
<1>3. StatusInvOf(r)
  BY DEF StatusInv
<1>4. CASE pc[r] = "ended"
  <2>1. PICK k \in 0..Len(stream[r]) : DecidedAt(r, k)
    BY <1>3, <1>4 DEF StatusInvOf
  <2>2. /\ stream[r] \in Seq(Events) /\ <<c>> \in Seq(Events)
        /\ Len(stream[r]) \in Nat
    BY LenProperties DEF Events
  <2>3. /\ Len(stream[r] \o <<c>>) = Len(stream[r]) + 1
        /\ \A i \in 1..Len(stream[r]) : (stream[r] \o <<c>>)[i] = stream[r][i]
        /\ (stream[r] \o <<c>>)[Len(stream[r]) + 1] = c
    BY <2>2
  <2>4. \A i \in (k + 1)..Len(stream'[r]) : stream'[r][i] \in ChildEvents
    <3>1. ASSUME NEW i \in (k + 1)..Len(stream'[r])
          PROVE  stream'[r][i] \in ChildEvents
      <4>1. CASE i = Len(stream[r]) + 1
        BY <1>1, <1>2, <2>3, <4>1
      <4>2. CASE i # Len(stream[r]) + 1
        <5>1. i \in (k + 1)..Len(stream[r]) /\ i \in 1..Len(stream[r])
          BY <1>2, <2>2, <2>3, <4>2
        <5> QED BY <1>2, <2>1, <2>3, <5>1 DEF DecidedAt
      <4> QED BY <4>1, <4>2
    <3> QED BY <3>1
  <2>5. k > 0 => Tells(stream'[r][k], end[r])
    <3>1. k > 0 => k \in 1..Len(stream[r])
      BY <2>2
    <3> QED BY <1>2, <2>1, <2>3, <3>1 DEF DecidedAt
  <2>6. r \in outlived' /\ (k = 0 => Recorded(r)')
    BY <1>2, <1>4, <2>1 DEF DecidedAt, Recorded
  <2>7. DecidedAt(r, k)' /\ k \in 0..Len(stream'[r])
    BY <1>2, <2>2, <2>3, <2>4, <2>5, <2>6 DEF DecidedAt, Tells
  <2> QED BY <1>2, <1>3, <1>4, <2>7 DEF StatusInvOf, Going
<1>5. CASE pc[r] # "ended"
  BY <1>2, <1>3, <1>5 DEF StatusInvOf
<1> QED BY <1>4, <1>5

LEMMA StatusObserve ==
  ASSUME TypeInv, StatusInv, NEW r \in Runs, Observe(r)
  PROVE  StatusInvOf(r)'
<1> USE DEF TypeInv, TypeOK
<1> DEFINE s == stream[r]
           n == persistRunTaskState(TypeOf(Head(s)),
                                    persistRunTaskEvent(TypeOf(Head(s)),
                                                        status[r]))
<1>1. /\ s \in Seq(Events) /\ s # <<>> /\ Head(s) \in Events /\ Head(s) = s[1]
      /\ Tail(s) \in Seq(Events) /\ Len(Tail(s)) = Len(s) - 1
      /\ \A i \in 1..Len(Tail(s)) : Tail(s)[i] = s[i + 1]
      /\ Len(s) \in Nat \ {0}
  BY HeadTailProperties, EmptySeq DEF Observe
<1>2. /\ stream'[r] = Tail(s) /\ status'[r] = n
      /\ UNCHANGED <<pc, end, failures, outlived>>
  BY DEF Observe, loop, children
<1>3. StatusInvOf(r)
  BY DEF StatusInv
<1>4. pc[r] # "released"
  BY <1>1, <1>3 DEF StatusInvOf
<1>5. CASE pc[r] \in Going \cup {"idle"}
  BY <1>2, <1>3, <1>5 DEF StatusInvOf, Going
<1>6. CASE pc[r] \in {"ended", "closed"}
  <2>1. PICK k \in 0..Len(s) : DecidedAt(r, k)
    BY <1>3, <1>6 DEF StatusInvOf
  <2>2. end[r] \in Terminals
    BY <1>3, <1>6 DEF StatusInvOf
  <2> DEFINE j == IF k = 0 THEN 0 ELSE k - 1
  <2>3. j \in 0..Len(Tail(s)) /\ (j < Len(Tail(s)) => k < Len(s))
    BY <1>1
  <2>4. \A i \in (j + 1)..Len(Tail(s)) : Tail(s)[i] \in ChildEvents
    <3>1. ASSUME NEW i \in (j + 1)..Len(Tail(s))
          PROVE  Tail(s)[i] \in ChildEvents
      <4>1. i \in 1..Len(Tail(s)) /\ i + 1 \in (k + 1)..Len(s)
        BY <1>1
      <4> QED BY <1>1, <2>1, <4>1 DEF DecidedAt
    <3> QED BY <3>1
  <2>5. j > 0 => Tells(Tail(s)[j], end[r])
    <3>1. j > 0 => k > 0 /\ j \in 1..Len(Tail(s)) /\ j + 1 = k
      BY <1>1
    <3> QED BY <1>1, <2>1, <3>1 DEF DecidedAt
  <2>6. j = 0 => Recorded(r)'
    <3>1. CASE k = 0
      <4>1. 1 \in (k + 1)..Len(s) /\ k < Len(s)
        BY <1>1, <3>1
      <4>2. s[1] \in ChildEvents /\ r \in outlived
        BY <2>1, <4>1 DEF DecidedAt
      <4>3. n \in {"blocked", "cancelled"}
        BY <1>1, <4>2, LastEventDecides
      <4> QED BY <1>2, <4>2, <4>3 DEF Recorded
    <3>2. CASE k = 1
      <4>1. Tells(Head(s), end[r])
        BY <1>1, <2>1, <3>2 DEF DecidedAt
      <4>2. n = end[r] \/ (end[r] = "blocked" /\ n = "failed" /\ failures > 0)
        BY <1>1, <2>2, <4>1, LastEventDecides DEF Tells
      <4> QED BY <1>2, <4>2 DEF Recorded
    <3>3. j = 0 => k = 0 \/ k = 1
      BY <1>1
    <3> QED BY <3>1, <3>2, <3>3
  <2>7. DecidedAt(r, j)'
    <3>1. j < Len(Tail(s)) => r \in outlived
      BY <2>1, <2>3 DEF DecidedAt
    <3> HIDE DEF j, s
    <3> QED BY <1>2, <2>4, <2>5, <2>6, <3>1 DEF DecidedAt, Tells
  <2> QED BY <1>2, <1>6, <2>2, <2>3, <2>7 DEF StatusInvOf, Going
<1> QED BY <1>4, <1>5, <1>6 DEF Going

LEMMA StatusInit == Init => StatusInv
<1> SUFFICES ASSUME Init, NEW r \in Runs PROVE StatusInvOf(r)
  BY Zenon DEF StatusInv
<1>1. pc[r] = "idle" /\ end[r] = "none"
  BY DEF Init
<1> QED BY <1>1 DEF StatusInvOf

LEMMA StatusStep == TypeInv /\ StatusInv /\ [Next]_vars => StatusInv'
<1> SUFFICES ASSUME TypeInv, StatusInv, [Next]_vars, NEW x \in Runs
             PROVE  StatusInvOf(x)'
  BY DEF StatusInv
<1> USE DEF TypeInv, TypeOK
<1>0. StatusInvOf(x) /\ failures \in failures..MaxFailures
  BY BoundsAssumption DEF StatusInv
<1>1. CASE UNCHANGED <<pc, events, status, children>>
  BY <1>0, <1>1, OthersKeepStatus DEF events, children
<1>2. ASSUME NEW r \in Runs, StartRun(r) \/ CallModel(r) PROVE StatusInvOf(x)'
  <2>1. CASE x = r
    BY <1>0, <1>2, <2>1
    DEF StartRun, CallModel, events, children, StatusInvOf, Going
  <2>2. CASE x # r
    BY <1>0, <1>2, <2>2, OthersKeepStatus
    DEF StartRun, CallModel, events, children
  <2> QED BY <2>1, <2>2
<1>3. ASSUME NEW r \in Runs, Release(r) \/ DropSteers(r) PROVE StatusInvOf(x)'
  <2>1. CASE x = r
    <3>1. /\ pc[r] \in {"ended", "closed"} /\ pc'[r] \in {"closed", "released"}
          /\ pc'[r] = "released" => stream[r] = <<>>
          /\ UNCHANGED <<stream, end, status, failures, outlived>>
      BY <1>3 DEF Release, DropSteers, events, children
    <3>2. end[r] \in Terminals /\ \E k \in 0..Len(stream[r]) : DecidedAt(r, k)
      BY <1>0, <2>1, <3>1 DEF StatusInvOf
    <3>3. end'[r] \in Terminals /\ \E k \in 0..Len(stream'[r]) : DecidedAt(r, k)'
      BY <3>1, <3>2 DEF DecidedAt, Recorded, Tells
    <3> QED BY <2>1, <3>1, <3>3 DEF StatusInvOf, Going
  <2>2. CASE x # r
    BY <1>0, <1>3, <2>2, OthersKeepStatus DEF Release, DropSteers, events, children
  <2> QED BY <2>1, <2>2
<1>4. ASSUME NEW r \in Runs, EndsStep(r) PROVE StatusInvOf(x)'
  <2>1. CASE x # r
    BY <1>0, <1>4, <2>1, OthersKeepStatus
    DEF EndsStep, RunOver, EndWith, Emit, FailureStep, children
  <2> QED BY <1>4, <2>1, StatusEnds
<1>5. ASSUME NEW r \in Runs, GoesOnStep(r) PROVE StatusInvOf(x)'
  <2>1. CASE x # r
    BY <1>0, <1>5, <2>1, OthersKeepStatus DEF GoesOnStep, Emit, children
  <2>2. CASE x = r
    <3>1. pc[r] \in Going /\ pc'[r] \in Going /\ end'[r] = end[r]
      BY <1>5 DEF GoesOnStep, Going
    <3> QED BY <1>0, <2>2, <3>1 DEF StatusInvOf, Going
  <2> QED BY <2>1, <2>2
<1>6. ASSUME NEW r \in Runs, Observe(r) PROVE StatusInvOf(x)'
  <2>1. CASE x # r
    BY <1>0, <1>6, <2>1, OthersKeepStatus DEF Observe, loop, children
  <2> QED BY <1>6, <2>1, StatusObserve
<1>7. ASSUME NEW r \in Runs, SubAgents(r) PROVE StatusInvOf(x)'
  <2>1. CASE x # r
    BY <1>0, <1>7, <2>1, OthersKeepStatus
    DEF SubAgents, forwardSubAgentEvent, Emit, loop
  <2> QED BY <1>7, <2>1, StatusForward
<1>8. ASSUME NEW rs, queueSteer(rs)
      PROVE  UNCHANGED <<pc, events, status, children>>
  BY <1>8 DEF queueSteer, loop
<1>9. ASSUME NEW r, CancelRun(r) PROVE UNCHANGED <<pc, events, status, children>>
  BY <1>9 DEF CancelRun, loop
<1> QED BY <1>1, <1>2, <1>3, <1>4, <1>5, <1>6, <1>7, <1>8, <1>9, LoopKinds
        DEF Next, Hosts, Steer, SteerRun, Observer, Done, vars, loop

\* A released run has a task that says how it ended.
THEOREM StatusTellsTheEnd == Spec => []StatusMatchesEnd
<1>1. StatusInv => StatusMatchesEnd
  <2> SUFFICES ASSUME StatusInv, NEW r \in Runs, pc[r] = "released"
               PROVE  Recorded(r)
    BY DEF StatusMatchesEnd, Recorded
  <2>1. stream[r] = <<>> /\ \E k \in 0..Len(stream[r]) : DecidedAt(r, k)
    BY DEF StatusInv, StatusInvOf
  <2>2. DecidedAt(r, 0)
    BY <2>1, EmptySeq
  <2> QED BY <2>2 DEF DecidedAt
<1> QED BY <1>1, TypeInit, TypeStep, StatusInit, StatusStep, PTL DEF Spec

\* Once a run is announced as completed or cancelled, only an event of a
\* sub-agent changes what its task says.
THEOREM CompletedStays == Spec => CompletedRowIsFinal
<1>1. TypeInv /\ StatusInv /\ [Next]_vars =>
        [\A r \in Runs :
           end[r] \in {"completed", "cancelled"} /\ Announced(r) =>
             status'[r] = status[r] \/ Head(stream[r]) \in ChildEvents]_vars
  <2> SUFFICES ASSUME TypeInv, StatusInv, [Next]_vars, NEW r \in Runs,
                      end[r] \in {"completed", "cancelled"}, Announced(r)
               PROVE  status'[r] = status[r] \/ Head(stream[r]) \in ChildEvents
    OBVIOUS
  <2> USE DEF TypeInv, TypeOK
  <2>1. pc[r] \in {"ended", "closed", "released"}
    BY DEF StatusInv, StatusInvOf, Going
  <2>2. ASSUME NEW x \in Runs, Observe(x)
        PROVE  status'[r] = status[r] \/ Head(stream[r]) \in ChildEvents
    <3>1. CASE x # r
      BY <2>2, <3>1 DEF Observe
    <3>2. CASE x = r
      <4>1. PICK k \in 0..Len(stream[r]) : DecidedAt(r, k)
        BY <2>1 DEF StatusInv, StatusInvOf
      <4>2. stream[r] \in Seq(Events) /\ stream[r] # <<>>
        BY <2>2, <3>2 DEF Observe
      <4>3. /\ Head(stream[r]) = stream[r][1] /\ Len(stream[r]) \in Nat \ {0}
        BY <4>2, HeadTailProperties, EmptySeq
      <4>4. k = 0
        <5>1. k > 0 => k \in 1..Len(stream[r])
          BY <4>3
        <5>2. k > 0 => stream[r][k] = end[r]
          BY <4>1 DEF DecidedAt, Tells
        <5>3. k > 0 => stream[r][k] # end[r]
          BY <5>1 DEF Announced
        <5>4. ~(k > 0)
          BY <5>2, <5>3, Zenon
        <5>5. k \in Nat
          BY <4>3
        <5> QED BY <5>4, <5>5
      <4>5. 1 \in (k + 1)..Len(stream[r])
        BY <4>3, <4>4
      <4> QED BY <4>1, <4>3, <4>5 DEF DecidedAt
    <3> QED BY <3>1, <3>2
  <2>3. ASSUME NEW x \in Runs, StartRun(x) PROVE status'[r] = status[r]
    BY <2>1, <2>3 DEF StartRun
  <2>4. ASSUME NEW x \in Runs, Loop(x) PROVE status'[r] = status[r]
    BY <2>4, LoopKinds DEF EndsStep, GoesOnStep, CallModel, DropSteers
  <2>5. ASSUME NEW x \in Runs, SubAgents(x) PROVE status'[r] = status[r]
    BY <2>5 DEF SubAgents, forwardSubAgentEvent
  <2> QED BY <2>2, <2>3, <2>4, <2>5
          DEF Next, Hosts, Steer, SteerRun, queueSteer, CancelRun, Observer,
              Release, Done, vars
<1> QED BY <1>1, TypeInit, TypeStep, StatusInit, StatusStep, PTL
        DEF Spec, CompletedRowIsFinal

-----------------------------------------------------------------------------
(***************************************************************************)
(* The session.  First its merge: what mergeMessagesForSave makes of a     *)
(* history and of the turns of a copy.                                     *)
(***************************************************************************)
\* A set of numbers has a least one: what stands in for induction.
LEMMA LeastNumber ==
  ASSUME NEW S \in SUBSET Nat, S # {}
  PROVE  \E n \in S : \A x \in S : n <= x
<1> DEFINE R == OpToRel(<, Nat)
<1>1. IsWellFoundedOn(R, Nat)
  BY NatLessThanWellFounded, Zenon
<1>2. \A n, x \in Nat : <<x, n>> \notin R => n <= x
  BY DEF OpToRel
<1> HIDE DEF R
<1>3. PICK n \in S : \A x \in S : <<x, n>> \notin R
  BY <1>1, WFMin
<1> QED BY <1>2, <1>3

\* A turn the loop of the merge passes over: stored, or met before.
Known(seen, appended, i) ==
  \/ Key(appended[i]) \in seen
  \/ \E j \in 1..(i - 1) : Key(appended[j]) = Key(appended[i])

\* out has what the loop has after each of the first n turns.
LoopTo(out, n, history, seen, appended) ==
  out = [i \in 0..n |-> IF i = 0 THEN history
                        ELSE IF Known(seen, appended, i) THEN out[i - 1]
                        ELSE Append(out[i - 1], appended[i])]

\* What a loop over the first n turns may make of the history: the turns of
\* the history, then some of the others in their order, ...
Extends(result, n, history, appended) ==
  /\ result \in Seq(Turns) /\ Len(history) <= Len(result)
  /\ \A k \in 1..Len(history) : result[k] = history[k]
  /\ \A k \in (Len(history) + 1)..Len(result) :
       \E p \in 1..n : result[k] = appended[p]
  /\ \A k, l \in (Len(history) + 1)..Len(result) :
       k < l => \E p, q \in 1..n : p < q /\ result[k] = appended[p] /\ result[l] = appended[q]

\* ... and all of them that were not seen.
KeepsAll(result, n, seen, appended) ==
  \A p \in 1..n : \/ Key(appended[p]) \in seen
                  \/ \E k \in DOMAIN result : Key(result[k]) = Key(appended[p])

Merges(n, history, seen, appended) ==
  /\ \E out : LoopTo(out, n, history, seen, appended)
  /\ \A out : LoopTo(out, n, history, seen, appended)
       => Extends(out[n], n, history, appended) /\ KeepsAll(out[n], n, seen, appended)

LEMMA MergesNone ==
  ASSUME NEW history \in Seq(Turns), NEW appended \in Seq(Turns), NEW seen
  PROVE  Merges(0, history, seen, appended)
<1>1. LoopTo([i \in 0..0 |-> history], 0, history, seen, appended)
  BY DEF LoopTo
<1>2. ASSUME NEW out, LoopTo(out, 0, history, seen, appended)
      PROVE  Extends(out[0], 0, history, appended) /\ KeepsAll(out[0], 0, seen, appended)
  <2>1. out[0] = history
    BY <1>2 DEF LoopTo
  <2> QED BY <2>1 DEF Extends, KeepsAll
<1> QED BY <1>1, <1>2 DEF Merges

\* A loop over n turns is one over the turns before the last, and a step.
LEMMA LoopStep ==
  ASSUME NEW n \in Nat, n > 0, NEW history, NEW appended, NEW seen, NEW out,
         LoopTo(out, n, history, seen, appended)
  PROVE  LET before == [i \in 0..(n - 1) |-> out[i]] IN
         /\ LoopTo(before, n - 1, history, seen, appended)
         /\ out[n] = IF Known(seen, appended, n) THEN before[n - 1]
                     ELSE Append(before[n - 1], appended[n])
<1> DEFINE before == [i \in 0..(n - 1) |-> out[i]]
<1>1. \A i \in 0..n : out[i] = IF i = 0 THEN history
                               ELSE IF Known(seen, appended, i) THEN out[i - 1]
                               ELSE Append(out[i - 1], appended[i])
  BY DEF LoopTo
<1>2. \A i \in 0..(n - 1) : i \in 0..n /\ (i # 0 => i - 1 \in 0..(n - 1))
  OBVIOUS
<1>3. before = [i \in 0..(n - 1) |-> IF i = 0 THEN history
                                     ELSE IF Known(seen, appended, i) THEN before[i - 1]
                                     ELSE Append(before[i - 1], appended[i])]
  BY <1>1, <1>2
<1>4. n \in 0..n /\ n # 0 /\ n - 1 \in 0..(n - 1)
  OBVIOUS
<1> QED BY <1>1, <1>3, <1>4 DEF LoopTo

\* A turn taken up or passed over.
LEMMA TurnMerged ==
  ASSUME NEW history \in Seq(Turns), NEW appended \in Seq(Turns), NEW seen,
         NEW n \in 1..Len(appended), NEW before, NEW result,
         Extends(before, n - 1, history, appended), KeepsAll(before, n - 1, seen, appended),
         result = IF Known(seen, appended, n) THEN before ELSE Append(before, appended[n])
  PROVE  Extends(result, n, history, appended) /\ KeepsAll(result, n, seen, appended)
<1>1. n \in Nat /\ n - 1 \in Nat /\ appended[n] \in Turns /\ 1..n = 1..(n - 1) \cup {n}
  OBVIOUS
<1>2. before \in Seq(Turns) /\ Len(history) \in Nat /\ Len(history) <= Len(before)
  BY DEF Extends
<1>3. CASE Known(seen, appended, n)
  <2>1. result = before
    BY <1>3
  <2>2. Extends(result, n, history, appended)
    BY <1>1, <2>1 DEF Extends
  <2>3. \/ Key(appended[n]) \in seen
        \/ \E k \in DOMAIN before : Key(before[k]) = Key(appended[n])
    BY <1>1, <1>3 DEF Known, KeepsAll
  <2>4. KeepsAll(result, n, seen, appended)
    BY <1>1, <2>1, <2>3 DEF KeepsAll
  <2> QED BY <2>2, <2>4
<1>4. CASE ~Known(seen, appended, n)
  <2> DEFINE last == Len(before) + 1
  <2>1. /\ result \in Seq(Turns) /\ Len(result) = last
        /\ \A k \in 1..Len(before) : result[k] = before[k]
        /\ result[last] = appended[n]
    BY <1>1, <1>2, <1>4
  <2>2. /\ Len(before) \in Nat
        /\ \A k \in (Len(history) + 1)..last :
             k # last => k \in (Len(history) + 1)..Len(before) /\ k \in 1..Len(before)
    <3>1. Len(before) \in Nat /\ Len(history) \in Nat
      BY <1>2
    <3>2. \A x, y \in Nat : \A k \in (y + 1)..(x + 1) : k # x + 1 => k \in (y + 1)..x /\ k \in 1..x
      OBVIOUS
    <3> QED BY <3>1, <3>2
  <2>3. ASSUME NEW k \in (Len(history) + 1)..Len(result)
        PROVE  \E p \in 1..n : result[k] = appended[p]
    <3>1. CASE k = last
      BY <1>1, <2>1, <3>1
    <3>2. CASE k # last
      BY <1>1, <2>1, <2>2, <3>2 DEF Extends
    <3> QED BY <3>1, <3>2
  <2>4. ASSUME NEW k \in (Len(history) + 1)..Len(result), NEW l \in (Len(history) + 1)..Len(result),
               k < l
        PROVE  \E p, q \in 1..n : p < q /\ result[k] = appended[p] /\ result[l] = appended[q]
    <3>1. k # last
      BY <2>1, <2>2, <2>4
    <3>2. CASE l = last
      <4>1. PICK p \in 1..(n - 1) : before[k] = appended[p]
        BY <2>1, <2>2, <3>1 DEF Extends
      <4>2. p \in 1..n /\ n \in 1..n /\ p < n
        OBVIOUS
      <4> QED BY <2>1, <2>2, <3>1, <3>2, <4>1, <4>2
    <3>3. CASE l # last
      <4>1. PICK p \in 1..(n - 1), q \in 1..(n - 1) :
              p < q /\ before[k] = appended[p] /\ before[l] = appended[q]
        BY <2>1, <2>2, <2>4, <3>1, <3>3 DEF Extends
      <4> QED BY <1>1, <2>1, <2>2, <3>1, <3>3, <4>1
    <3> QED BY <3>2, <3>3
  <2>5. \A k \in 1..Len(history) : result[k] = history[k]
    BY <1>2, <2>1 DEF Extends
  <2>6. Len(history) <= Len(result)
    BY <1>2, <2>1
  <2>7. Extends(result, n, history, appended)
    <3> HIDE DEF last
    <3> QED BY <2>1, <2>3, <2>4, <2>5, <2>6 DEF Extends
  <2>8. DOMAIN result = 1..last /\ DOMAIN before = 1..Len(before) /\ last \in 1..last
    BY <1>2, <2>1
  <2>9. ASSUME NEW p \in 1..n
        PROVE  \/ Key(appended[p]) \in seen
               \/ \E k \in DOMAIN result : Key(result[k]) = Key(appended[p])
    <3>1. CASE p = n
      BY <2>1, <2>8, <3>1
    <3>2. CASE p # n
      <4>1. \/ Key(appended[p]) \in seen
            \/ \E k \in DOMAIN before : Key(before[k]) = Key(appended[p])
        BY <1>1, <3>2 DEF KeepsAll
      <4> QED BY <2>1, <2>8, <4>1
    <3> QED BY <3>1, <3>2
  <2>10. KeepsAll(result, n, seen, appended)
    BY <2>9 DEF KeepsAll
  <2> QED BY <2>7, <2>10
<1> QED BY <1>3, <1>4

LEMMA MergesOneMore ==
  ASSUME NEW history \in Seq(Turns), NEW appended \in Seq(Turns), NEW seen,
         NEW n \in 1..Len(appended), Merges(n - 1, history, seen, appended)
  PROVE  Merges(n, history, seen, appended)
<1>1. n \in Nat /\ n > 0
  OBVIOUS
<1>2. PICK f : LoopTo(f, n - 1, history, seen, appended)
  BY DEF Merges
<1> DEFINE g == [i \in 0..n |-> IF i < n THEN f[i]
                                ELSE IF Known(seen, appended, n) THEN f[n - 1]
                                ELSE Append(f[n - 1], appended[n])]
<1>3. LoopTo(g, n, history, seen, appended)
  <2>1. \A i \in 0..(n - 1) : f[i] = IF i = 0 THEN history
                                     ELSE IF Known(seen, appended, i) THEN f[i - 1]
                                     ELSE Append(f[i - 1], appended[i])
    BY <1>2 DEF LoopTo
  <2>2. \A i \in 0..n : /\ i < n => i \in 0..(n - 1)
                        /\ i # 0 => g[i - 1] = f[i - 1]
                        /\ i # n => i < n
    BY <1>1
  <2>3. \A i \in 0..n : g[i] = IF i = 0 THEN history
                               ELSE IF Known(seen, appended, i) THEN g[i - 1]
                               ELSE Append(g[i - 1], appended[i])
    BY <1>1, <2>1, <2>2
  <2> HIDE DEF g
  <2>4. g = [i \in 0..n |-> g[i]]
    BY DEF g
  <2> QED BY <2>3, <2>4 DEF LoopTo
<1>4. ASSUME NEW out, LoopTo(out, n, history, seen, appended)
      PROVE  Extends(out[n], n, history, appended) /\ KeepsAll(out[n], n, seen, appended)
  <2> DEFINE before == [i \in 0..(n - 1) |-> out[i]]
  <2>1. /\ LoopTo(before, n - 1, history, seen, appended)
        /\ out[n] = IF Known(seen, appended, n) THEN before[n - 1]
                    ELSE Append(before[n - 1], appended[n])
    BY <1>1, <1>4, LoopStep
  <2> HIDE DEF before
  <2>2. /\ Extends(before[n - 1], n - 1, history, appended)
        /\ KeepsAll(before[n - 1], n - 1, seen, appended)
    BY <2>1 DEF Merges
  <2> QED BY <2>1, <2>2, TurnMerged
<1> QED BY <1>3, <1>4 DEF Merges

LEMMA MergesAll ==
  ASSUME NEW history \in Seq(Turns), NEW appended \in Seq(Turns), NEW seen
  PROVE  Merges(Len(appended), history, seen, appended)
<1> DEFINE Fails == {n \in 0..Len(appended) : ~Merges(n, history, seen, appended)}
<1>1. SUFFICES Fails = {}
  <2>1. Len(appended) \in 0..Len(appended)
    OBVIOUS
  <2> QED BY <2>1
<1>2. SUFFICES ASSUME Fails # {} PROVE FALSE
  OBVIOUS
<1>3. PICK n \in Fails : \A x \in Fails : n <= x
  <2>1. Fails \in SUBSET Nat
    OBVIOUS
  <2> HIDE DEF Fails
  <2> QED BY <1>2, <2>1, LeastNumber
<1>4. n # 0
  BY MergesNone
<1>5. n \in 1..Len(appended) /\ n - 1 \in 0..Len(appended) /\ n - 1 < n
  BY <1>4
<1>6. Merges(n - 1, history, seen, appended)
  BY <1>3, <1>5
<1> QED BY <1>5, <1>6, MergesOneMore

\* mergeMessagesForSave keeps the history, adds turns of the copy alone, in
\* their order, and leaves none of them out that has no like.
LEMMA MergeKeepsAll ==
  ASSUME NEW history \in Seq(Turns), NEW appended \in Seq(Turns), NEW baseline \in Nat
  PROVE  LET result == Merge(history, baseline, appended) IN
         /\ Extends(result, Len(appended), history, appended)
         /\ \A p \in DOMAIN appended :
              \E k \in DOMAIN result : Key(result[k]) = Key(appended[p])
<1> DEFINE seen == {Key(history[i]) : i \in {j \in DOMAIN history :
                                              j > baseline \/ HasTurnID(history[j])}}
           out == CHOOSE f : LoopTo(f, Len(appended), history, seen, appended)
           result == Merge(history, baseline, appended)
<1>1. result = out[Len(appended)]
  BY DEF Merge, LoopTo, Known
<1> HIDE DEF out, result
<1>2. /\ Extends(result, Len(appended), history, appended)
      /\ KeepsAll(result, Len(appended), seen, appended)
  <2>1. \E f : LoopTo(f, Len(appended), history, seen, appended)
    BY MergesAll DEF Merges
  <2>2. LoopTo(out, Len(appended), history, seen, appended)
    BY <2>1 DEF out
  <2>3. Merges(Len(appended), history, seen, appended)
    BY MergesAll
  <2> QED BY <1>1, <2>2, <2>3 DEF Merges
<1>3. ASSUME NEW p \in DOMAIN appended
      PROVE  \E k \in DOMAIN result : Key(result[k]) = Key(appended[p])
  <2>1. CASE Key(appended[p]) \in seen
    <3>1. PICK j \in DOMAIN history : Key(history[j]) = Key(appended[p])
      BY <2>1
    <3>2. j \in DOMAIN result /\ result[j] = history[j]
      BY <1>2 DEF Extends
    <3> QED BY <3>1, <3>2
  <2>2. CASE Key(appended[p]) \notin seen
    BY <1>2, <2>2 DEF KeepsAll
  <2> QED BY <2>1, <2>2
<1> QED BY <1>2, <1>3 DEF result

-----------------------------------------------------------------------------
(***************************************************************************)
(* The invariant of the session.                                           *)
(***************************************************************************)
Saving == {"locked", "merged", "marked"}
Places == {"absent", "reading", "working", "saving", "done", "gone"} \cup Saving

SessionTypes ==
  /\ stored \in {NotFound} \cup Seq(Turns)
  /\ lock \in {Nobody} \cup Writers
  /\ messages \in [Copies -> Seq(Turns)]
  /\ loaded \in [Copies -> Nat]
  /\ at \in [Writers -> Places]
  /\ merged \in [Writers -> Seq(Turns)]
  /\ mark \in [Writers -> Nat]
  /\ blind \in [Writers -> BOOLEAN]
  /\ faults \in Nat
  /\ taken \in [Writers -> Nat]
  /\ overwrote \in Seq(Copies)

\* Whoever is saving holds the lock.
LockHeld == \A w \in Writers : at[w] \in Saving <=> lock = w

\* Nobody saves a copy that was not loaded, and the baseline lies in the copy.
CopiesLoaded ==
  \A c \in Copies :
    /\ loaded[c] <= Len(messages[c])
    /\ at[<<c, "loop">>] = "absent" =>
         /\ messages[c] = << >>
         /\ \A w \in Writers : w[1] = c => at[w] \in {"absent", "reading"}

\* A copy's turns are at the places their numbers tell, and behind the baseline
\* there are only its own; without a row there are no others.
OwnTurns ==
  \A c \in Copies : \A i \in DOMAIN messages[c] :
    /\ messages[c][i].by = c => messages[c][i].n = i
    /\ i > loaded[c] \/ stored = NotFound => messages[c][i].by = c

\* The turns of c in s are those of its copy that its baseline has passed.
Passed(s, c) ==
  \A k \in DOMAIN s : s[k].by = c => s[k].n <= loaded[c] /\ s[k] = messages[c][s[k].n]

\* What is stored of a copy, or known of it to others, its baseline has passed.
StoredIsPassed ==
  \A c \in Copies : /\ Passed(History, c)
                    /\ \A d \in Copies \ {c} : Passed(messages[d], c)

\* The turns of each are in their order, in the history and in every copy.
InTheirOrder ==
  Promise!InOrder(History) /\ \A c \in Copies : Promise!InOrder(messages[c])

\* s is the history, then turns of the copy c alone, up to the last of the first
\* ones, in their order, with a like of each that its baseline has not passed.
AddsTurns(c, s, last) ==
  /\ Len(History) <= Len(s)
  /\ \A k \in 1..Len(History) : s[k] = History[k]
  /\ \A k \in (Len(History) + 1)..Len(s) :
       /\ s[k].by = c /\ s[k].n <= last /\ s[k] = messages[c][s[k].n]
       /\ \A j \in 1..(k - 1) : s[j].by = c => s[j].n < s[k].n
  /\ \A i \in (loaded[c] + 1)..last :
       \E k \in DOMAIN s : Key(s[k]) = Key(messages[c][i])

\* What a save that has read the history is going to write.
AddsToHistory(w) == AddsTurns(w[1], merged[w], taken[w])

\* One that could not read it is going to write its copy.
IsItsCopy(w) ==
  Len(merged[w]) = taken[w] /\ \A k \in 1..taken[w] : merged[w][k] = messages[w[1]][k]

ToWriteIsRight(w) ==
  LET c == w[1] IN
    /\ loaded[c] <= taken[w] /\ taken[w] <= Len(messages[c])
    /\ at[w] = "marked" => taken[w] <= mark[w] /\ mark[w] <= Len(messages[c])
    /\ ~blind[w] => AddsToHistory(w)
    /\ blind[w] => IsItsCopy(w)

SavesAreRight == \A w \in Writers : at[w] \in {"merged", "marked"} => ToWriteIsRight(w)

SessionInv ==
  /\ SessionTypes /\ LockHeld /\ CopiesLoaded /\ OwnTurns /\ StoredIsPassed
  /\ InTheirOrder /\ SavesAreRight /\ PassedTurnsAreStored

-----------------------------------------------------------------------------
(***************************************************************************)
(* The steps, one by one.                                                  *)
(***************************************************************************)
LEMMA WritersAre ==
  /\ \A w \in Writers : w[1] \in Copies /\ w = <<w[1], w[2]>>
  /\ \A c \in Copies : <<c, "loop">> \in Writers
  /\ \A c \in Observed : c \in Copies /\ <<c, "observer">> \in Writers
BY WritersAssumption DEF Writers, Threads

LEMMA HistoryIs ==
  ASSUME SessionTypes
  PROVE  History \in Seq(Turns) /\ Len(History) \in Nat /\ DOMAIN History = 1..Len(History)
BY DEF SessionTypes, History

LEMMA TurnsAre ==
  /\ \A c \in Copies \cup {Earlier}, n \in Nat \ {0}, t \in Texts \cup {NoText} :
       /\ Turn(c, n, t) \in Turns
       /\ Turn(c, n, t).by = c /\ Turn(c, n, t).n = n
  /\ \A s \in Seq(Turns) : \A i \in DOMAIN s : s[i].n \in Nat \ {0}
<1>1. \A m \in Turns : m.n \in Nat \ {0}
  BY DEF Turns
<1>2. \A s \in Seq(Turns) : \A i \in DOMAIN s : s[i] \in Turns
  OBVIOUS
<1>3. \A c \in Copies \cup {Earlier}, n \in Nat \ {0}, t \in Texts \cup {NoText} :
        Turn(c, n, t) \in Turns /\ Turn(c, n, t).by = c /\ Turn(c, n, t).n = n
  BY DEF Turns, Turn
<1> QED BY <1>1, <1>2, <1>3

\* No copy is loaded, and the history is what an earlier process left.
LEMMA SessionInitInv == SessionInit => SessionInv
<1> SUFFICES ASSUME SessionInit PROVE SessionInv
  OBVIOUS
<1>1. \A s \in Beginnings : s \in Seq(Turns) /\ \A k \in DOMAIN s : s[k].by = Earlier
  <2>1. ASSUME NEW t \in Texts \cup {NoText}
        PROVE  /\ <<Turn(Earlier, 1, t)>> \in Seq(Turns)
               /\ \A k \in DOMAIN <<Turn(Earlier, 1, t)>> :
                    <<Turn(Earlier, 1, t)>>[k].by = Earlier
    <3>1. Turn(Earlier, 1, t) \in Turns /\ Turn(Earlier, 1, t).by = Earlier
      BY TurnsAre
    <3> QED BY <3>1
  <2>2. << >> \in Seq(Turns) /\ DOMAIN << >> = {}
    OBVIOUS
  <2> QED BY <2>1, <2>2 DEF Beginnings
<1>2. \A c \in Copies : messages[c] = << >> /\ loaded[c] = 0 /\ DOMAIN messages[c] = {}
  BY DEF SessionInit
<1>3. \A w \in Writers : at[w] \in {"absent", "reading"}
  BY DEF SessionInit
<1>4. SessionTypes
  <2>1. at \in [Writers -> Places]
    BY DEF SessionInit, Places
  <2>2. stored \in {NotFound} \cup Seq(Turns)
    BY <1>1 DEF SessionInit
  <2> QED BY <2>1, <2>2, WritersAssumption DEF SessionInit, SessionTypes
<1>5. LockHeld /\ SavesAreRight
  BY <1>3, WritersAssumption DEF SessionInit, LockHeld, SavesAreRight, Saving
<1>6. CopiesLoaded /\ OwnTurns /\ PassedTurnsAreStored
  BY <1>2, <1>3 DEF CopiesLoaded, OwnTurns, PassedTurnsAreStored
<1>7. StoredIsPassed
  <2>1. \A k \in DOMAIN History : History[k].by = Earlier
    BY <1>1 DEF SessionInit, History
  <2> QED BY <1>2, <2>1, WritersAssumption DEF StoredIsPassed, Passed
<1>8. InTheirOrder
  <2>1. \A k \in DOMAIN History : k = 1
    BY DEF SessionInit, History, Beginnings
  <2> QED BY <1>2, <2>1 DEF InTheirOrder, Promise!InOrder
<1> QED BY <1>4, <1>5, <1>6, <1>7, <1>8 DEF SessionInv

\* A copy is loaded, with the history or with nothing: nothing of it was
\* stored before.
LEMMA LoadInv ==
  ASSUME SessionInv, NEW c \in Copies, Load(c)
  PROVE  SessionInv'
<1> USE DEF SessionInv
<1>0. History \in Seq(Turns) /\ Len(History) \in Nat /\ DOMAIN History = 1..Len(History)
  BY HistoryIs
<1>1. PICK h \in {History, << >>} :
        /\ h # << >> => stored # NotFound
        /\ messages' = [messages EXCEPT ![c] = h]
        /\ loaded' = [loaded EXCEPT ![c] = Len(h)]
        /\ faults' \in Nat
  <2>1. PICK found \in BOOLEAN :
          /\ Reads(found)
          /\ messages' = [messages EXCEPT ![c] = IF found THEN stored ELSE << >>]
          /\ loaded' = [loaded EXCEPT ![c] = IF found THEN Len(stored) ELSE 0]
    BY DEF Load
  <2>2. faults' \in Nat
    BY <2>1 DEF Reads, SessionTypes
  <2>3. CASE found
    <3>1. stored # NotFound
      BY <2>1, <2>3 DEF Reads
    <3> QED BY <2>1, <2>2, <2>3, <3>1 DEF History
  <2>4. CASE ~found
    <3>1. Len(<< >>) = 0
      OBVIOUS
    <3> QED BY <2>1, <2>2, <2>4, <3>1
  <2> QED BY <2>3, <2>4
<1>a. /\ h \in Seq(Turns) /\ Len(h) \in Nat /\ DOMAIN h = 1..Len(h)
      /\ \A k \in DOMAIN h : k \in DOMAIN History /\ h[k] = History[k]
  <2>1. << >> \in Seq(Turns) /\ Len(<< >>) = 0 /\ DOMAIN << >> = {} /\ 1..0 = {}
    OBVIOUS
  <2>2. CASE h = << >>
    BY <2>1, <2>2
  <2>3. CASE h = History
    BY <1>0, <2>3
  <2> QED BY <1>1, <2>2, <2>3
<1>2. /\ <<c, "loop">> \in Writers /\ at[<<c, "loop">>] = "absent"
      /\ at' = [at EXCEPT ![<<c, "loop">>] = "working"]
      /\ History' = History
      /\ UNCHANGED <<stored, lock, merged, mark, blind, taken, skipped, overwrote>>
  BY WritersAre DEF Load, Goes, History, saving
<1>3. \A d \in Copies : /\ messages'[d] = IF d = c THEN h ELSE messages[d]
                        /\ loaded'[d] = IF d = c THEN Len(h) ELSE loaded[d]
  BY <1>1 DEF SessionTypes
<1>4. \A w \in Writers : at'[w] = IF w = <<c, "loop">> THEN "working" ELSE at[w]
  BY <1>2 DEF SessionTypes
<1>5. messages[c] = << >> /\ \A w \in Writers : w[1] = c => at[w] \in {"absent", "reading"}
  BY <1>2 DEF CopiesLoaded
<1>6. loaded[c] = 0
  <2>1. loaded[c] \in Nat /\ loaded[c] <= Len(messages[c])
    BY DEF CopiesLoaded, SessionTypes
  <2>2. Len(messages[c]) = 0
    BY <1>5
  <2> QED BY <2>1, <2>2
<1>b. /\ \A i \in DOMAIN History : History[i].by # c
      /\ \A d \in Copies \ {c} : \A i \in DOMAIN messages[d] : messages[d][i].by # c
  <2>1. ASSUME NEW z \in Seq(Turns), Passed(z, c), NEW i \in DOMAIN z
        PROVE  z[i].by # c
    <3>1. z[i].n \in Nat \ {0}
      BY TurnsAre
    <3> QED BY <1>6, <2>1, <3>1 DEF Passed
  <2> QED BY <1>0, <2>1 DEF StoredIsPassed, SessionTypes
<1>7. SessionTypes'
  <2>1. at' \in [Writers -> Places]
    BY <1>2 DEF SessionTypes, Places
  <2>2. messages' \in [Copies -> Seq(Turns)] /\ loaded' \in [Copies -> Nat]
    BY <1>1, <1>a DEF SessionTypes
  <2> QED BY <1>1, <1>2, <2>1, <2>2 DEF SessionTypes
<1>8. LockHeld'
  BY <1>2, <1>4 DEF LockHeld, Saving
<1>9. CopiesLoaded'
  <2> SUFFICES ASSUME NEW d \in Copies
               PROVE  /\ loaded'[d] <= Len(messages'[d])
                      /\ at'[<<d, "loop">>] = "absent" =>
                           /\ messages'[d] = << >>
                           /\ \A w \in Writers : w[1] = d => at'[w] \in {"absent", "reading"}
    BY Zenon DEF CopiesLoaded
  <2>1. CASE d = c
    BY <1>a, <1>2, <1>3, <1>4, <2>1
  <2>2. CASE d # c
    <3>1. <<d, "loop">> \in Writers /\ <<d, "loop">> # <<c, "loop">>
      BY <2>2, WritersAre
    <3> QED BY <1>2, <1>3, <1>4, <2>2, <3>1, WritersAre DEF CopiesLoaded
  <2> QED BY <2>1, <2>2
<1>10. OwnTurns'
  <2> SUFFICES ASSUME NEW d \in Copies, NEW i \in DOMAIN messages'[d]
               PROVE  /\ messages'[d][i].by = d => messages'[d][i].n = i
                      /\ i > loaded'[d] \/ stored' = NotFound => messages'[d][i].by = d
    BY DEF OwnTurns
  <2>1. CASE d = c
    <3>1. i \in DOMAIN History /\ messages'[d][i] = History[i] /\ ~(i > loaded'[d])
      BY <1>a, <1>3, <2>1
    <3>2. History[i].by # c
      BY <1>b, <3>1
    <3>3. stored # NotFound
      BY <3>1 DEF History
    <3> QED BY <1>2, <2>1, <3>1, <3>2, <3>3
  <2>2. CASE d # c
    BY <1>2, <1>3, <2>2 DEF OwnTurns
  <2> QED BY <2>1, <2>2
<1>11. StoredIsPassed'
  <2>2. ASSUME NEW e \in Copies
        PROVE  Passed(History, e)' /\ \A d \in Copies \ {e} : Passed(messages[d], e)'
    <3>1. Passed(History, e)'
      <4>1. \A k \in DOMAIN History : History[k].by = e => e # c
        BY <1>b
      <4> QED BY <1>2, <1>3, <4>1 DEF Passed, StoredIsPassed
    <3>2. ASSUME NEW d \in Copies \ {e}
          PROVE  Passed(messages[d], e)'
      <4>1. CASE d = c
        <5>1. ASSUME NEW k \in DOMAIN h, h[k].by = e
              PROVE  h[k].n <= loaded[e] /\ h[k] = messages[e][h[k].n]
          BY <1>a, <5>1 DEF StoredIsPassed, Passed
        <5> QED BY <1>3, <4>1, <5>1 DEF Passed
      <4>2. CASE d # c
        <5>1. \A k \in DOMAIN messages[d] : messages[d][k].by = e => e # c
          BY <1>b, <4>2
        <5>2. Passed(messages[d], e)
          BY DEF StoredIsPassed
        <5> QED BY <1>3, <4>2, <5>1, <5>2 DEF Passed
      <4> QED BY <4>1, <4>2
    <3> QED BY <3>1, <3>2
  <2> QED BY <2>2 DEF StoredIsPassed
<1>14. InTheirOrder'
  <2>1. Promise!InOrder(h)
    <3>1. Promise!InOrder(History)
      BY DEF InTheirOrder
    <3> QED BY <1>a, <3>1 DEF Promise!InOrder
  <2>2. ASSUME NEW d \in Copies PROVE Promise!InOrder(messages'[d])
    BY <1>3, <2>1 DEF InTheirOrder
  <2> QED BY <1>2, <2>2 DEF InTheirOrder, Promise!InOrder
<1>12. SavesAreRight'
  <2> SUFFICES ASSUME NEW w \in Writers, at'[w] \in {"merged", "marked"}
               PROVE  ToWriteIsRight(w)'
    BY DEF SavesAreRight
  <2>1. at'[w] = at[w] /\ w[1] # c /\ w[1] \in Copies
    BY <1>4, <1>5, WritersAre
  <2>2. ToWriteIsRight(w)
    BY <2>1 DEF SavesAreRight
  <2>3. messages'[w[1]] = messages[w[1]] /\ loaded'[w[1]] = loaded[w[1]]
    BY <1>3, <2>1
  <2>4. /\ merged'[w] = merged[w] /\ blind'[w] = blind[w] /\ taken'[w] = taken[w]
        /\ mark'[w] = mark[w] /\ at'[w] = at[w] /\ History' = History
    BY <1>2, <2>1
  <2> QED BY <2>2, <2>3, <2>4 DEF ToWriteIsRight, AddsToHistory, AddsTurns, IsItsCopy
<1>13. PassedTurnsAreStored'
  <2>0. History' = History /\ skipped' = skipped
    BY <1>2
  <2> SUFFICES ASSUME NEW d \in Copies, NEW i \in DOMAIN messages'[d],
                      i <= loaded'[d], messages'[d][i] \notin skipped
               PROVE  \E k \in DOMAIN History : Key(History[k]) = Key(messages'[d][i])
    BY <2>0 DEF PassedTurnsAreStored
  <2>1. CASE d = c
    BY <1>a, <1>3, <2>1
  <2>2. CASE d # c
    BY <1>3, <2>2 DEF PassedTurnsAreStored
  <2> QED BY <2>1, <2>2
<1> QED BY <1>7, <1>8, <1>9, <1>10, <1>11, <1>12, <1>13, <1>14

\* A turn is added to a copy that was loaded: whoever saves it meanwhile has
\* taken the turns before it.
LEMMA AddsInv ==
  ASSUME SessionInv, NEW c \in Copies, NEW t \in Texts \cup {NoText}, Adds(c, t),
         at[<<c, "loop">>] # "absent",
         NEW w0 \in Writers, at' = at \/ (at[w0] = "reading" /\ at' = [at EXCEPT ![w0] = "saving"]),
         w0[1] = c, UNCHANGED <<stored, lock, loaded, faults, saving>>
  PROVE  SessionInv'
<1> USE DEF SessionInv
<1> DEFINE last == Len(messages[c]) + 1
<1>1. /\ History' = History
      /\ UNCHANGED <<stored, lock, loaded, merged, mark, blind, faults, taken, skipped, overwrote>>
  BY DEF History, saving
<1>2. messages[c] \in Seq(Turns) /\ Turn(c, last, t) \in Turns /\ loaded[c] \in Nat
  <2>1. messages[c] \in Seq(Turns) /\ loaded[c] \in Nat
    BY DEF SessionTypes
  <2>2. Len(messages[c]) + 1 \in Nat \ {0}
    BY <2>1
  <2> QED BY <2>1, <2>2, TurnsAre
<1>3. messages' = [messages EXCEPT ![c] = Append(messages[c], Turn(c, last, t))]
  BY DEF Adds
<1>4. /\ messages'[c] \in Seq(Turns) /\ Len(messages'[c]) = last
      /\ DOMAIN messages'[c] = 1..last /\ DOMAIN messages[c] = 1..Len(messages[c])
      /\ messages'[c][last] = Turn(c, last, t)
      /\ \A i \in DOMAIN messages[c] : messages'[c][i] = messages[c][i]
      /\ last \in Nat /\ Len(messages[c]) \in Nat
      /\ \A d \in Copies : d # c => messages'[d] = messages[d]
  <2>1. messages'[c] = Append(messages[c], Turn(c, last, t))
    BY <1>3 DEF SessionTypes
  <2>2. \A d \in Copies : d # c => messages'[d] = messages[d]
    BY <1>3 DEF SessionTypes
  <2> QED BY <1>2, <2>1, <2>2
<1> HIDE DEF last
<1>5. \A d \in Copies : \A i \in DOMAIN messages[d] :
         i \in DOMAIN messages'[d] /\ messages'[d][i] = messages[d][i]
  <2> TAKE d \in Copies
  <2> TAKE i \in DOMAIN messages[d]
  <2>1. CASE d = c
    BY <1>4, <2>1 DEF last
  <2>2. CASE d # c
    BY <1>4, <2>2
  <2> QED BY <2>1, <2>2
<1>6. \A d \in Copies : Len(messages[d]) \in Nat /\ Len(messages'[d]) \in Nat
                        /\ Len(messages[d]) <= Len(messages'[d])
                        /\ loaded[d] \in Nat /\ loaded[d] <= Len(messages[d])
                        /\ DOMAIN messages[d] = 1..Len(messages[d])
                        /\ DOMAIN messages'[d] = 1..Len(messages'[d])
  <2> TAKE d \in Copies
  <2>1. messages[d] \in Seq(Turns) /\ loaded[d] \in Nat /\ loaded[d] <= Len(messages[d])
    BY DEF SessionTypes, CopiesLoaded
  <2>2. CASE d = c
    BY <1>4, <2>1, <2>2 DEF last
  <2>3. CASE d # c
    BY <1>4, <2>1, <2>3
  <2> QED BY <2>2, <2>3
<1>7. \A w \in Writers : at'[w] = at[w] \/ (w = w0 /\ at[w] = "reading" /\ at'[w] = "saving")
  BY DEF SessionTypes
<1>8. SessionTypes'
  <2>1. messages' \in [Copies -> Seq(Turns)]
    BY <1>2, <1>3, <1>4 DEF SessionTypes
  <2>2. at' \in [Writers -> Places]
    BY DEF SessionTypes, Places
  <2> QED BY <1>1, <2>1, <2>2 DEF SessionTypes
<1>9. LockHeld'
  BY <1>1, <1>7 DEF LockHeld, Saving
<1>10. CopiesLoaded'
  <2> SUFFICES ASSUME NEW d \in Copies
               PROVE  /\ loaded'[d] <= Len(messages'[d])
                      /\ at'[<<d, "loop">>] = "absent" =>
                           /\ messages'[d] = << >>
                           /\ \A w \in Writers : w[1] = d => at'[w] \in {"absent", "reading"}
    BY Zenon DEF CopiesLoaded
  <2>1. loaded'[d] <= Len(messages'[d])
    BY <1>1, <1>6
  <2>2. at'[<<d, "loop">>] = "absent" => d # c /\ at[<<d, "loop">>] = "absent"
    BY <1>7, WritersAre
  <2> QED BY <1>4, <1>7, <2>1, <2>2 DEF CopiesLoaded
<1>11. OwnTurns'
  <2> SUFFICES ASSUME NEW d \in Copies, NEW i \in DOMAIN messages'[d]
               PROVE  /\ messages'[d][i].by = d => messages'[d][i].n = i
                      /\ i > loaded[d] \/ stored = NotFound => messages'[d][i].by = d
    BY <1>1 DEF OwnTurns
  <2>1. CASE d = c /\ i = last
    BY <1>4, <2>1 DEF Turn
  <2>2. CASE ~(d = c /\ i = last)
    <3>1. i \in DOMAIN messages[d] /\ messages'[d][i] = messages[d][i]
      BY <1>4, <2>2 DEF last
    <3> QED BY <3>1 DEF OwnTurns
  <2> QED BY <2>1, <2>2
<1>12. StoredIsPassed'
  <2>1. ASSUME NEW e \in Copies, NEW z \in Seq(Turns), Passed(z, e)
        PROVE  \A k \in DOMAIN z : z[k].by = e => z[k].n <= loaded[e] /\ z[k] = messages'[e][z[k].n]
    <3> SUFFICES ASSUME NEW k \in DOMAIN z, z[k].by = e
                 PROVE  z[k].n <= loaded[e] /\ z[k] = messages'[e][z[k].n]
      OBVIOUS
    <3>1. z[k].n <= loaded[e] /\ z[k] = messages[e][z[k].n]
      BY <2>1 DEF Passed
    <3>2. z[k].n \in Nat \ {0}
      BY TurnsAre
    <3>3. z[k].n \in DOMAIN messages[e]
      BY <1>6, <3>1, <3>2
    <3> QED BY <1>5, <3>1, <3>3
  <2>2. ASSUME NEW e \in Copies
        PROVE  Passed(History, e)' /\ \A d \in Copies \ {e} : Passed(messages[d], e)'
    <3>1. Passed(History, e)'
      <4>1. History \in Seq(Turns) /\ Passed(History, e)
        BY HistoryIs DEF StoredIsPassed
      <4> QED BY <1>1, <2>1, <4>1 DEF Passed
    <3>2. ASSUME NEW d \in Copies \ {e}
          PROVE  Passed(messages[d], e)'
      <4>1. messages[d] \in Seq(Turns) /\ Passed(messages[d], e)
        BY DEF StoredIsPassed, SessionTypes
      <4>2. \A k \in DOMAIN messages[d] : messages[d][k].by = e =>
              messages[d][k].n <= loaded[e] /\ messages[d][k] = messages'[e][messages[d][k].n]
        BY <2>1, <4>1
      <4>3. CASE d = c
        <5>1. c # e /\ messages'[c][last].by = c
          BY <1>4, <4>3 DEF Turn
        <5>2. \A k \in DOMAIN messages'[c] : k = last \/ k \in DOMAIN messages[c]
          BY <1>4 DEF last
        <5> QED BY <1>1, <1>5, <4>2, <4>3, <5>1, <5>2 DEF Passed
      <4>4. CASE d # c
        BY <1>1, <1>4, <4>2, <4>4 DEF Passed
      <4> QED BY <4>3, <4>4
    <3> QED BY <3>1, <3>2
  <2> QED BY <2>2 DEF StoredIsPassed
<1>15. InTheirOrder'
  <2>1. ASSUME NEW d \in Copies
        PROVE  Promise!InOrder(messages'[d])
    <3>1. Promise!InOrder(messages[d])
      BY DEF InTheirOrder
    <3>2. CASE d = c
      <4> SUFFICES ASSUME NEW i \in DOMAIN messages'[c], NEW j \in DOMAIN messages'[c],
                          i < j, messages'[c][i].by = messages'[c][j].by
                   PROVE  messages'[c][i].n < messages'[c][j].n
        BY <3>2 DEF Promise!InOrder
      <4>1. i \in DOMAIN messages[c]
        BY <1>4 DEF last
      <4>2. CASE j = last
        <5>1. messages[c][i].by = c
          BY <1>4, <4>1, <4>2 DEF Turn
        <5>2. messages[c][i].n = i
          BY <4>1, <5>1 DEF OwnTurns
        <5> QED BY <1>4, <4>1, <4>2, <5>2 DEF Turn
      <4>3. CASE j # last
        <5>1. j \in DOMAIN messages[c]
          BY <1>4, <4>3 DEF last
        <5>2. messages'[c][i] = messages[c][i] /\ messages'[c][j] = messages[c][j]
          BY <1>4, <4>1, <5>1
        <5>3. messages[c][i].by = messages[c][j].by
          BY <3>2, <5>2
        <5>4. messages[c][i].n < messages[c][j].n
          BY ONLY <3>1, <3>2, <4>1, <5>1, <5>3, i < j DEF Promise!InOrder
        <5> QED BY <3>2, <5>2, <5>4
      <4> QED BY <4>2, <4>3
    <3>3. CASE d # c
      BY <1>4, <3>1, <3>3
    <3> QED BY <3>2, <3>3
  <2> QED BY <1>1, <2>1 DEF InTheirOrder, Promise!InOrder
<1>13. SavesAreRight'
  <2> SUFFICES ASSUME NEW w \in Writers, at'[w] \in {"merged", "marked"}
               PROVE  ToWriteIsRight(w)'
    BY DEF SavesAreRight
  <2>1. at'[w] = at[w] /\ w[1] \in Copies
    BY <1>7, WritersAre
  <2>2. ToWriteIsRight(w)
    BY <2>1 DEF SavesAreRight
  <2>3. /\ loaded[w[1]] \in Nat /\ taken[w] \in Nat /\ mark[w] \in Nat
        /\ DOMAIN messages[w[1]] = 1..Len(messages[w[1]])
    BY <2>1 DEF SessionTypes
  <2>4. taken[w] <= Len(messages'[w[1]])
        /\ (at[w] = "marked" => mark[w] <= Len(messages'[w[1]]))
    BY <1>6, <2>1, <2>2, <2>3 DEF ToWriteIsRight
  <2>5. \A i \in 1..taken[w] : messages'[w[1]][i] = messages[w[1]][i]
    BY <1>5, <1>6, <2>1, <2>2, <2>3 DEF ToWriteIsRight
  <2>6. ASSUME ~blind[w]
        PROVE  AddsToHistory(w)'
    <3>1. AddsToHistory(w)
      BY <2>2, <2>6 DEF ToWriteIsRight
    <3>2. \A i \in (loaded[w[1]] + 1)..taken[w] :
             \E k \in DOMAIN merged[w] : Key(merged[w][k]) = Key(messages'[w[1]][i])
      <4> TAKE i \in (loaded[w[1]] + 1)..taken[w]
      <4>1. PICK k \in DOMAIN merged[w] : Key(merged[w][k]) = Key(messages[w[1]][i])
        BY <3>1 DEF AddsToHistory, AddsTurns
      <4>2. i \in 1..taken[w]
        BY <2>3
      <4> QED BY <2>5, <4>1, <4>2
    <3>3. \A k \in (Len(History) + 1)..Len(merged[w]) :
            merged[w][k] = messages'[w[1]][merged[w][k].n]
      <4> TAKE k \in (Len(History) + 1)..Len(merged[w])
      <4>1. merged[w][k] = messages[w[1]][merged[w][k].n] /\ merged[w][k].n <= taken[w]
        BY <3>1 DEF AddsToHistory, AddsTurns
      <4>2. merged[w][k].n \in Nat \ {0}
        <5>1. k \in DOMAIN merged[w] /\ merged[w] \in Seq(Turns)
          <6>1. merged[w] \in Seq(Turns) /\ Len(History) \in Nat
            BY HistoryIs DEF SessionTypes
          <6> QED BY <6>1
        <5> QED BY <5>1, TurnsAre
      <4>3. merged[w][k].n \in 1..taken[w]
        BY <2>3, <4>1, <4>2
      <4> QED BY <2>5, <4>1, <4>3
    <3> QED BY <1>1, <3>1, <3>2, <3>3 DEF AddsToHistory, AddsTurns
  <2>7. ASSUME blind[w]
        PROVE  IsItsCopy(w)'
    BY <1>1, <2>2, <2>5, <2>7 DEF ToWriteIsRight, IsItsCopy
  <2> QED BY <1>1, <2>1, <2>2, <2>4, <2>6, <2>7 DEF ToWriteIsRight
<1>14. PassedTurnsAreStored'
  <2> SUFFICES ASSUME NEW d \in Copies, NEW i \in DOMAIN messages'[d],
                      i <= loaded[d], messages'[d][i] \notin skipped
               PROVE  \E k \in DOMAIN History : Key(History[k]) = Key(messages'[d][i])
    BY <1>1 DEF PassedTurnsAreStored
  <2>1. i \in DOMAIN messages[d]
    BY <1>6
  <2> QED BY <1>5, <2>1 DEF PassedTurnsAreStored
<1> QED BY <1>8, <1>9, <1>10, <1>11, <1>12, <1>13, <1>14, <1>15

\* A save is called, or the copy is forgotten.
LEMMA MovesInv ==
  ASSUME SessionInv, NEW c \in Copies, CallSave(c) \/ Leave(c)
  PROVE  SessionInv'
<1> USE DEF SessionInv
<1>1. /\ at[<<c, "loop">>] = "working"
      /\ \/ at' = [at EXCEPT ![<<c, "loop">>] = "saving"]
         \/ at' = [at EXCEPT ![<<c, "loop">>] = "gone"]
      /\ UNCHANGED <<stored, lock, messages, loaded, merged, mark, blind, faults, taken, skipped, overwrote>>
      /\ History' = History /\ <<c, "loop">> \in Writers
  BY WritersAre DEF CallSave, Leave, Goes, saving, History
<1>2. \A w \in Writers : at'[w] = at[w]
                         \/ (w = <<c, "loop">> /\ at[w] = "working" /\ at'[w] \in {"saving", "gone"})
  BY <1>1 DEF SessionTypes
<1>3. SessionTypes'
  BY <1>1 DEF SessionTypes, Places
<1>4. LockHeld'
  BY <1>1, <1>2 DEF LockHeld, Saving
<1>5. CopiesLoaded'
  <2>a. ASSUME NEW d \in Copies PROVE loaded'[d] <= Len(messages'[d])
    BY <1>1 DEF CopiesLoaded
  <2> SUFFICES ASSUME NEW d \in Copies, at'[<<d, "loop">>] = "absent"
               PROVE  /\ messages'[d] = << >>
                      /\ \A w \in Writers : w[1] = d => at'[w] \in {"absent", "reading"}
    BY <2>a, Zenon DEF CopiesLoaded
  <2>1. at[<<d, "loop">>] = "absent" /\ d # c
    BY <1>1, <1>2, WritersAre
  <2> QED BY <1>1, <1>2, <2>1 DEF CopiesLoaded
<1>6. OwnTurns' /\ StoredIsPassed' /\ InTheirOrder' /\ PassedTurnsAreStored'
  BY <1>1 DEF OwnTurns, StoredIsPassed, Passed, InTheirOrder, PassedTurnsAreStored
<1>7. SavesAreRight'
  <2> SUFFICES ASSUME NEW w \in Writers, at'[w] \in {"merged", "marked"}
               PROVE  ToWriteIsRight(w)'
    BY DEF SavesAreRight
  <2>1. at'[w] = at[w]
    BY <1>2
  <2>2. ToWriteIsRight(w)
    BY <2>1 DEF SavesAreRight
  <2> QED BY <1>1, <2>1, <2>2 DEF ToWriteIsRight, AddsToHistory, AddsTurns, IsItsCopy
<1> QED BY <1>3, <1>4, <1>5, <1>6, <1>7

LEMMA LockInv ==
  ASSUME SessionInv, NEW w \in Writers, LockSession(w)
  PROVE  SessionInv'
<1> USE DEF SessionInv
<1>1. /\ at[w] = "saving" /\ lock = Nobody /\ lock' = w
      /\ at' = [at EXCEPT ![w] = "locked"] /\ History' = History
      /\ UNCHANGED <<stored, messages, loaded, merged, mark, blind, faults, taken, skipped, overwrote>>
  BY DEF LockSession, Goes, saving, History
<1>2. \A v \in Writers : at'[v] = IF v = w THEN "locked" ELSE at[v]
  BY <1>1 DEF SessionTypes
<1>3. \A v \in Writers : at[v] \notin Saving
  BY <1>1, WritersAssumption DEF LockHeld
<1>4. SessionTypes'
  BY <1>1 DEF SessionTypes, Places, Saving
<1>5. LockHeld'
  BY <1>1, <1>2, <1>3 DEF LockHeld, Saving
<1>6. CopiesLoaded'
  <2>a. ASSUME NEW d \in Copies PROVE loaded'[d] <= Len(messages'[d])
    BY <1>1 DEF CopiesLoaded
  <2> SUFFICES ASSUME NEW d \in Copies, at'[<<d, "loop">>] = "absent"
               PROVE  /\ messages'[d] = << >>
                      /\ \A v \in Writers : v[1] = d => at'[v] \in {"absent", "reading"}
    BY <2>a, Zenon DEF CopiesLoaded
  <2>1. at[<<d, "loop">>] = "absent"
    BY <1>1, <1>2, WritersAre
  <2> QED BY <1>1, <1>2, <2>1 DEF CopiesLoaded
<1>7. OwnTurns' /\ StoredIsPassed' /\ InTheirOrder' /\ PassedTurnsAreStored'
  BY <1>1 DEF OwnTurns, StoredIsPassed, Passed, InTheirOrder, PassedTurnsAreStored
<1>8. SavesAreRight'
  BY <1>2, <1>3 DEF SavesAreRight, Saving
<1> QED BY <1>4, <1>5, <1>6, <1>7, <1>8

\* What a save that has read the history takes is right when it takes it, and
\* so is what one takes for a session that is not stored.
LEMMA ToWriteRight ==
  ASSUME SessionInv, NEW c \in Copies, NEW found \in BOOLEAN, found = (stored # NotFound)
  PROVE  /\ ToWrite(c, found) \in Seq(Turns)
         /\ AddsTurns(c, ToWrite(c, found), Len(messages[c]))
<1> DEFINE m == ToWrite(c, found)
           base == loaded[c]
           own == messages[c]
<1>1. /\ own \in Seq(Turns) /\ Len(own) \in Nat /\ DOMAIN own = 1..Len(own)
      /\ base \in Nat /\ base <= Len(own)
  <2>1. own \in Seq(Turns) /\ base \in Nat
    BY DEF SessionInv, SessionTypes
  <2>2. base <= Len(own)
    BY DEF SessionInv, CopiesLoaded
  <2> QED BY <2>1, <2>2
<1>2. History \in Seq(Turns) /\ Len(History) \in Nat /\ DOMAIN History = 1..Len(History)
  BY HistoryIs DEF SessionInv
<1>3. \A i \in 1..Len(own) : /\ own[i].by = c => own[i].n = i
                             /\ i > base \/ stored = NotFound => own[i].by = c
  BY <1>1 DEF SessionInv, OwnTurns
<1> HIDE DEF base, own
<1>4. CASE stored = NotFound
  <2>1. m = own /\ Len(History) = 0
    BY <1>4 DEF ToWrite, History, own
  <2>2. \A k \in 1..Len(own) :
          /\ own[k].by = c /\ own[k].n <= Len(own) /\ own[k] = own[own[k].n]
          /\ \A j \in 1..(k - 1) : own[j].by = c => own[j].n < own[k].n
    BY <1>1, <1>3, <1>4
  <2> HIDE DEF m
  <2>3. \A i \in (base + 1)..Len(own) : \E k \in DOMAIN own : Key(own[k]) = Key(own[i])
    BY <1>1
  <2> QED BY <1>1, <2>1, <2>2, <2>3 DEF AddsTurns, m, own, base
<1>5. CASE stored # NotFound
  <2> DEFINE a == AppendedSince(c)
  <2>1. /\ a \in Seq(Turns) /\ Len(a) = Len(own) - base /\ DOMAIN a = 1..Len(a)
        /\ \A p \in 1..Len(a) : a[p] = own[base + p]
    <3>1. a = SubSeq(own, base + 1, Len(own))
      BY DEF AppendedSince, own, base
    <3>2. base + 1 \in 1..(Len(own) + 1) /\ Len(own) \in base..Len(own)
      BY <1>1
    <3> HIDE DEF a
    <3>3. /\ a \in Seq(Turns) /\ Len(a) = Len(own) - base
          /\ \A p \in 1..(Len(own) - base) : a[p] = own[base + p]
      <4>1. /\ Len(a) = IF base + 1 <= Len(own) THEN Len(own) - (base + 1) + 1 ELSE 0
            /\ \A p \in 1..(Len(own) - (base + 1) + 1) : a[p] = own[base + 1 + p - 1]
        BY <1>1, <3>1, <3>2
      <4>2. a \in Seq(Turns)
        BY <1>1, <3>1, <3>2
      <4>3. /\ Len(own) - (base + 1) + 1 = Len(own) - base
            /\ base + 1 <= Len(own) \/ Len(own) - base = 0
        <5>1. Len(own) \in Nat /\ base \in Nat /\ base <= Len(own)
          BY <1>1
        <5> QED BY <5>1
      <4>4. ASSUME NEW p \in 1..(Len(own) - base)
            PROVE  a[p] = own[base + p]
        <5>1. base + 1 + p - 1 = base + p
          BY <1>1
        <5> QED BY <4>1, <4>3, <5>1
      <4> QED BY <4>1, <4>2, <4>3, <4>4
    <3> QED BY <1>1, <3>3
  <2> HIDE DEF a
  <2>2. \A p \in 1..Len(a) : /\ a[p].by = c /\ a[p].n = base + p /\ base + p <= Len(own)
                             /\ a[p] = own[a[p].n]
    BY <1>1, <1>3, <2>1
  <2>3. m = Merge(History, base, a)
    BY <1>5 DEF ToWrite, History, a, base
  <2> HIDE DEF m
  <2>4. /\ Extends(m, Len(a), History, a)
        /\ \A p \in DOMAIN a : \E k \in DOMAIN m : Key(m[k]) = Key(a[p])
    BY <1>1, <1>2, <2>1, <2>3, MergeKeepsAll
  <2>5. m \in Seq(Turns) /\ Len(History) <= Len(m) /\ \A k \in 1..Len(History) : m[k] = History[k]
    BY <2>4 DEF Extends
  <2>6. ASSUME NEW k \in (Len(History) + 1)..Len(m)
        PROVE  m[k].by = c /\ m[k].n <= Len(own) /\ base < m[k].n /\ m[k] = own[m[k].n]
    <3>1. PICK p \in 1..Len(a) : m[k] = a[p]
      BY <2>4 DEF Extends
    <3> QED BY <1>1, <2>2, <3>1
  <2>7. ASSUME NEW k \in (Len(History) + 1)..Len(m), NEW j \in 1..(k - 1), m[j].by = c
        PROVE  m[j].n < m[k].n
    <3>1. CASE j <= Len(History)
      <4>1. m[j] = History[j] /\ j \in DOMAIN History
        BY <1>2, <2>5, <3>1
      <4>2. m[j].n <= base /\ m[j].n \in Nat
        BY <1>2, <2>7, <4>1, TurnsAre DEF SessionInv, StoredIsPassed, Passed, base
      <4>3. m[k].n \in Nat
        BY <1>2, <2>5, TurnsAre
      <4> QED BY <1>1, <2>6, <4>2, <4>3
    <3>2. CASE j > Len(History)
      <4>1. j \in (Len(History) + 1)..Len(m) /\ j < k
        BY <1>2, <2>5, <3>2
      <4>2. PICK p \in 1..Len(a), q \in 1..Len(a) : p < q /\ m[j] = a[p] /\ m[k] = a[q]
        BY <2>4, <4>1 DEF Extends
      <4> QED BY <1>1, <2>2, <4>2
    <3>3. j <= Len(History) \/ j > Len(History)
      BY <1>2
    <3> QED BY <3>1, <3>2, <3>3
  <2>8. ASSUME NEW i \in (base + 1)..Len(own)
        PROVE  \E k \in DOMAIN m : Key(m[k]) = Key(own[i])
    <3>1. i - base \in 1..Len(a) /\ a[i - base] = own[i]
      <4>1. i - base \in 1..Len(a) /\ base + (i - base) = i
        BY <1>1, <2>1
      <4> QED BY <2>1, <4>1
    <3>2. PICK k \in DOMAIN m : Key(m[k]) = Key(a[i - base])
      BY <2>1, <2>4, <3>1
    <3> QED BY <3>1, <3>2
  <2> QED BY <2>5, <2>6, <2>7, <2>8 DEF AddsTurns, m, own, base
<1> QED BY <1>4, <1>5

LEMMA MergeInv ==
  ASSUME SessionInv, NEW w \in Writers, MergeStored(w)
  PROVE  SessionInv'
<1> USE DEF SessionInv
<1> DEFINE c == w[1]
<1>1. /\ at[w] = "locked" /\ at' = [at EXCEPT ![w] = "merged"]
      /\ taken' = [taken EXCEPT ![w] = Len(messages[c])]
      /\ History' = History
      /\ UNCHANGED <<stored, lock, messages, loaded, mark, skipped, overwrote>>
  BY DEF MergeStored, Goes, History
<1>a. PICK found \in BOOLEAN :
        /\ Reads(found)
        /\ merged' = [merged EXCEPT ![w] = ToWrite(c, found)]
        /\ blind' = [blind EXCEPT ![w] = ~found /\ stored # NotFound]
  BY DEF MergeStored
<1>b. /\ merged'[w] = ToWrite(c, found) /\ taken'[w] = Len(messages[c]) /\ at'[w] = "merged"
      /\ blind'[w] = (~found /\ stored # NotFound)
  BY <1>1, <1>a DEF SessionTypes
<1>2. c \in Copies
  BY WritersAre
<1>3. lock = w /\ \A v \in Writers : v # w => at[v] \notin Saving
  BY <1>1 DEF LockHeld, Saving
<1>4. \A v \in Writers : at'[v] = IF v = w THEN "merged" ELSE at[v]
  BY <1>1 DEF SessionTypes
<1>5. ToWrite(c, found) \in Seq(Turns) /\ Len(messages[c]) \in Nat /\ messages[c] \in Seq(Turns)
  <2>1. messages[c] \in Seq(Turns)
    BY <1>2 DEF SessionTypes
  <2>2. CASE found
    <3>1. found = (stored # NotFound)
      BY <1>a, <2>2 DEF Reads
    <3>2. ToWrite(c, found) \in Seq(Turns)
      BY <1>2, <1>a, <3>1, ToWriteRight
    <3> QED BY <2>1, <3>2
  <2>3. CASE ~found
    BY <2>1, <2>3 DEF ToWrite
  <2> QED BY <2>1, <2>2, <2>3
<1>6. SessionTypes'
  <2>1. at' \in [Writers -> Places]
    BY <1>1 DEF SessionTypes, Places, Saving
  <2>2. faults' \in Nat
    BY <1>a DEF Reads, SessionTypes
  <2>3. blind' \in [Writers -> BOOLEAN]
    <3> DEFINE v == ~found /\ stored # NotFound
    <3>1. v \in BOOLEAN /\ blind' = [blind EXCEPT ![w] = v]
      BY <1>a
    <3> HIDE DEF v
    <3> QED BY <3>1 DEF SessionTypes
  <2> HIDE DEF c
  <2> QED BY <1>1, <1>a, <1>5, <2>1, <2>2, <2>3 DEF SessionTypes
<1>7. LockHeld'
  BY <1>1, <1>3, <1>4 DEF LockHeld, Saving
<1>8. CopiesLoaded'
  <2>a. ASSUME NEW d \in Copies PROVE loaded'[d] <= Len(messages'[d])
    BY <1>1 DEF CopiesLoaded
  <2> SUFFICES ASSUME NEW d \in Copies, at'[<<d, "loop">>] = "absent"
               PROVE  /\ messages'[d] = << >>
                      /\ \A v \in Writers : v[1] = d => at'[v] \in {"absent", "reading"}
    BY <2>a, Zenon DEF CopiesLoaded
  <2>1. at[<<d, "loop">>] = "absent"
    BY <1>1, <1>4, WritersAre
  <2> QED BY <1>1, <1>4, <2>1 DEF CopiesLoaded
<1>9. OwnTurns' /\ StoredIsPassed' /\ InTheirOrder' /\ PassedTurnsAreStored'
  BY <1>1 DEF OwnTurns, StoredIsPassed, Passed, InTheirOrder, PassedTurnsAreStored
<1>10. SavesAreRight'
  <2> SUFFICES ASSUME NEW v \in Writers, at'[v] \in {"merged", "marked"}
               PROVE  ToWriteIsRight(v)'
    BY DEF SavesAreRight
  <2>1. v = w
    BY <1>3, <1>4 DEF Saving
  <2>2. loaded[c] <= Len(messages[c])
    BY <1>2 DEF CopiesLoaded
  <2>3. ASSUME ~blind'[w]
        PROVE  AddsToHistory(w)'
    <3>1. found = (stored # NotFound)
      BY <1>a, <1>b, <2>3 DEF Reads
    <3>2. AddsTurns(c, ToWrite(c, found), Len(messages[c]))
      BY <1>2, <1>a, <3>1, ToWriteRight
    <3> QED BY <1>1, <1>b, <3>2 DEF AddsToHistory, AddsTurns
  <2>4. ASSUME blind'[w]
        PROVE  IsItsCopy(w)'
    <3>1. merged'[w] = messages[c]
      BY <1>b, <2>4 DEF ToWrite
    <3> QED BY <1>1, <1>b, <3>1 DEF IsItsCopy
  <2> QED BY <1>1, <1>b, <1>5, <2>1, <2>2, <2>3, <2>4 DEF ToWriteIsRight
<1> QED BY <1>6, <1>7, <1>8, <1>9, <1>10

LEMMA MarkInv ==
  ASSUME SessionInv, NEW w \in Writers, MarkBaseline(w)
  PROVE  SessionInv'
<1> USE DEF SessionInv
<1> DEFINE c == w[1]
<1>1. /\ at[w] = "merged" /\ at' = [at EXCEPT ![w] = "marked"]
      /\ mark' = [mark EXCEPT ![w] = Len(messages[c])]
      /\ History' = History
      /\ UNCHANGED <<stored, lock, messages, loaded, merged, blind, faults, taken, skipped, overwrote>>
  BY DEF MarkBaseline, NewBaseline, Goes, History
<1>2. c \in Copies /\ Len(messages[c]) \in Nat
  BY WritersAre DEF SessionTypes
<1>3. lock = w /\ \A v \in Writers : v # w => at[v] \notin Saving
  BY <1>1 DEF LockHeld, Saving
<1>4. \A v \in Writers : at'[v] = IF v = w THEN "marked" ELSE at[v]
  BY <1>1 DEF SessionTypes
<1>5. SessionTypes'
  <2>1. at' \in [Writers -> Places]
    BY <1>1 DEF SessionTypes, Places, Saving
  <2> HIDE DEF c
  <2> QED BY <1>1, <1>2, <2>1 DEF SessionTypes
<1>6. LockHeld'
  BY <1>1, <1>3, <1>4 DEF LockHeld, Saving
<1>7. CopiesLoaded'
  <2>a. ASSUME NEW d \in Copies PROVE loaded'[d] <= Len(messages'[d])
    BY <1>1 DEF CopiesLoaded
  <2> SUFFICES ASSUME NEW d \in Copies, at'[<<d, "loop">>] = "absent"
               PROVE  /\ messages'[d] = << >>
                      /\ \A v \in Writers : v[1] = d => at'[v] \in {"absent", "reading"}
    BY <2>a, Zenon DEF CopiesLoaded
  <2>1. at[<<d, "loop">>] = "absent"
    BY <1>1, <1>4, WritersAre
  <2> QED BY <1>1, <1>4, <2>1 DEF CopiesLoaded
<1>8. OwnTurns' /\ StoredIsPassed' /\ InTheirOrder' /\ PassedTurnsAreStored'
  BY <1>1 DEF OwnTurns, StoredIsPassed, Passed, InTheirOrder, PassedTurnsAreStored
<1>9. SavesAreRight'
  <2> SUFFICES ASSUME NEW v \in Writers, at'[v] \in {"merged", "marked"}
               PROVE  ToWriteIsRight(v)'
    BY DEF SavesAreRight
  <2>1. v = w
    BY <1>3, <1>4 DEF Saving
  <2>2. ToWriteIsRight(w)
    BY <1>1 DEF SavesAreRight
  <2>3. mark'[w] = Len(messages[c])
    BY <1>1 DEF SessionTypes
  <2>4. taken[w] <= mark'[w] /\ mark'[w] <= Len(messages[c])
    BY <1>2, <2>2, <2>3 DEF ToWriteIsRight
  <2> QED BY <1>1, <2>1, <2>2, <2>4 DEF ToWriteIsRight, AddsToHistory, AddsTurns, IsItsCopy
<1> QED BY <1>5, <1>6, <1>7, <1>8, <1>9

\* The write, or its failure: what is written is right, and a turn that is
\* passed without it is a skipped one.
LEMMA WriteInv ==
  ASSUME SessionInv, NEW w \in Writers, Write(w)
  PROVE  SessionInv'
<1> USE DEF SessionInv
<1> DEFINE c == w[1]
<1>1. /\ at[w] = "marked" /\ lock' = Nobody /\ messages' = messages
      /\ loaded' = [loaded EXCEPT ![c] = mark[w]]
      /\ at' = [at EXCEPT ![w] = IF w[2] = "loop" THEN "working" ELSE "done"]
      /\ merged' = [merged EXCEPT ![w] = << >>]
      /\ mark' = [mark EXCEPT ![w] = 0] /\ taken' = [taken EXCEPT ![w] = 0]
      /\ blind' = [blind EXCEPT ![w] = FALSE]
  BY DEF Write, Goes
<1>2. \/ /\ stored' = merged[w] /\ faults' = faults
         /\ skipped' = skipped \cup Part(c, taken[w], mark[w])
                               \cup (IF blind[w] THEN Overwritten(w) ELSE {})
      \/ /\ stored' = stored /\ faults' = faults + 1
         /\ skipped' = skipped \cup Part(c, loaded[c], mark[w])
  BY DEF Write
<1>b. overwrote' = overwrote \/ overwrote' = Append(overwrote, c)
  BY DEF Write
<1>3. c \in Copies
  BY WritersAre
<1>4. ToWriteIsRight(w)
  BY <1>1 DEF SavesAreRight
<1>5. /\ messages[c] \in Seq(Turns) /\ loaded[c] \in Nat /\ mark[w] \in Nat /\ taken[w] \in Nat
      /\ merged[w] \in Seq(Turns) /\ DOMAIN merged[w] = 1..Len(merged[w])
      /\ DOMAIN messages[c] = 1..Len(messages[c])
  BY <1>3 DEF SessionTypes
<1>6. loaded[c] <= taken[w] /\ taken[w] <= mark[w] /\ mark[w] <= Len(messages[c])
  BY <1>1, <1>4 DEF ToWriteIsRight
<1>7. lock = w /\ \A v \in Writers : v # w => at[v] \notin Saving
  BY <1>1 DEF LockHeld, Saving
<1>8. \A v \in Writers : /\ v # w => at'[v] = at[v]
                         /\ v = w => at'[v] \in {"working", "done"}
                         /\ at'[v] \notin Saving
  BY <1>1, <1>7 DEF SessionTypes, Saving
<1>9. \A d \in Copies : loaded'[d] = IF d = c THEN mark[w] ELSE loaded[d]
  BY <1>1, <1>3 DEF SessionTypes
<1>10. History \in Seq(Turns) /\ Len(History) \in Nat /\ DOMAIN History = 1..Len(History)
  BY HistoryIs
<1>11. \/ History' = merged[w] /\ stored' = merged[w]
       \/ History' = History /\ stored' = stored
  <2>1. merged[w] # NotFound
    BY <1>5, WritersAssumption
  <2> QED BY <1>2, <2>1 DEF History
<1> HIDE DEF c
<1>g. ASSUME NEW d \in Copies
      PROVE  loaded[d] \in Nat /\ loaded'[d] \in Nat /\ loaded[d] <= loaded'[d]
  <2>1. loaded[d] \in Nat
    BY DEF SessionTypes
  <2>2. CASE d = c
    BY <1>5, <1>6, <1>9, <2>1, <2>2
  <2>3. CASE d # c
    BY <1>9, <2>1, <2>3
  <2> QED BY <2>2, <2>3
<1>d. ASSUME NEW d \in Copies
      PROVE  /\ messages[d] \in Seq(Turns) /\ DOMAIN messages[d] = 1..Len(messages[d])
             /\ \A k \in DOMAIN messages[d] : messages[d][k].n \in Nat \ {0}
  BY TurnsAre DEF SessionTypes
<1>e. ASSUME NEW d \in Copies
      PROVE  \A k \in DOMAIN merged[w] : merged[w][k].by = d =>
               merged[w][k].n <= loaded'[d] /\ merged[w][k] = messages[d][merged[w][k].n]
  <2> SUFFICES ASSUME NEW k \in DOMAIN merged[w], merged[w][k].by = d
               PROVE  merged[w][k].n <= loaded'[d] /\ merged[w][k] = messages[d][merged[w][k].n]
    OBVIOUS
  <2>1. merged[w][k].n \in Nat
    BY <1>5, TurnsAre
  <2>2. CASE ~blind[w] /\ k \in DOMAIN History
    <3>1. merged[w][k] = History[k]
      BY <1>4, <1>10, <2>2 DEF ToWriteIsRight, AddsToHistory, AddsTurns
    <3>2. Passed(History, d) /\ \A j \in DOMAIN History : History[j].n \in Nat
      BY <1>10, TurnsAre DEF StoredIsPassed
    <3>3. merged[w][k].n <= loaded[d] /\ merged[w][k] = messages[d][merged[w][k].n]
      BY <2>2, <3>1, <3>2 DEF Passed
    <3> QED BY <1>g, <2>1, <3>3
  <2>3. CASE ~blind[w] /\ k \notin DOMAIN History
    <3>1. k \in (Len(History) + 1)..Len(merged[w])
      BY <1>5, <1>10, <2>3
    <3>2. /\ merged[w][k].by = c /\ merged[w][k].n <= taken[w]
          /\ merged[w][k] = messages[c][merged[w][k].n]
      BY <1>4, <2>3, <3>1 DEF ToWriteIsRight, AddsToHistory, AddsTurns, c
    <3> QED BY <1>5, <1>6, <1>9, <2>1, <3>2
  <2>4. CASE blind[w]
    <3>1. k \in 1..taken[w] /\ merged[w][k] = messages[c][k] /\ k \in DOMAIN messages[c]
      BY <1>4, <1>5, <1>6, <2>4 DEF ToWriteIsRight, IsItsCopy, c
    <3>2. CASE d = c
      <4>1. merged[w][k].n = k
        BY <1>3, <3>1, <3>2 DEF OwnTurns
      <4> QED BY <1>5, <1>6, <1>9, <3>1, <3>2, <4>1
    <3>3. CASE d # c
      <4>1. Passed(messages[c], d)
        BY <1>3, <3>3 DEF StoredIsPassed
      <4> QED BY <1>9, <3>1, <3>3, <4>1 DEF Passed
    <3> QED BY <3>2, <3>3
  <2> QED BY <2>2, <2>3, <2>4
<1>f. Promise!InOrder(merged[w])
  <2> SUFFICES ASSUME NEW i \in DOMAIN merged[w], NEW j \in DOMAIN merged[w],
                      i < j, merged[w][i].by = merged[w][j].by
               PROVE  merged[w][i].n < merged[w][j].n
    BY DEF Promise!InOrder
  <2>1. CASE ~blind[w] /\ j \in DOMAIN History
    <3>1. i \in DOMAIN History
      BY <1>5, <1>10, <2>1
    <3>2. merged[w][i] = History[i] /\ merged[w][j] = History[j]
      BY <1>4, <1>10, <2>1, <3>1 DEF ToWriteIsRight, AddsToHistory, AddsTurns
    <3> QED BY <2>1, <3>1, <3>2 DEF InTheirOrder, Promise!InOrder
  <2>2. CASE ~blind[w] /\ j \notin DOMAIN History
    <3>1. j \in (Len(History) + 1)..Len(merged[w]) /\ i \in 1..(j - 1)
      BY <1>5, <1>10, <2>2
    <3> QED BY <1>4, <2>2, <3>1 DEF ToWriteIsRight, AddsToHistory, AddsTurns
  <2>3. CASE blind[w]
    <3>1. /\ i \in DOMAIN messages[c] /\ merged[w][i] = messages[c][i]
          /\ j \in DOMAIN messages[c] /\ merged[w][j] = messages[c][j]
      BY <1>4, <1>5, <1>6, <2>3 DEF ToWriteIsRight, IsItsCopy, c
    <3>2. Promise!InOrder(messages[c])
      BY <1>3 DEF InTheirOrder
    <3> QED BY <3>1, <3>2 DEF Promise!InOrder
  <2> QED BY <2>1, <2>2, <2>3
<1>13. SessionTypes'
  <2>1. at' \in [Writers -> Places]
    BY <1>1 DEF SessionTypes, Places
  <2>2. stored' \in {NotFound} \cup Seq(Turns) /\ faults' \in Nat
    BY <1>2, <1>5 DEF SessionTypes
  <2>3. /\ merged' \in [Writers -> Seq(Turns)] /\ mark' \in [Writers -> Nat]
        /\ taken' \in [Writers -> Nat] /\ loaded' \in [Copies -> Nat]
    <3>1. /\ merged \in [Writers -> Seq(Turns)] /\ mark \in [Writers -> Nat]
          /\ taken \in [Writers -> Nat] /\ loaded \in [Copies -> Nat]
      BY DEF SessionTypes
    <3>2. << >> \in Seq(Turns) /\ 0 \in Nat
      OBVIOUS
    <3>3. merged' \in [Writers -> Seq(Turns)]
      BY <1>1, <3>1, <3>2
    <3>4. mark' \in [Writers -> Nat] /\ taken' \in [Writers -> Nat]
      BY <1>1, <3>1
    <3>5. loaded' \in [Copies -> Nat]
      BY <1>1, <1>5, <3>1
    <3> QED BY <3>3, <3>4, <3>5
  <2>4. blind' \in [Writers -> BOOLEAN]
    BY <1>1 DEF SessionTypes
  <2>5. overwrote' \in Seq(Copies)
    <3>1. overwrote \in Seq(Copies)
      BY DEF SessionTypes
    <3> QED BY <1>3, <1>b, <3>1
  <2> QED BY <1>1, <2>1, <2>2, <2>3, <2>4, <2>5 DEF SessionTypes
<1>14. LockHeld' /\ SavesAreRight'
  <2>1. LockHeld'
    BY <1>1, <1>8, WritersAssumption DEF LockHeld
  <2>2. SavesAreRight'
    BY <1>8 DEF SavesAreRight, Saving
  <2> QED BY <2>1, <2>2
<1>15. CopiesLoaded'
  <2> SUFFICES ASSUME NEW d \in Copies
               PROVE  /\ loaded'[d] <= Len(messages'[d])
                      /\ at'[<<d, "loop">>] = "absent" =>
                           /\ messages'[d] = << >>
                           /\ \A v \in Writers : v[1] = d => at'[v] \in {"absent", "reading"}
    BY Zenon DEF CopiesLoaded
  <2>1. loaded'[d] <= Len(messages'[d])
    BY <1>1, <1>6, <1>9 DEF CopiesLoaded
  <2>2. ASSUME at'[<<d, "loop">>] = "absent"
        PROVE  /\ messages'[d] = << >>
               /\ \A v \in Writers : v[1] = d => at'[v] \in {"absent", "reading"}
    <3>1. at[<<d, "loop">>] = "absent"
      BY <1>8, <2>2, WritersAre
    <3>2. \A v \in Writers : v[1] = d => at[v] \in {"absent", "reading"}
      BY <3>1 DEF CopiesLoaded
    <3>3. w[1] # d
      BY <1>1, <3>2
    <3> QED BY <1>1, <1>8, <3>1, <3>2, <3>3 DEF CopiesLoaded
  <2> QED BY <2>1, <2>2
<1>16. OwnTurns'
  <2> SUFFICES ASSUME NEW d \in Copies, NEW i \in DOMAIN messages[d]
               PROVE  /\ messages[d][i].by = d => messages[d][i].n = i
                      /\ i > loaded'[d] \/ stored' = NotFound => messages[d][i].by = d
    BY <1>1 DEF OwnTurns
  <2>1. stored' = NotFound => stored = NotFound
    BY <1>5, <1>11, WritersAssumption
  <2>2. i > loaded'[d] => i > loaded[d]
    <3>1. i \in Nat /\ loaded[d] \in Nat
      BY DEF SessionTypes
    <3> QED BY <1>5, <1>6, <1>9, <3>1
  <2> QED BY <2>1, <2>2 DEF OwnTurns
<1>17. StoredIsPassed'
  <2>1. ASSUME NEW d \in Copies
        PROVE  Passed(History, d)' /\ \A e \in Copies \ {d} : Passed(messages[e], d)'
    <3>1. Passed(History, d)'
      <4>1. CASE History' = merged[w]
        BY <1>1, <1>e, <4>1 DEF Passed
      <4>2. CASE History' = History
        <5>1. Passed(History, d) /\ \A k \in DOMAIN History : History[k].n \in Nat
          BY <1>10, TurnsAre DEF StoredIsPassed
        <5>2. \A k \in DOMAIN History : History[k].by = d =>
                History[k].n <= loaded[d] /\ History[k] = messages[d][History[k].n]
          BY <5>1 DEF Passed
        <5>3. loaded[d] \in Nat /\ loaded[d] <= loaded'[d] /\ loaded'[d] \in Nat
          BY <1>g
        <5>4. \A k \in DOMAIN History : History[k].by = d => History[k].n <= loaded'[d]
          BY <5>1, <5>2, <5>3
        <5> QED BY <1>1, <4>2, <5>2, <5>4 DEF Passed
      <4> QED BY <1>11, <4>1, <4>2
    <3>2. ASSUME NEW e \in Copies \ {d}
          PROVE  Passed(messages[e], d)'
      <4>1. Passed(messages[e], d) /\ \A k \in DOMAIN messages[e] : messages[e][k].n \in Nat
        BY <1>d DEF StoredIsPassed
      <4>2. \A k \in DOMAIN messages[e] : messages[e][k].by = d =>
              messages[e][k].n <= loaded[d] /\ messages[e][k] = messages[d][messages[e][k].n]
        BY <4>1 DEF Passed
      <4>3. loaded[d] \in Nat /\ loaded[d] <= loaded'[d] /\ loaded'[d] \in Nat
        BY <1>g
      <4>4. \A k \in DOMAIN messages[e] : messages[e][k].by = d => messages[e][k].n <= loaded'[d]
        BY <4>1, <4>2, <4>3
      <4> QED BY <1>1, <4>2, <4>4 DEF Passed
    <3> QED BY <3>1, <3>2
  <2> QED BY <2>1 DEF StoredIsPassed
<1>19. InTheirOrder'
  <2>1. Promise!InOrder(History')
    BY <1>11, <1>f DEF InTheirOrder
  <2> QED BY <1>1, <2>1 DEF InTheirOrder, Promise!InOrder
<1>18. PassedTurnsAreStored'
  <2> SUFFICES ASSUME NEW d \in Copies, NEW i \in DOMAIN messages[d],
                      i <= loaded'[d], messages[d][i] \notin skipped'
               PROVE  \E k \in DOMAIN History' : Key(History'[k]) = Key(messages[d][i])
    BY <1>1 DEF PassedTurnsAreStored
  <2>1. skipped \subseteq skipped'
    BY <1>2
  <2>2. CASE i <= loaded[d]
    <3>1. PICK k \in DOMAIN History : Key(History[k]) = Key(messages[d][i])
      BY <2>1, <2>2 DEF PassedTurnsAreStored
    <3>2. CASE History' = History
      BY <3>1, <3>2
    <3>3. CASE stored' = merged[w] /\ History' = merged[w] /\ ~blind[w]
      <4>1. k \in DOMAIN merged[w] /\ merged[w][k] = History[k]
        BY <1>4, <1>5, <1>10, <3>3 DEF ToWriteIsRight, AddsToHistory, AddsTurns
      <4> QED BY <3>1, <3>3, <4>1
    <3>4. CASE stored' = merged[w] /\ History' = merged[w] /\ blind[w] /\ History' # History
      <4>1. messages[d][i] \notin Overwritten(w)
        <5>1. skipped' = skipped \cup Part(c, taken[w], mark[w]) \cup Overwritten(w)
          BY <1>2, <3>4 DEF History
        <5> QED BY <5>1
      <4>2. messages[d][i] \in UNION {Part(e, 0, loaded[e]) : e \in Copies}
        <5>1. i \in 1..loaded[d]
          BY <1>d, <2>2 DEF SessionTypes
        <5>2. i \in (0 + 1)..loaded[d]
          BY <5>1
        <5>3. messages[d][i] \in Part(d, 0, loaded[d])
          BY <5>2 DEF Part
        <5> QED BY <5>3
      <4>3. \E j \in DOMAIN merged[w] : Key(merged[w][j]) = Key(messages[d][i])
        BY <4>1, <4>2 DEF Overwritten
      <4> QED BY <3>4, <4>3
    <3> QED BY <1>11, <3>2, <3>3, <3>4
  <2>3. CASE ~(i <= loaded[d])
    <3>1. d = c /\ i \in DOMAIN messages[c] /\ i \in Nat
      BY <1>5, <1>9, <2>3
    <3>2. i \in (loaded[c] + 1)..mark[w]
      BY <1>5, <1>9, <2>3, <3>1
    <3>3. History' = merged[w] /\ Part(c, taken[w], mark[w]) \subseteq skipped'
      <4>1. messages[c][i] \in Part(c, loaded[c], mark[w])
        BY <3>1, <3>2 DEF Part
      <4>2. stored' = merged[w] /\ Part(c, taken[w], mark[w]) \subseteq skipped'
        BY <1>2, <3>1, <4>1
      <4> QED BY <1>5, <4>2, WritersAssumption DEF History
    <3>4. i \in (loaded[c] + 1)..taken[w]
      <4>1. i \notin (taken[w] + 1)..mark[w]
        BY <3>1, <3>3 DEF Part
      <4> QED BY <1>5, <3>2, <4>1
    <3>5. PICK k \in DOMAIN merged[w] : Key(merged[w][k]) = Key(messages[c][i])
      <4>1. CASE ~blind[w]
        BY <1>4, <3>4, <4>1 DEF ToWriteIsRight, AddsToHistory, AddsTurns, c
      <4>2. CASE blind[w]
        <5>1. i \in DOMAIN merged[w] /\ merged[w][i] = messages[c][i]
          BY <1>4, <1>5, <3>4, <4>2 DEF ToWriteIsRight, IsItsCopy, c
        <5> QED BY <5>1
      <4> QED BY <4>1, <4>2
    <3> QED BY <3>1, <3>3, <3>5
  <2> QED BY <2>2, <2>3
<1> QED BY <1>13, <1>14, <1>15, <1>16, <1>17, <1>18, <1>19

\* Every step keeps the invariant.
LEMMA SessionStepInv ==
  ASSUME SessionInv, [SessionNext]_sessionVars
  PROVE  SessionInv'
<1>1. ASSUME NEW c \in Copies, Load(c) PROVE SessionInv'
  BY <1>1, LoadInv
<1>2. ASSUME NEW c \in Copies, Say(c) PROVE SessionInv'
  <2>1. PICK t \in Texts \cup {NoText} : Adds(c, t)
    BY <1>2 DEF Say
  <2>2. <<c, "loop">> \in Writers /\ <<c, "loop">>[1] = c
    BY WritersAre
  <2>3. at[<<c, "loop">>] # "absent" /\ at' = at /\ UNCHANGED <<stored, lock, loaded, faults, saving>>
    BY <1>2 DEF Say
  <2> QED BY <2>1, <2>2, <2>3, AddsInv
<1>3. ASSUME NEW c \in Copies, SayFailed(c) PROVE SessionInv'
  <2>1. PICK t \in Texts : Adds(c, t)
    BY <1>3 DEF SayFailed
  <2>2. <<c, "observer">> \in Writers /\ <<c, "observer">>[1] = c
    BY <1>3, WritersAre DEF SayFailed
  <2>3. /\ at[<<c, "loop">>] # "absent" /\ at[<<c, "observer">>] = "reading"
        /\ at' = [at EXCEPT ![<<c, "observer">>] = "saving"]
        /\ UNCHANGED <<stored, lock, loaded, faults, saving>>
    BY <1>3 DEF SayFailed, Goes
  <2>4. t \in Texts \cup {NoText}
    OBVIOUS
  <2> QED BY <2>1, <2>2, <2>3, <2>4, AddsInv
<1>4. ASSUME NEW c \in Copies, CallSave(c) \/ Leave(c) PROVE SessionInv'
  BY <1>4, MovesInv
<1>5. ASSUME NEW w \in Writers, LockSession(w) PROVE SessionInv'
  BY <1>5, LockInv
<1>6. ASSUME NEW w \in Writers, MergeStored(w) PROVE SessionInv'
  BY <1>6, MergeInv
<1>7. ASSUME NEW w \in Writers, MarkBaseline(w) PROVE SessionInv'
  BY <1>7, MarkInv
<1>8. ASSUME NEW w \in Writers, Write(w) PROVE SessionInv'
  BY <1>8, WriteInv
<1>9. CASE UNCHANGED sessionVars
  <2>1. /\ stored' = stored /\ lock' = lock /\ messages' = messages /\ loaded' = loaded
        /\ at' = at /\ merged' = merged /\ mark' = mark /\ faults' = faults
        /\ taken' = taken /\ skipped' = skipped /\ blind' = blind /\ overwrote' = overwrote
    BY <1>9 DEF sessionVars
  <2>2. History' = History
    BY <2>1 DEF History
  <2>3. SessionTypes' /\ LockHeld' /\ CopiesLoaded' /\ OwnTurns'
    BY <2>1 DEF SessionInv, SessionTypes, LockHeld, CopiesLoaded, OwnTurns
  <2>4. StoredIsPassed' /\ InTheirOrder' /\ PassedTurnsAreStored'
    BY <2>1, <2>2 DEF SessionInv, StoredIsPassed, Passed, InTheirOrder, PassedTurnsAreStored
  <2>5. SavesAreRight'
    BY <2>1, <2>2 DEF SessionInv, SavesAreRight, ToWriteIsRight, AddsToHistory, AddsTurns, IsItsCopy
  <2> QED BY <2>3, <2>4, <2>5 DEF SessionInv
<1> QED BY <1>1, <1>2, <1>3, <1>4, <1>5, <1>6, <1>7, <1>8, <1>9 DEF SessionNext

LEMMA SessionInvariance == SessionSpec => []SessionInv
<1>1. SessionInv /\ [SessionNext]_sessionVars => SessionInv'
  BY SessionStepInv
<1> QED BY <1>1, SessionInitInv, PTL DEF SessionSpec

\* The variables of the session have their types, for any copies and texts.
THEOREM SessionTypeCorrect == SessionSpec => []SessionTypes
<1>1. SessionInv => SessionTypes
  BY DEF SessionInv
<1> QED BY <1>1, SessionInvariance, PTL

(***************************************************************************)
(* store.go:118-130: whichever runs, observers and host calls save a       *)
(* session at once, a turn that a baseline has passed is stored, or a text *)
(* like it, unless it is one of those that the model names as skipped: its *)
(* write failed, it came after what the save wrote had been taken, or a    *)
(* save that could not read the history left it out of what it wrote over  *)
(* it.                                                                     *)
(***************************************************************************)
THEOREM PassedStaysStored == SessionSpec => []PassedTurnsAreStored
<1>1. SessionInv => PassedTurnsAreStored
  BY DEF SessionInv
<1> QED BY <1>1, SessionInvariance, PTL

-----------------------------------------------------------------------------
(***************************************************************************)
(* The history refines Conversation.                                       *)
(***************************************************************************)
\* A write adds turns of one copy, each after the others of it, or puts in the
\* place of a history not read one in which the turns of that copy are left.
LEMMA WriteAdds ==
  ASSUME SessionInv, NEW w \in Writers, Write(w)
  PROVE  \/ History' = History /\ overwrote' = overwrote
         \/ Promise!Save \/ Promise!Overwrite(w[1])
<1>1. /\ at[w] = "marked"
      /\ \/ /\ stored' = merged[w]
            /\ overwrote' = IF blind[w] THEN Append(overwrote, w[1]) ELSE overwrote
         \/ stored' = stored /\ overwrote' = overwrote
  BY DEF Write
<1>2. ToWriteIsRight(w)
  BY <1>1 DEF SessionInv, SavesAreRight
<1>3. merged[w] \in Seq(Turns) /\ Len(merged[w]) \in Nat /\ DOMAIN merged[w] = 1..Len(merged[w])
  BY DEF SessionInv, SessionTypes
<1>4. History \in Seq(Turns) /\ Len(History) \in Nat /\ DOMAIN History = 1..Len(History)
  BY HistoryIs DEF SessionInv
<1>a. w[1] \in Copies
  BY WritersAre
<1>5. CASE stored' = stored /\ overwrote' = overwrote
  BY <1>5 DEF History
<1>6. CASE stored' = merged[w] /\ ~blind[w] /\ overwrote' = overwrote
  <2>1. History' = merged[w]
    BY <1>3, <1>6, WritersAssumption DEF History
  <2> DEFINE m == merged[w]
             n == Len(History)
  <2>2. n <= Len(m) /\ \A k \in 1..n : m[k] = History[k]
    BY <1>2, <1>6 DEF ToWriteIsRight, AddsToHistory, AddsTurns
  <2>3. \A k \in (n + 1)..Len(m) : /\ m[k].by = w[1]
                                   /\ \A j \in 1..(k - 1) : m[j].by = w[1] => m[j].n < m[k].n
    BY <1>2, <1>6 DEF ToWriteIsRight, AddsToHistory, AddsTurns
  <2> HIDE DEF m, n
  <2>4. n \in Nat /\ Len(m) \in Nat /\ m \in Seq(Turns)
    BY <1>3, <1>4 DEF m, n
  <2>5. History = SubSeq(m, 1, n)
    <3>1. /\ SubSeq(m, 1, n) \in Seq(Turns) /\ Len(SubSeq(m, 1, n)) = n
          /\ \A k \in 1..n : SubSeq(m, 1, n)[k] = m[k]
      BY <2>2, <2>4
    <3> QED BY <1>4, <2>2, <3>1 DEF n
  <2>6. ASSUME NEW k \in (n + 1)..Len(m)
        PROVE  Promise!ComesAfter(m[k], SubSeq(m, 1, k - 1))
    <3>1. /\ DOMAIN SubSeq(m, 1, k - 1) = 1..(k - 1)
          /\ \A j \in 1..(k - 1) : SubSeq(m, 1, k - 1)[j] = m[j]
      BY <2>4
    <3> QED BY <2>3, <3>1 DEF Promise!ComesAfter
  <2> QED BY <1>6, <2>1, <2>2, <2>5, <2>6 DEF Promise!Save, m, n
<1>7. CASE stored' = merged[w] /\ blind[w] /\ overwrote' = Append(overwrote, w[1])
  <2>1. History' = merged[w]
    BY <1>3, <1>7, WritersAssumption DEF History
  <2>2. SessionInv'
    BY WriteInv
  <2>3. Promise!InOrder(History')
    BY <2>2 DEF SessionInv, InTheirOrder, Promise!InOrder
  <2>4. ASSUME NEW i \in DOMAIN History, History[i].by = w[1]
        PROVE  \E j \in DOMAIN History' : History'[j] = History[i]
    <3> DEFINE n == History[i].n
    <3>1. n <= loaded[w[1]] /\ History[i] = messages[w[1]][n] /\ n \in Nat \ {0}
      <4>1. Passed(History, w[1])
        BY <1>a DEF SessionInv, StoredIsPassed
      <4> QED BY <1>4, <2>4, <4>1, TurnsAre DEF Passed
    <3> HIDE DEF n
    <3>2. loaded[w[1]] <= taken[w] /\ Len(merged[w]) = taken[w]
          /\ \A k \in 1..taken[w] : merged[w][k] = messages[w[1]][k]
      BY <1>2, <1>7 DEF ToWriteIsRight, IsItsCopy
    <3>3. loaded[w[1]] \in Nat /\ taken[w] \in Nat
      BY <1>a DEF SessionInv, SessionTypes
    <3>4. n \in 1..taken[w]
      BY <3>1, <3>2, <3>3
    <3> QED BY <1>3, <2>1, <3>1, <3>2, <3>4
  <2> QED BY <1>7, <2>3, <2>4 DEF Promise!Overwrite
<1> QED BY <1>1, <1>5, <1>6, <1>7

(***************************************************************************)
(* "The fix is to make saving additive" (store_session_merge.go:17-25):    *)
(* the history of a session is a Conversation, for any number of runs and  *)
(* host calls and whatever reads and writes fail: it only grows, but for   *)
(* the saves whose read failed (store.go:123), which leave what their own  *)
(* copies have.                                                            *)
(***************************************************************************)
THEOREM ImplementsHistory == SessionSpec => ImplementsConversation
<1>1. SessionInit => Promise!Init
  <2>1. << >> \in Beginnings
    BY DEF Beginnings
  <2> QED BY <2>1 DEF SessionInit, History, Promise!Init
<1>2. SessionInv /\ [SessionNext]_sessionVars => [Promise!Next]_<<History, overwrote>>
  <2> SUFFICES ASSUME SessionInv, [SessionNext]_sessionVars
               PROVE  UNCHANGED <<History, overwrote>> \/ Promise!Next
    OBVIOUS
  <2>1. ASSUME NEW w \in Writers, Write(w)
        PROVE  UNCHANGED <<History, overwrote>> \/ Promise!Next
    <3>1. w[1] \in Copies
      BY WritersAre
    <3> QED BY <2>1, <3>1, WriteAdds DEF Promise!Next
  <2>2. ASSUME stored' = stored, overwrote' = overwrote PROVE UNCHANGED <<History, overwrote>>
    BY <2>2 DEF History
  <2>3. (\E w \in Writers : Write(w)) \/ (stored' = stored /\ overwrote' = overwrote)
    BY DEF SessionNext, sessionVars, saving, Load, Say, SayFailed, CallSave, Leave,
           LockSession, MergeStored, MarkBaseline
  <2> QED BY <2>1, <2>2, <2>3
<1> QED BY <1>1, <1>2, SessionInvariance, PTL DEF SessionSpec, ImplementsConversation, Promise!Spec
=============================================================================
