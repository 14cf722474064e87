------------------------ MODULE BackgroundTasksProofs ------------------------
(***************************************************************************)
(* Proofs about BackgroundTasks for any finite set of tasks, any number of *)
(* callers, any ceiling and any number of ends to remember.                *)
(***************************************************************************)
EXTENDS BackgroundTasks, FiniteSetTheorems, TLAPS

\* Where the task is listed and its goroutine has not recorded its end.
InFlight == {"listed", "launched", "inside"}

Spots == {"new", "entered", "checked", "listed", "launched", "inside",
          "done", "refused"}

----------------------------------------------------------------------------
(***************************************************************************)
(* Every step is one of four: a call or goroutine moves and the registry   *)
(* stays, a task is listed, a task ends, or nothing but cancels and Close. *)
(***************************************************************************)
Ends(t) ==
  /\ pc[t] \in {"launched", "inside"}
  /\ \E outcome \in DoneStatuses : finish(t, outcome)

Stays == UNCHANGED <<pc, registry>>

\* The steps of Next by what they do to the registry.
LEMMA StepKinds ==
  ASSUME [Next]_vars
  PROVE  \/ \E t \in Tasks : Enter(t) \/ CheckCeiling(t)
         \/ \E t \in Tasks : List(t)
         \/ \E t \in Tasks : Launch(t) \/ RunEnters(t)
         \/ \E t \in Tasks : Ends(t)
         \/ Stays
<1> USE DEF Stays, DoneStatuses
<1>1. CASE \E t \in Tasks : StartBackgroundTask(t)
  BY <1>1 DEF StartBackgroundTask
<1>2. CASE \E t \in Tasks : Goroutine(t)
  BY <1>2 DEF Goroutine, RunReturns, RunRefused, Ends
<1>3. CASE \E t \in Tasks : CancelBackgroundTask(t)
  BY <1>3 DEF CancelBackgroundTask
<1>4. CASE Close
  BY <1>4 DEF Close, CloseBegins, stopBackgroundTasks, CloseCancels,
              CloseWaited, CloseTimesOut
<1>5. CASE Over \/ UNCHANGED vars
  BY <1>5 DEF Over, vars
<1> QED BY <1>1, <1>2, <1>3, <1>4, <1>5 DEF Next

----------------------------------------------------------------------------
(***************************************************************************)
(* Types.                                                                  *)
(***************************************************************************)
\* A service starts with an empty registry.
LEMMA TypeInit == Init => TypeOK
<1> SUFFICES ASSUME Init PROVE TypeOK
  OBVIOUS
<1>1. /\ pc \in [Tasks -> Spots]
      /\ status \in [Tasks -> DoneStatuses \cup {"none", "running"}]
  BY DEF Init, Spots
<1>2. rank \in [Tasks -> Nat] /\ listed \in Nat
  BY DEF Init
<1>3. tasks = {} /\ cancelled = {} /\ closer = "open" /\ timedOut = FALSE
  BY DEF Init
<1> QED BY <1>1, <1>2, <1>3 DEF TypeOK, Spots

\* The steps that only move a call or a goroutine keep the types.
LEMMA MoveType ==
  ASSUME TypeOK, NEW t \in Tasks,
         Enter(t) \/ CheckCeiling(t) \/ Launch(t) \/ RunEnters(t)
  PROVE  TypeOK'
BY DEF TypeOK, Enter, CheckCeiling, Launch, RunEnters, registry, closing

\* Listing a task keeps the types: its place is the last.
LEMMA ListType ==
  ASSUME TypeOK, NEW t \in Tasks, List(t)
  PROVE  TypeOK'
<1>1. listed' \in Nat /\ listed' = listed + 1 /\ rank' = [rank EXCEPT ![t] = listed + 1]
  BY DEF TypeOK, List, NextRank
<1>2. rank' \in [Tasks -> Nat]
  BY <1>1 DEF TypeOK
<1>3. ASSUME NEW u \in tasks' PROVE rank'[u] \in 1..listed'
  <2>1. CASE u = t
    BY <1>1, <2>1 DEF TypeOK
  <2>2. CASE u # t
    <3>1. u \in tasks
      BY <1>3, <2>2 DEF List
    <3>2. rank[u] \in 1..listed /\ rank'[u] = rank[u]
      BY <1>1, <2>2, <3>1 DEF TypeOK
    <3> QED BY <1>1, <3>2 DEF TypeOK
  <2> QED BY <2>1, <2>2
<1>4. /\ pc' \in [Tasks -> Spots] /\ tasks' \subseteq Tasks
      /\ status' \in [Tasks -> DoneStatuses \cup {"none", "running"}]
  BY DEF TypeOK, List, Spots
<1> QED BY <1>1, <1>2, <1>3, <1>4 DEF TypeOK, List, closing, Spots

\* The end of a task keeps the types.
LEMMA EndType ==
  ASSUME TypeOK, NEW t \in Tasks, Ends(t)
  PROVE  TypeOK'
<1>1. PICK outcome \in DoneStatuses : finish(t, outcome)
  BY DEF Ends
<1>2. tasks' \subseteq tasks
  BY <1>1 DEF finish
<1>3. /\ pc' \in [Tasks -> Spots]
      /\ status' \in [Tasks -> DoneStatuses \cup {"none", "running"}]
  BY <1>1 DEF TypeOK, finish, Spots
<1> QED BY <1>1, <1>2, <1>3 DEF TypeOK, finish, closing, Spots

\* Cancelling and closing keep the types.
LEMMA CloseType ==
  ASSUME TypeOK,
         (\E t \in Tasks : CancelBackgroundTask(t)) \/ Close
  PROVE  TypeOK'
<1> USE DEF TypeOK, registry, closing
<1>1. Running \subseteq Tasks
  BY DEF Running
<1>2. CASE \E t \in Tasks : CancelBackgroundTask(t)
  BY <1>2 DEF CancelBackgroundTask
<1>3. CASE CloseBegins
  BY <1>3 DEF CloseBegins
<1>4. CASE CloseCancels
  BY <1>1, <1>4 DEF CloseCancels, CancelsAll
<1>5. CASE CloseWaited
  BY <1>5 DEF CloseWaited
<1>6. CASE CloseTimesOut
  BY <1>6 DEF CloseTimesOut
<1> QED BY <1>2, <1>3, <1>4, <1>5, <1>6 DEF Close, stopBackgroundTasks

\* Every step keeps the types.
LEMMA TypeStep == TypeOK /\ [Next]_vars => TypeOK'
<1> SUFFICES ASSUME TypeOK, [Next]_vars PROVE TypeOK'
  OBVIOUS
<1>1. CASE \E t \in Tasks : StartBackgroundTask(t)
  BY <1>1, MoveType, ListType DEF StartBackgroundTask
<1>2. CASE \E t \in Tasks : Goroutine(t)
  BY <1>2, MoveType, EndType
  DEF Goroutine, RunReturns, RunRefused, Ends, DoneStatuses
<1>3. CASE (\E t \in Tasks : CancelBackgroundTask(t)) \/ Close
  BY <1>3, CloseType
<1>4. CASE Over \/ UNCHANGED vars
  BY <1>4 DEF Over, vars, registry, closing, TypeOK
<1> QED BY <1>1, <1>2, <1>3, <1>4 DEF Next

\* The types hold throughout (background.go:113-123).
THEOREM TypeCorrect == Spec => []TypeOK
<1> QED BY TypeInit, TypeStep, PTL DEF Spec

----------------------------------------------------------------------------
(***************************************************************************)
(* A task is running exactly while it is in flight.                        *)
(***************************************************************************)
RunningIsInFlight == \A t \in Running : pc[t] \in InFlight

LiveInv == TypeOK /\ RunningIsRemembered /\ RunningIsInFlight

LEMMA LiveInit == Init => LiveInv
BY TypeInit DEF Init, LiveInv, RunningIsRemembered, RunningIsInFlight, Running

\* What is forgotten is among the finished tasks it is chosen from.
LEMMA ForgottenAreDone == \A done : Forgotten(done) \subseteq done
BY DEF Forgotten

LEMMA LiveStep == LiveInv /\ [Next]_vars => LiveInv'
<1> SUFFICES ASSUME LiveInv, [Next]_vars PROVE LiveInv'
  OBVIOUS
<1>0. TypeOK /\ TypeOK'
  BY TypeStep DEF LiveInv
<1> USE DEF RunningIsRemembered, RunningIsInFlight, Running, InFlight
<1>1. ASSUME NEW t \in Tasks, Enter(t) \/ CheckCeiling(t)
      PROVE  RunningIsRemembered' /\ RunningIsInFlight'
  BY <1>0, <1>1 DEF LiveInv, TypeOK, Enter, CheckCeiling, registry
<1>2. ASSUME NEW t \in Tasks, List(t)
      PROVE  RunningIsRemembered' /\ RunningIsInFlight'
  BY <1>0, <1>2 DEF LiveInv, TypeOK, List
<1>3. ASSUME NEW t \in Tasks, Launch(t) \/ RunEnters(t)
      PROVE  RunningIsRemembered' /\ RunningIsInFlight'
  BY <1>0, <1>3 DEF LiveInv, TypeOK, Launch, RunEnters, registry
<1>4. ASSUME NEW t \in Tasks, Ends(t)
      PROVE  RunningIsRemembered' /\ RunningIsInFlight'
  <2>1. PICK outcome \in DoneStatuses : finish(t, outcome)
    BY <1>4 DEF Ends
  <2>2. outcome # "running"
    BY DEF DoneStatuses
  <2>3. Forgotten(Finished \cup {t}) \subseteq Finished \cup {t}
    BY ForgottenAreDone
  <2>4. /\ pc' = [pc EXCEPT ![t] = "done"]
        /\ status' = [status EXCEPT ![t] = outcome]
        /\ tasks' \subseteq tasks
        /\ \A u \in tasks \ tasks' : u \in Finished \cup {t}
    BY <2>1, <2>3 DEF finish
  <2>5. \A u \in tasks : u \notin Finished => status[u] = "running"
    BY DEF Finished
  <2> QED BY <1>0, <2>2, <2>4, <2>5 DEF LiveInv, TypeOK, Finished
<1>5. ASSUME Stays
      PROVE  RunningIsRemembered' /\ RunningIsInFlight'
  BY <1>5 DEF LiveInv, Stays, registry
<1>6. RunningIsRemembered' /\ RunningIsInFlight'
  BY ONLY <1>1, <1>2, <1>3, <1>4, <1>5,
          LiveInv, [Next]_vars, StepKinds DEF LiveInv
<1> QED BY ONLY <1>0, <1>6 DEF LiveInv

\* Forgetting old ends never takes a task that still runs
\* (background.go:285-287).
THEOREM NoRunningTaskForgotten == Spec => []RunningIsRemembered
<1>1. LiveInv => RunningIsRemembered
  BY DEF LiveInv
<1> QED BY <1>1, LiveInit, LiveStep, PTL DEF Spec

----------------------------------------------------------------------------
(***************************************************************************)
(* Close.  A run that is inside got there before Close set the flag, so    *)
(* its task was listed when the tasks were cancelled.                      *)
(***************************************************************************)
CloseInv == LiveInv /\ CloseReachesEveryRun /\ NoneRunsAfterTheWait

\* Steps of calls and goroutines put no run inside once Close has begun.
LEMMA NobodyEnters ==
  ASSUME TypeOK, [Next]_vars, Closed, NEW t \in Tasks, pc'[t] = "inside"
  PROVE  pc[t] = "inside"
<1>1. ASSUME NEW u \in Tasks, Enter(u) \/ CheckCeiling(u) \/ List(u)
      PROVE  pc[t] = "inside"
  BY <1>1 DEF TypeOK, Enter, CheckCeiling, List
<1>2. ASSUME NEW u \in Tasks, Launch(u) \/ RunEnters(u)
      PROVE  pc[t] = "inside"
  BY <1>2 DEF TypeOK, Launch, RunEnters
<1>3. ASSUME NEW u \in Tasks, Ends(u)
      PROVE  pc[t] = "inside"
  BY <1>3 DEF TypeOK, Ends, finish
<1>4. ASSUME Stays PROVE pc[t] = "inside"
  BY <1>4 DEF Stays
<1> QED BY <1>1, <1>2, <1>3, <1>4, StepKinds

\* What Close and the cancels do while the tasks stay, and what they leave.
LEMMA CloserSteps ==
  ASSUME [Next]_vars
  PROVE  \/ closer' = closer /\ timedOut' = timedOut /\ cancelled \subseteq cancelled'
         \/ CloseBegins \/ CloseCancels \/ CloseWaited \/ CloseTimesOut
<1>1. CASE \E t \in Tasks : StartBackgroundTask(t)
  BY <1>1 DEF StartBackgroundTask, Enter, CheckCeiling, List, Launch, closing
<1>2. CASE \E t \in Tasks : Goroutine(t)
  BY <1>2 DEF Goroutine, RunEnters, RunReturns, RunRefused, finish, closing
<1>3. CASE \E t \in Tasks : CancelBackgroundTask(t)
  BY <1>3 DEF CancelBackgroundTask, closing
<1>4. CASE Close
  BY <1>4 DEF Close, stopBackgroundTasks
<1>5. CASE Over \/ UNCHANGED vars
  BY <1>5 DEF Over, vars, closing
<1> QED BY <1>1, <1>2, <1>3, <1>4, <1>5 DEF Next

LEMMA CloseInit == Init => CloseInv
BY LiveInit DEF Init, CloseInv, CloseReachesEveryRun, NoneRunsAfterTheWait

LEMMA CloseStep == CloseInv /\ [Next]_vars => CloseInv'
<1> SUFFICES ASSUME CloseInv, [Next]_vars PROVE CloseInv'
  OBVIOUS
<1>0. LiveInv /\ TypeOK /\ LiveInv'
  BY LiveStep DEF CloseInv, LiveInv
<1>1. ASSUME closer' = closer, timedOut' = timedOut, cancelled \subseteq cancelled'
      PROVE  CloseReachesEveryRun' /\ NoneRunsAfterTheWait'
  <2>1. ASSUME closer \in {"waiting", "stopped"}
        PROVE  \A t \in Tasks : pc'[t] = "inside" => pc[t] = "inside"
    BY <1>0, <2>1, NobodyEnters DEF Closed
  <2> QED BY <1>1, <2>1 DEF CloseInv, CloseReachesEveryRun, NoneRunsAfterTheWait
<1>2. ASSUME CloseBegins PROVE CloseReachesEveryRun' /\ NoneRunsAfterTheWait'
  BY <1>2 DEF CloseBegins, CloseReachesEveryRun, NoneRunsAfterTheWait
<1>3. ASSUME CloseCancels PROVE CloseReachesEveryRun' /\ NoneRunsAfterTheWait'
  <2>1. \A t \in Tasks : pc[t] = "inside" => t \in Running
    BY <1>0 DEF LiveInv, RunningIsRemembered
  <2> QED BY <1>3, <2>1
          DEF CloseCancels, CancelsAll, CloseReachesEveryRun, NoneRunsAfterTheWait
<1>4. ASSUME CloseWaited PROVE CloseReachesEveryRun' /\ NoneRunsAfterTheWait'
  <2>1. \A t \in Tasks : pc[t] # "inside"
    BY <1>4 DEF CloseWaited, WaitOver, Counted
  <2> QED BY <1>4, <2>1 DEF CloseWaited, CloseReachesEveryRun, NoneRunsAfterTheWait
<1>5. ASSUME CloseTimesOut PROVE CloseReachesEveryRun' /\ NoneRunsAfterTheWait'
  BY <1>5 DEF CloseInv, CloseTimesOut, CloseReachesEveryRun, NoneRunsAfterTheWait
<1> QED BY <1>0, <1>1, <1>2, <1>3, <1>4, <1>5, CloserSteps DEF CloseInv

\* Close cancels every run that got in, whatever step its start was at when
\* Close began (service_close.go:61-69).
THEOREM CloseReachesAll == Spec => []CloseReachesEveryRun
<1>1. CloseInv => CloseReachesEveryRun
  BY DEF CloseInv
<1> QED BY <1>1, CloseInit, CloseStep, PTL DEF Spec

\* After a wait that did not give up no background run executes
\* (background.go:366-389).
THEOREM QuietAfterTheWait == Spec => []NoneRunsAfterTheWait
<1>1. CloseInv => NoneRunsAfterTheWait
  BY DEF CloseInv
<1> QED BY <1>1, CloseInit, CloseStep, PTL DEF Spec

----------------------------------------------------------------------------
(***************************************************************************)
(* The ceiling.  A call that has passed the check counts as in flight: at  *)
(* the check the running tasks are below the ceiling and the calls that    *)
(* have passed it are among the callers.                                   *)
(***************************************************************************)
Admitted == {t \in Tasks : pc[t] \in InFlight \cup {"checked"}}

CeilingInv ==
  /\ LiveInv
  /\ Cardinality(Starting) <= Callers
  /\ Cardinality(Admitted) <= MaxTasks + Callers - 1

\* A part of the tasks is finite and no larger than the whole it is part of.
LEMMA SmallerPart ==
  ASSUME NEW S \in SUBSET Tasks, NEW T \in SUBSET S
  PROVE  /\ IsFiniteSet(S) /\ IsFiniteSet(T)
         /\ Cardinality(S) \in Nat /\ Cardinality(T) \in Nat
         /\ Cardinality(T) <= Cardinality(S)
<1>1. IsFiniteSet(S)
  BY TasksAssumption, FS_Subset
<1> QED BY <1>1, FS_Subset, FS_CardinalityType

\* One more task is one more at most.
LEMMA OneMore ==
  ASSUME NEW S \in SUBSET Tasks, NEW t \in Tasks, NEW T \in SUBSET (S \cup {t})
  PROVE  Cardinality(T) \in Nat /\ Cardinality(T) <= Cardinality(S) + 1
<1>1. IsFiniteSet(S) /\ Cardinality(S) \in Nat
  BY SmallerPart
<1>2. Cardinality(S \cup {t}) <= Cardinality(S) + 1
  BY <1>1, FS_AddElement
<1>3. S \cup {t} \in SUBSET Tasks
  OBVIOUS
<1>4. Cardinality(T) \in Nat /\ Cardinality(T) <= Cardinality(S \cup {t})
      /\ Cardinality(S \cup {t}) \in Nat
  BY <1>3, SmallerPart
<1> QED BY <1>1, <1>2, <1>4

\* Two parts of the tasks have at most as many members as both together.
LEMMA BothParts ==
  ASSUME NEW S \in SUBSET Tasks, NEW R \in SUBSET Tasks, NEW T \in SUBSET (S \cup R)
  PROVE  Cardinality(T) <= Cardinality(S) + Cardinality(R)
<1>1. /\ IsFiniteSet(S) /\ Cardinality(S) \in Nat
      /\ IsFiniteSet(R) /\ Cardinality(R) \in Nat
  BY SmallerPart
<1>2. S \cap R \in SUBSET Tasks /\ S \cup R \in SUBSET Tasks
  OBVIOUS
<1>3. Cardinality(S \cap R) \in Nat
  BY <1>2, SmallerPart
<1>4. Cardinality(S \cup R) = Cardinality(S) + Cardinality(R) - Cardinality(S \cap R)
  BY <1>1, FS_Union
<1>5. /\ Cardinality(T) \in Nat /\ Cardinality(S \cup R) \in Nat
      /\ Cardinality(T) <= Cardinality(S \cup R)
  BY <1>2, SmallerPart
<1> QED BY <1>1, <1>3, <1>4, <1>5

LEMMA CeilingInit == Init => CeilingInv
<1> SUFFICES ASSUME Init PROVE CeilingInv
  OBVIOUS
<1>1. Starting = {} /\ Admitted = {}
  BY DEF Init, Starting, Admitted, InFlight
<1> QED BY <1>1, LiveInit, FS_EmptySet, CountsAssumption DEF CeilingInv

\* The calls that have not returned are no more than the callers.
LEMMA StartingStep ==
  ASSUME CeilingInv, [Next]_vars
  PROVE  Cardinality(Starting') <= Callers
<1> DEFINE S == Starting
<1> DEFINE T == Starting'
<1>0. TypeOK /\ S \in SUBSET Tasks /\ T \in SUBSET Tasks
      /\ Cardinality(S) <= Callers
  BY DEF CeilingInv, LiveInv, Starting
<1>1. ASSUME T \subseteq S PROVE Cardinality(T) <= Callers
  <2>1. /\ Cardinality(S) \in Nat /\ Cardinality(T) \in Nat
        /\ Cardinality(T) <= Cardinality(S)
    BY <1>0, <1>1, SmallerPart
  <2> QED BY <1>0, <2>1, CountsAssumption
<1>2. ASSUME NEW t \in Tasks, Enter(t) PROVE Cardinality(T) <= Callers
  <2>1. T \subseteq S \cup {t}
    BY <1>0, <1>2 DEF TypeOK, Enter, Starting
  <2>2. Cardinality(S) < Callers
    BY <1>2 DEF Enter
  <2>3. Cardinality(T) \in Nat /\ Cardinality(T) <= Cardinality(S) + 1
    BY <1>0, <2>1, OneMore
  <2>4. Cardinality(S) \in Nat
    BY <1>0, SmallerPart
  <2> QED BY <2>2, <2>3, <2>4, CountsAssumption
<1>3. ASSUME NEW t \in Tasks,
             CheckCeiling(t) \/ List(t) \/ Launch(t) \/ RunEnters(t) \/ Ends(t)
      PROVE  T \subseteq S
  BY <1>0, <1>3 DEF TypeOK, CheckCeiling, List, Launch, RunEnters, Ends, finish,
                    Starting
<1>4. ASSUME Stays PROVE T \subseteq S
  BY <1>4 DEF Stays, Starting
<1> QED BY <1>1, <1>2, <1>3, <1>4, StepKinds

\* The tasks that are in flight or admitted are no more than the bound.
LEMMA AdmittedStep ==
  ASSUME CeilingInv, [Next]_vars
  PROVE  Cardinality(Admitted') <= MaxTasks + Callers - 1
<1> DEFINE A == Admitted
<1> DEFINE B == Admitted'
<1>0. TypeOK /\ A \in SUBSET Tasks /\ B \in SUBSET Tasks
      /\ Cardinality(A) <= MaxTasks + Callers - 1
  BY DEF CeilingInv, LiveInv, Admitted
<1>1. ASSUME B \subseteq A PROVE Cardinality(B) <= MaxTasks + Callers - 1
  <2>1. /\ Cardinality(A) \in Nat /\ Cardinality(B) \in Nat
        /\ Cardinality(B) <= Cardinality(A)
    BY <1>0, <1>1, SmallerPart
  <2> QED BY <1>0, <2>1, CountsAssumption
<1>2. ASSUME NEW t \in Tasks, CheckCeiling(t), BelowCeiling
      PROVE  Cardinality(B) <= MaxTasks + Callers - 1
  <2>1. Running \in SUBSET Tasks /\ Starting \in SUBSET Tasks
    BY <1>0 DEF TypeOK, Running, Starting
  <2>2. \A u \in Tasks : pc[u] \in InFlight => u \in Running
    BY DEF CeilingInv, LiveInv, RunningIsRemembered, InFlight
  <2>3. B \subseteq Running \cup Starting
    BY <1>0, <1>2, <2>2 DEF TypeOK, CheckCeiling, Admitted, Starting
  <2>4. Cardinality(B) <= Cardinality(Running) + Cardinality(Starting)
    BY <2>1, <2>3, BothParts
  <2>5. /\ Cardinality(Running) \in Nat /\ Cardinality(Starting) \in Nat
        /\ Cardinality(B) \in Nat
    BY <1>0, <2>1, SmallerPart
  <2>6. Cardinality(Running) < MaxTasks /\ Cardinality(Starting) <= Callers
    BY <1>2 DEF BelowCeiling, CeilingInv
  <2> QED BY <2>4, <2>5, <2>6, CountsAssumption
<1>3. ASSUME NEW t \in Tasks, CheckCeiling(t), ~BelowCeiling
      PROVE  B \subseteq A
  BY <1>0, <1>3 DEF TypeOK, CheckCeiling, Admitted, InFlight
<1>4. ASSUME NEW t \in Tasks,
             Enter(t) \/ List(t) \/ Launch(t) \/ RunEnters(t) \/ Ends(t)
      PROVE  B \subseteq A
  BY <1>0, <1>4 DEF TypeOK, Enter, List, Launch, RunEnters, Ends, finish,
                    Admitted, InFlight
<1>5. ASSUME Stays PROVE B \subseteq A
  BY <1>5 DEF Stays, Admitted
<1> QED BY <1>1, <1>2, <1>3, <1>4, <1>5, StepKinds

LEMMA CeilingStep == CeilingInv /\ [Next]_vars => CeilingInv'
BY LiveStep, StartingStep, AdmittedStep DEF CeilingInv

\* The ceiling is exceeded by one less than the callers at most
\* (background.go:171-233).
THEOREM CeilingNearlyHolds == Spec => []CeilingIsNearlyKept
<1>1. ASSUME CeilingInv PROVE CeilingIsNearlyKept
  <2>1. Running \in SUBSET Admitted /\ Admitted \in SUBSET Tasks
    BY <1>1 DEF CeilingInv, LiveInv, TypeOK, RunningIsInFlight, Running, Admitted
  <2>2. /\ Cardinality(Running) \in Nat /\ Cardinality(Admitted) \in Nat
        /\ Cardinality(Running) <= Cardinality(Admitted)
    BY <2>1, SmallerPart
  <2> QED BY <1>1, <2>2, CountsAssumption DEF CeilingInv, CeilingIsNearlyKept
<1> QED BY <1>1, CeilingInit, CeilingStep, PTL DEF Spec

----------------------------------------------------------------------------
(***************************************************************************)
(* Forgetting.  Places in the order are given once, so among the finished  *)
(* tasks each has its own number of newer ones, and those that keep fewer  *)
(* than Keep newer ones are Keep at most.                                  *)
(***************************************************************************)
RanksDiffer == \A t, u \in tasks : rank[t] = rank[u] => t = u

MemoryInv == LiveInv /\ RanksDiffer /\ FinishedAreBounded

Newer(done, t) == {u \in done : rank[u] > rank[t]}

\* A later place has fewer newer ones.
LEMMA FewerNewer ==
  ASSUME NEW done \in SUBSET Tasks, rank \in [Tasks -> Nat],
         NEW t \in done, NEW u \in done, rank[t] < rank[u]
  PROVE  Cardinality(Newer(done, u)) < Cardinality(Newer(done, t))
<1> DEFINE S == Newer(done, t)
<1> DEFINE T == Newer(done, u)
<1>1. S \in SUBSET Tasks /\ T \in SUBSET S
  BY DEF Newer
<1>2. u \in S /\ u \notin T
  BY DEF Newer
<1>3. /\ IsFiniteSet(S)
      /\ Cardinality(S) \in Nat /\ Cardinality(T) \in Nat
      /\ Cardinality(T) <= Cardinality(S)
  BY <1>1, SmallerPart
<1>4. Cardinality(S) # Cardinality(T)
  <2> HIDE DEF S, T
  <2> QED BY <1>1, <1>2, <1>3, FS_Subset
<1> HIDE DEF S, T
<1>5. Cardinality(T) < Cardinality(S)
  BY <1>3, <1>4
<1> QED BY <1>5 DEF S, T

\* No more than Keep are kept.
LEMMA KeptAreFew ==
  ASSUME NEW done \in SUBSET Tasks, rank \in [Tasks -> Nat],
         \A t, u \in done : rank[t] = rank[u] => t = u
  PROVE  Cardinality(done \ Forgotten(done)) <= Keep
<1> DEFINE K == done \ Forgotten(done)
<1> DEFINE N == 0..(Keep - 1)
<1> DEFINE f == [t \in K |-> Cardinality(Newer(done, t))]
<1>1. K \in SUBSET Tasks /\ K \in SUBSET done
  OBVIOUS
<1>2. IsFiniteSet(K) /\ Cardinality(K) \in Nat
  <2> HIDE DEF K
  <2> QED BY <1>1, SmallerPart
<1>3. IsFiniteSet(N) /\ Cardinality(N) = Keep
  BY FS_Interval, CountsAssumption
<1>4. \A t \in K : Cardinality(Newer(done, t)) \in N
  <2> SUFFICES ASSUME NEW t \in K PROVE Cardinality(Newer(done, t)) \in N
    OBVIOUS
  <2>1. Newer(done, t) \in SUBSET Tasks
    BY DEF Newer
  <2>2. Cardinality(Newer(done, t)) \in Nat
    BY <2>1, SmallerPart
  <2>3. ~(Cardinality(Newer(done, t)) >= Keep)
    BY DEF Forgotten, Newer
  <2> QED BY <2>2, <2>3, CountsAssumption
<1>5. f \in [K -> N]
  BY <1>4
<1>6. ASSUME NEW x \in K, NEW y \in K, x # y PROVE f[x] # f[y]
  <2>1. x \in done /\ y \in done /\ rank[x] \in Nat /\ rank[y] \in Nat
    BY <1>1
  <2>2. rank[x] < rank[y] \/ rank[y] < rank[x]
    BY <1>6, <2>1
  <2>3. /\ Cardinality(Newer(done, x)) \in Nat
        /\ Cardinality(Newer(done, y)) \in Nat
    BY <1>4
  <2>4. Cardinality(Newer(done, x)) # Cardinality(Newer(done, y))
    BY <2>1, <2>2, <2>3, FewerNewer
  <2> QED BY <2>4
<1>7. SUFFICES ASSUME Keep < Cardinality(K) PROVE FALSE
  BY <1>2, CountsAssumption
<1> HIDE DEF K, N, f
<1>8. \E x, y \in K : x # y /\ f[x] = f[y]
  BY <1>2, <1>3, <1>5, <1>7, FS_PigeonHole
<1> QED BY <1>6, <1>8

\* The finished tasks after the end of one.
LEMMA FinishedAfter ==
  ASSUME LiveInv, NEW t \in Tasks, NEW outcome \in DoneStatuses,
         pc[t] \in {"launched", "inside"}, finish(t, outcome)
  PROVE  /\ t \in tasks
         /\ Finished \cup {t} \in SUBSET tasks
         /\ Finished' = (Finished \cup {t}) \ Forgotten(Finished \cup {t})
<1> DEFINE D == Finished \cup {t}
<1>1. t \in tasks /\ status[t] = "running"
  BY DEF LiveInv, RunningIsRemembered, Running
<1>2. D \in SUBSET tasks
  BY <1>1 DEF Finished
<1>3. Forgotten(D) \subseteq D
  BY ForgottenAreDone
<1>4. outcome # "running"
  BY DEF DoneStatuses
<1>5. \A u \in tasks : status'[u] = "running" <=> u \notin D
  BY <1>1, <1>4 DEF LiveInv, TypeOK, finish, Finished, Running
<1>6. tasks' = tasks \ Forgotten(D)
  BY DEF finish
<1> HIDE DEF D
<1>7. Finished' = {u \in tasks' : status'[u] # "running"}
  BY DEF Finished, Running
<1>8. Finished' = D \ Forgotten(D)
  BY <1>2, <1>3, <1>5, <1>6, <1>7
<1> QED BY <1>1, <1>2, <1>8 DEF D

LEMMA MemoryInit == Init => MemoryInv
<1> SUFFICES ASSUME Init PROVE MemoryInv
  OBVIOUS
<1>1. tasks = {} /\ Finished = {}
  BY DEF Init, Finished
<1> QED BY <1>1, LiveInit, FS_EmptySet, CountsAssumption
        DEF MemoryInv, RanksDiffer, FinishedAreBounded

\* A task that is listed takes a place after all others.
LEMMA RanksStep ==
  ASSUME MemoryInv, [Next]_vars
  PROVE  RanksDiffer'
<1>0. TypeOK /\ RanksDiffer
  BY DEF MemoryInv, LiveInv
<1>1. ASSUME NEW t \in Tasks, List(t) PROVE RanksDiffer'
  <2>1. rank' = [rank EXCEPT ![t] = listed + 1]
    BY <1>1 DEF List, NextRank
  <2>2. rank'[t] = listed + 1 /\ \A u \in Tasks \ {t} : rank'[u] = rank[u]
    BY <1>0, <2>1 DEF TypeOK
  <2>3. \A u \in tasks : rank[u] # listed + 1
    BY <1>0 DEF TypeOK
  <2>4. tasks' = tasks \cup {t} /\ tasks \subseteq Tasks
    BY <1>0, <1>1 DEF List, TypeOK
  <2> QED BY <1>0, <2>2, <2>3, <2>4 DEF RanksDiffer
<1>2. ASSUME rank' = rank, tasks' \subseteq tasks PROVE RanksDiffer'
  BY <1>0, <1>2 DEF RanksDiffer
<1>3. ASSUME NEW t \in Tasks,
             Enter(t) \/ CheckCeiling(t) \/ Launch(t) \/ RunEnters(t) \/ Ends(t)
      PROVE  rank' = rank /\ tasks' \subseteq tasks
  BY <1>3 DEF Enter, CheckCeiling, Launch, RunEnters, Ends, finish, registry
<1>4. ASSUME Stays PROVE rank' = rank /\ tasks' \subseteq tasks
  BY <1>4 DEF Stays, registry
<1> QED BY <1>1, <1>2, <1>3, <1>4, StepKinds

\* Only the end of a task changes which are finished, and it keeps few.
LEMMA BoundStep ==
  ASSUME MemoryInv, [Next]_vars
  PROVE  FinishedAreBounded'
<1>0. /\ TypeOK /\ RunningIsInFlight /\ RanksDiffer /\ FinishedAreBounded
      /\ Finished \in SUBSET Tasks
  BY DEF MemoryInv, LiveInv, TypeOK, Finished
<1>1. ASSUME Finished' \subseteq Finished PROVE FinishedAreBounded'
  <2>1. /\ Cardinality(Finished) \in Nat /\ Cardinality(Finished') \in Nat
        /\ Cardinality(Finished') <= Cardinality(Finished)
    BY <1>0, <1>1, SmallerPart
  <2> QED BY <1>0, <2>1, CountsAssumption DEF FinishedAreBounded
<1>2. ASSUME NEW t \in Tasks, List(t) PROVE Finished' \subseteq Finished
  BY <1>0, <1>2 DEF TypeOK, List, Finished, Running
<1>3. ASSUME NEW t \in Tasks, Ends(t) PROVE FinishedAreBounded'
  <2>1. PICK outcome \in DoneStatuses : finish(t, outcome)
    BY <1>3 DEF Ends
  <2> DEFINE D == Finished \cup {t}
  <2>2. D \in SUBSET tasks /\ Finished' = D \ Forgotten(D)
    BY <1>3, <2>1, FinishedAfter DEF MemoryInv, Ends
  <2> HIDE DEF D
  <2>3. D \in SUBSET Tasks /\ rank \in [Tasks -> Nat]
    BY <1>0, <2>2 DEF TypeOK
  <2>4. \A u, v \in D : rank[u] = rank[v] => u = v
    BY <1>0, <2>2 DEF RanksDiffer
  <2>5. Cardinality(D \ Forgotten(D)) <= Keep
    BY <2>3, <2>4, KeptAreFew
  <2> QED BY <2>2, <2>5 DEF FinishedAreBounded
<1>4. ASSUME NEW t \in Tasks,
             Enter(t) \/ CheckCeiling(t) \/ Launch(t) \/ RunEnters(t)
      PROVE  Finished' \subseteq Finished
  BY <1>4 DEF Enter, CheckCeiling, Launch, RunEnters, registry, Finished, Running
<1>5. ASSUME Stays PROVE Finished' \subseteq Finished
  BY <1>5 DEF Stays, registry, Finished, Running
<1> QED BY <1>1, <1>2, <1>3, <1>4, <1>5, StepKinds

LEMMA MemoryStep == MemoryInv /\ [Next]_vars => MemoryInv'
BY LiveStep, RanksStep, BoundStep DEF MemoryInv

\* No more finished tasks are remembered than the limit, however many were
\* run (background.go:118-121).
THEOREM MemoryIsBounded == Spec => []FinishedAreBounded
<1>1. MemoryInv => FinishedAreBounded
  BY DEF MemoryInv
<1> QED BY <1>1, MemoryInit, MemoryStep, PTL DEF Spec

\* Who has Keep newer ones is older than who has not.
LEMMA ForgottenAreOlder ==
  ASSUME NEW D \in SUBSET Tasks, rank \in [Tasks -> Nat],
         \A x, y \in D : rank[x] = rank[y] => x = y,
         NEW t \in Forgotten(D), NEW u \in D \ Forgotten(D)
  PROVE  rank[t] < rank[u]
<1>1. t \in D /\ Cardinality(Newer(D, t)) >= Keep
  BY DEF Forgotten, Newer
<1>2. ~(Cardinality(Newer(D, u)) >= Keep)
  BY DEF Forgotten, Newer
<1>3. /\ Newer(D, t) \in SUBSET Tasks
      /\ Newer(D, u) \in SUBSET Tasks
  BY DEF Newer
<1>4. Cardinality(Newer(D, t)) \in Nat /\ Cardinality(Newer(D, u)) \in Nat
  BY <1>3, SmallerPart
<1>5. ~(rank[u] < rank[t])
  <2>1. rank[u] < rank[t] => Cardinality(Newer(D, t)) < Cardinality(Newer(D, u))
    BY <1>1, FewerNewer
  <2> QED BY <1>1, <1>2, <1>4, <2>1, CountsAssumption
<1>6. rank[t] # rank[u]
  BY <1>1 DEF Forgotten
<1>7. rank[t] \in Nat /\ rank[u] \in Nat
  BY <1>1
<1> QED BY <1>5, <1>6, <1>7

LEMMA OldestStep ==
  ASSUME MemoryInv, [Next]_vars
  PROVE  \A t \in tasks \ tasks', u \in Finished' : rank[t] < rank'[u]
<1>0. TypeOK /\ RanksDiffer
  BY DEF MemoryInv, LiveInv
<1>1. ASSUME NEW t \in Tasks,
             \/ Enter(t) \/ CheckCeiling(t) \/ List(t)
             \/ Launch(t) \/ RunEnters(t)
      PROVE  tasks \ tasks' = {}
  BY <1>1 DEF Enter, CheckCeiling, List, Launch, RunEnters, registry
<1>2. ASSUME Stays PROVE tasks \ tasks' = {}
  BY <1>2 DEF Stays, registry
<1>3. ASSUME NEW t \in Tasks, Ends(t)
      PROVE  \A x \in tasks \ tasks', y \in Finished' : rank[x] < rank'[y]
  <2>1. PICK outcome \in DoneStatuses : finish(t, outcome)
    BY <1>3 DEF Ends
  <2> DEFINE D == Finished \cup {t}
  <2>2. D \in SUBSET tasks /\ Finished' = D \ Forgotten(D)
    BY <1>3, <2>1, FinishedAfter DEF MemoryInv, Ends
  <2>3. rank' = rank /\ tasks \ tasks' \subseteq Forgotten(D)
    BY <2>1 DEF finish
  <2> HIDE DEF D
  <2>4. D \in SUBSET Tasks /\ rank \in [Tasks -> Nat]
    BY <1>0, <2>2 DEF TypeOK
  <2>5. \A x, y \in D : rank[x] = rank[y] => x = y
    BY <1>0, <2>2 DEF RanksDiffer
  <2>6. \A x \in Forgotten(D), y \in D \ Forgotten(D) : rank[x] < rank[y]
    BY <2>4, <2>5, ForgottenAreOlder
  <2> QED BY <2>2, <2>3, <2>6
<1> QED BY <1>1, <1>2, <1>3, StepKinds

\* What is forgotten is older than what is kept (background.go:285-311).
THEOREM OldestGoFirst == Spec => OldestAreForgotten
<1>1. MemoryInv /\ [Next]_vars =>
        [\A t \in tasks \ tasks', u \in Finished' : rank[t] < rank'[u]]_vars
  BY OldestStep
<1> QED BY <1>1, MemoryInit, MemoryStep, PTL DEF Spec, OldestAreForgotten
=============================================================================
