------------------------- MODULE RunRegistryProofs -------------------------
(***************************************************************************)
(* Proofs about RunRegistry for any finite set of runs and names, any      *)
(* limits, and any tenants and sessions.                                   *)
(***************************************************************************)
EXTENDS RunRegistry, FiniteSetTheorems, TLAPS

\* A run with another place, context or name is still a run.
LEMMA RunUpdates ==
  ASSUME NEW x \in Run
  PROVE  /\ \A pc \in {"new", "entered", "recorded", "refused", "round",
                       "model", "tool", "ended", "observed", "released"} :
              [x EXCEPT !.pc = pc] \in Run
         /\ \A by \in {"call", "close"} :
              [x EXCEPT !.ctx = IF @ = "live" THEN by ELSE @] \in Run
BY DEF Run

\* A run that gets its name is still a run.
LEMMA RunNamed ==
  ASSUME NEW x \in Run, NEW k \in Keys, NEW late \in BOOLEAN
  PROVE  [x EXCEPT !.pc = "round", !.key = k, !.late = late] \in Run
BY DEF Run

\* The snapshot has been taken or it has not.
LEMMA SnapshotIsBoolean == SnapshotTaken \in BOOLEAN
BY DEF SnapshotTaken

\* NewService: no runs, an open store, no Close and no cancel in progress.
LEMMA TypeInit == Init => TypeOK
<1> SUFFICES ASSUME Init PROVE TypeOK
  OBVIOUS
<1>1. call \in CallType
  BY LimitsAssumption DEF Init, CallType, Kinds
<1>2. runs \in [Runs -> Run]
  BY DEF Init
<1> QED BY <1>1, <1>2 DEF Init, TypeOK

\* The steps of startRun keep the types.
LEMMA StartRunType ==
  ASSUME TypeOK, NEW r \in Runs, StartRun(r)
  PROVE  TypeOK'
<1> USE RunUpdates DEF TypeOK, closing
<1>0. runs[r] \in Run
  OBVIOUS
<1>1. CASE Enter(r)
  BY <1>1 DEF Enter
<1>2. CASE RecordRunning(r)
  BY <1>2 DEF RecordRunning
<1>3. CASE Refuse(r)
  BY <1>3 DEF Refuse
<1>4. CASE Register(r)
  <2>1. UniqueName(r) \in Keys
    BY <1>0 DEF UniqueName, Keys, Run
  <2>3. [runs[r] EXCEPT !.pc = "round", !.key = UniqueName(r),
                        !.late = SnapshotTaken] \in Run
    BY <1>0, <2>1, SnapshotIsBoolean, RunNamed
  <2>4. runs' \in [Runs -> Run]
    BY <1>4, <2>3 DEF Register
  <2> QED BY <1>4, <2>1, <2>4 DEF Register
<1> QED BY <1>1, <1>2, <1>3, <1>4 DEF StartRun

\* The steps of the loop keep the types.
LEMMA LoopType ==
  ASSUME TypeOK, NEW r \in Runs, Loop(r)
  PROVE  TypeOK'
<1> USE RunUpdates DEF TypeOK, closing
<1>0. runs[r] \in Run
  OBVIOUS
<1>1. ASSUME NEW end, EndWith(r, end) PROVE TypeOK'
  <2>1. [runs[r] EXCEPT !.pc = "ended"] \in Run
    BY <1>0
  <2>2. runs' \in [Runs -> Run]
    BY <1>1, <2>1 DEF EndWith
  <2> QED BY <1>1, <2>2 DEF EndWith
<1>2. ASSUME NEW pc \in {"model", "tool", "round"},
             runs' = [runs EXCEPT ![r].pc = pc],
             UNCHANGED <<registry, saves, closing, call>>
      PROVE  TypeOK'
  <2>1. [runs[r] EXCEPT !.pc = pc] \in Run
    BY <1>0
  <2> QED BY <1>2, <2>1
<1>3. CASE BeginRound(r)
  <2>1. CASE EndWith(r, "cancelled")
    BY <1>1, <2>1
  <2> QED BY <1>2, <1>3, <2>1 DEF BeginRound
<1>4. CASE ModelAnswers(r)
  <2> QED BY <1>1, <1>2, <1>4 DEF ModelAnswers
<1>5. CASE ToolReturns(r)
  BY <1>2, <1>5 DEF ToolReturns
<1> QED BY <1>3, <1>4, <1>5 DEF Loop

\* The observer and the memory extraction keep the types.
LEMMA ObserverType ==
  ASSUME TypeOK, NEW r \in Runs, Observer(r) \/ SaveToMemory(r)
  PROVE  TypeOK'
<1> USE DEF TypeOK, closing
<1>0. runs[r] \in Run
  OBVIOUS
<1>1. CASE ObserveEnd(r)
  <2>1. [runs[r] EXCEPT !.pc = "observed"] \in Run
    BY <1>0, RunUpdates
  <2> QED BY <1>1, <2>1 DEF ObserveEnd
<1>2. CASE Release(r)
  <2>1. [runs[r] EXCEPT !.pc = "released"] \in Run
    BY <1>0, RunUpdates
  <2> QED BY <1>2, <2>1 DEF Release
<1>3. CASE SaveToMemory(r)
  BY <1>3 DEF SaveToMemory
<1> QED BY <1>1, <1>2, <1>3 DEF Observer

\* The cancel functions keep the types.
LEMMA CancelType ==
  ASSUME TypeOK, CancelCall
  PROVE  TypeOK'
<1> USE DEF TypeOK, closing
<1>1. ASSUME NEW kind \in Kinds, NEW arg \in Targets(kind),
             CancelChecks(kind, arg)
      PROVE  TypeOK'
  <2>1. arg \in Keys \cup Sessions \cup Tenants \cup {NoRun}
    BY DEF Targets, Kinds
  <2>2. call.left \in 0 .. MaxCalls /\ call.left > 0 => call.left - 1 \in 0 .. MaxCalls
    BY LimitsAssumption
  <2>3. call' \in CallType
    BY <1>1, <2>1, <2>2 DEF CancelChecks, CallType
  <2> QED BY <1>1, <2>3 DEF CancelChecks
<1>2. CASE CancelTakes
  <2>1. Registered \subseteq Runs
    BY DEF Registered
  <2> QED BY <1>2, <2>1 DEF CancelTakes, CallType
<1>3. ASSUME NEW r \in Runs, CancelHandle(r) PROVE TypeOK'
  <2>1. [runs[r] EXCEPT !.ctx = IF @ = "live" THEN "call" ELSE @] \in Run
    BY <1>3, RunUpdates
  <2>2. runs' \in [Runs -> Run]
    BY <1>3, <2>1 DEF CancelHandle, Cancel
  <2> QED BY <1>3, <2>2 DEF CancelHandle, CallType
<1> QED BY <1>1, <1>2, <1>3 DEF CancelCall

\* Close keeps the types.
LEMMA CloseType ==
  ASSUME TypeOK, Close
  PROVE  TypeOK'
<1> USE RunUpdates DEF TypeOK
<1>1. CASE CloseBegins
  BY <1>1 DEF CloseBegins
<1>2. CASE CloseSnapshot
  BY <1>2 DEF CloseSnapshot, StopAllRuns, Registered
<1>3. CASE CloseDrains
  BY <1>3 DEF CloseDrains, Drain
<1>4. CASE CloseReleases
  BY <1>4 DEF CloseReleases
<1>5. ASSUME NEW r \in Runs, CloseCancels(r) PROVE TypeOK'
  <2>1. [runs[r] EXCEPT !.ctx = IF @ = "live" THEN "close" ELSE @] \in Run
    BY <1>5
  <2> QED BY <1>5, <2>1 DEF CloseCancels, Cancel
<1> QED BY <1>1, <1>2, <1>3, <1>4, <1>5 DEF Close

\* Every step of the service keeps the types.
LEMMA TypeStep == TypeOK /\ [Next]_vars => TypeOK'
<1> SUFFICES ASSUME TypeOK, [Next]_vars PROVE TypeOK'
  OBVIOUS
<1>1. CASE Next
  BY <1>1, StartRunType, LoopType, ObserverType, CancelType, CloseType DEF Next
<1>2. CASE UNCHANGED vars
  BY <1>2 DEF vars, TypeOK
<1> QED BY <1>1, <1>2

\* The registry, the runs and Close always hold values of their types.
THEOREM RegistryTypeCorrect == Spec => []TypeOK
<1> QED BY TypeInit, TypeStep, PTL DEF Spec

-----------------------------------------------------------------------------
(***************************************************************************)
(* The inductive invariant.  Its base is that the registry is exact: from  *)
(* it follow the limits, because the entries counted by admitLocked are    *)
(* the runs in flight, and what Close can rely on when it makes its list.  *)
(***************************************************************************)

\* A name is one that callers ask for or the run's own.
KeysAreOwned == \A r \in Runs : runs[r].key \in Names \cup {r}

Over == {"ended", "observed", "released"}

\* Only a run whose loop has ended has left an extraction behind.
SavesAreOver == \A r \in saves : runs[r].pc \in Over

\* While Close works on its list, a run it has not reached yet is on it.
ListIsComplete ==
  closer = "stopping" =>
    \A r \in Flying : Cancelled(r) \/ runs[r].late \/ r \in toStop

\* After a drain that was not cut short only late runs are in flight.
CleanDrain ==
  closer \in {"waiting", "released"} /\ drained = "clean" =>
    \A r \in Flying : runs[r].late

\* What Close leaves running.
CloseInv ==
  /\ SavesAreOver /\ ListIsComplete /\ CleanDrain
  /\ EarlierRunsAreStopped /\ StoreOutlivesRuns

RegistryInv == TypeOK /\ KeysAreOwned /\ RegistryIsExact

\* A step that neither registers nor releases a run and is not one of Close.
Quiet ==
  /\ UNCHANGED <<registry, closing>>
  /\ \A r \in Runs :
       /\ runs'[r].key = runs[r].key
       /\ runs'[r].tenant = runs[r].tenant
       /\ runs'[r].late = runs[r].late
       /\ r \in Flying' <=> r \in Flying
       /\ Cancelled(r) => Cancelled(r)'
       /\ runs[r].pc \in Over => runs'[r].pc \in Over
       /\ r \in saves' \ saves => r \in Flying /\ runs'[r].pc \in Over

\* What startRun does before and instead of registering, the loop, the
\* observer's first step and memory extraction are quiet.
LEMMA QuietSteps ==
  ASSUME TypeOK, NEW r \in Runs,
         \/ Enter(r) \/ RecordRunning(r) \/ Refuse(r) \/ Loop(r)
         \/ ObserveEnd(r) \/ SaveToMemory(r)
  PROVE  Quiet
<1> USE DEF Quiet, closing, Flying, InFlight, Over, Cancelled, TypeOK, Run
<1>1. CASE Enter(r) \/ RecordRunning(r) \/ Refuse(r)
  BY <1>1 DEF Enter, RecordRunning, Refuse
<1>2. ASSUME NEW end, EndWith(r, end), runs[r].pc \in {"round", "model"}
      PROVE  Quiet
  BY <1>2 DEF EndWith
<1>3. CASE Loop(r)
  <2>1. CASE BeginRound(r)
    BY <1>2, <2>1 DEF BeginRound
  <2>2. CASE ModelAnswers(r)
    BY <1>2, <2>2 DEF ModelAnswers
  <2>3. CASE ToolReturns(r)
    BY <2>3 DEF ToolReturns
  <2> QED BY <1>3, <2>1, <2>2, <2>3 DEF Loop
<1>4. CASE ObserveEnd(r) \/ SaveToMemory(r)
  BY <1>4 DEF ObserveEnd, SaveToMemory
<1> QED BY <1>1, <1>3, <1>4

\* The cancels are quiet.
LEMMA QuietCancels ==
  ASSUME TypeOK, CancelCall
  PROVE  Quiet
<1> USE DEF Quiet, closing, Flying, InFlight, Over, Cancelled, TypeOK, Run
<1>1. ASSUME NEW q \in Runs, CancelHandle(q) PROVE Quiet
  BY <1>1 DEF CancelHandle, Cancel
<1>2. CASE CancelTakes
  BY <1>2 DEF CancelTakes
<1>3. ASSUME NEW k \in Kinds, NEW a \in Targets(k), CancelChecks(k, a)
      PROVE  Quiet
  BY <1>3 DEF CancelChecks
<1> QED BY <1>1, <1>2, <1>3 DEF CancelCall

\* Every step is quiet, registers or releases one run, or is one of Close.
LEMMA StepKinds ==
  ASSUME TypeOK, Next
  PROVE  \/ Quiet \/ Close
         \/ \E r \in Runs : Register(r) \/ Release(r)
BY QuietSteps, QuietCancels DEF Next, StartRun, Observer

\* The steps of Close leave the registry and the places of the runs alone.
LEMMA CloseIsOutside ==
  ASSUME TypeOK, Close
  PROVE  /\ registry' = registry /\ Flying' = Flying /\ saves' = saves
         /\ \A r \in Runs : /\ runs'[r].key = runs[r].key
                            /\ runs'[r].tenant = runs[r].tenant
                            /\ runs'[r].late = runs[r].late
                            /\ runs'[r].pc = runs[r].pc
                            /\ Cancelled(r) => Cancelled(r)'
<1> USE DEF Flying, Cancelled, TypeOK, Run
<1>1. ASSUME NEW q \in Runs, CloseCancels(q)
      PROVE  /\ registry' = registry /\ Flying' = Flying /\ saves' = saves
             /\ \A r \in Runs : /\ runs'[r].key = runs[r].key
                                /\ runs'[r].tenant = runs[r].tenant
                                /\ runs'[r].late = runs[r].late
                                /\ runs'[r].pc = runs[r].pc
                                /\ Cancelled(r) => Cancelled(r)'
  BY <1>1 DEF CloseCancels, Cancel
<1>2. CASE CloseBegins \/ CloseSnapshot \/ CloseDrains \/ CloseReleases
  BY <1>2 DEF CloseBegins, CloseSnapshot, CloseDrains, CloseReleases
<1> QED BY <1>1, <1>2 DEF Close

\* registerRun finds a free name: a run that has no place in the registry
\* yet cannot have lent its own name to another.
LEMMA NameIsFree ==
  ASSUME RegistryInv, NEW r \in Runs, runs[r].pc = "recorded"
  PROVE  registry[UniqueName(r)] = NoRun /\ UniqueName(r) \in Names \cup {r}
<1>1. runs[r].want \in Names /\ r \in Keys
  BY DEF RegistryInv, TypeOK, Run, Keys
<1>2. ASSUME registry[r] # NoRun PROVE FALSE
  <2>1. registry[r] \in Flying /\ runs[registry[r]].key = r
    BY <1>1, <1>2 DEF RegistryInv, RegistryIsExact, KeysInUse
  <2>2. registry[r] = r
    BY <2>1, NamesAssumption DEF RegistryInv, KeysAreOwned, Flying
  <2> QED BY <2>1, <2>2 DEF Flying, InFlight
<1> QED BY <1>1, <1>2 DEF UniqueName

\* Registration, release and everything else keep the registry exact.
LEMMA ExactStep ==
  ASSUME RegistryInv, [Next]_vars
  PROVE  KeysAreOwned' /\ RegistryIsExact'
<1> USE DEF RegistryInv, KeysAreOwned, RegistryIsExact
<1>1. CASE Quiet
  <2>1. Flying' = Flying /\ KeysInUse' = KeysInUse /\ registry' = registry
    BY <1>1 DEF Quiet, Flying, KeysInUse
  <2> QED BY <1>1, <2>1 DEF Quiet, Flying, KeysInUse
<1>2. CASE Close
  <2>1. /\ registry' = registry /\ Flying' = Flying /\ KeysInUse' = KeysInUse
        /\ \A r \in Runs : runs'[r].key = runs[r].key
    BY <1>2, CloseIsOutside DEF RegistryInv, KeysInUse
  <2>2. Flying \subseteq Runs
    BY DEF Flying
  <2> QED BY <2>1, <2>2
<1>3. ASSUME NEW r \in Runs, Register(r)
      PROVE  KeysAreOwned' /\ RegistryIsExact'
  <2> DEFINE key == UniqueName(r)
  <2>1. registry[key] = NoRun /\ key \in Names \cup {r} /\ key \in Keys
    BY <1>3, NameIsFree DEF Register, Keys
  <2>2. /\ registry' = [registry EXCEPT ![key] = r]
        /\ runs'[r].pc = "round" /\ runs'[r].key = key
        /\ \A q \in Runs \ {r} : runs'[q] = runs[q]
    BY <1>3 DEF Register, TypeOK, Run
  <2>3. r \notin Flying /\ Flying' = Flying \cup {r}
    BY <1>3, <2>2 DEF Register, Flying, InFlight
  <2>4. KeysInUse' = KeysInUse \cup {key}
    BY <2>1, <2>2, NamesAssumption DEF KeysInUse, TypeOK
  <2>5. r \notin {registry[k] : k \in KeysInUse}
    BY <2>3
  <2>6. registry \in [Keys -> Runs \cup {NoRun}]
    BY DEF TypeOK
  <2> HIDE DEF key
  <2>7. KeysAreOwned'
    BY <2>1, <2>2
  <2>8. \A q \in Flying' : registry'[runs'[q].key] = q
    <3>1. ASSUME NEW q \in Flying PROVE registry'[runs'[q].key] = q
      <4>1. q \in Runs \ {r} /\ registry[runs[q].key] = q
        BY <2>3 DEF Flying
      <4>2. runs[q].key \in Keys /\ runs[q].key # key
        BY <2>1, <4>1, NamesAssumption DEF Flying, TypeOK, Run
      <4> QED BY <2>2, <2>6, <4>1, <4>2
    <3> QED BY <2>1, <2>2, <2>3, <2>6, <3>1
  <2>9. \A k \in KeysInUse' : registry'[k] \in Flying' /\ runs'[registry'[k]].key = k
    <3>1. ASSUME NEW k \in KeysInUse
          PROVE  registry'[k] \in Flying' /\ runs'[registry'[k]].key = k
      <4>1. registry[k] \in Flying \ {r} /\ runs[registry[k]].key = k
        BY <2>5
      <4>2. k \in Keys /\ k # key
        BY <2>1 DEF KeysInUse
      <4> QED BY <2>2, <2>3, <2>6, <4>1, <4>2 DEF Flying
    <3> QED BY <2>1, <2>2, <2>3, <2>4, <2>6, <3>1
  <2> QED BY <2>7, <2>8, <2>9
<1>4. ASSUME NEW r \in Runs, Release(r)
      PROVE  KeysAreOwned' /\ RegistryIsExact'
  <2> DEFINE key == runs[r].key
  <2>1. r \in Flying /\ key \in Keys
    BY <1>4 DEF Release, Flying, InFlight, TypeOK, Run
  <2>2. registry[key] = r /\ key \in KeysInUse
    BY <2>1, NamesAssumption DEF KeysInUse
  <2>3. /\ registry' = [registry EXCEPT ![key] = NoRun]
        /\ runs'[r].pc = "released" /\ runs'[r].key = runs[r].key
        /\ \A q \in Runs \ {r} : runs'[q] = runs[q]
    BY <1>4 DEF Release, ReleasedName, TypeOK, Run
  <2>4. Flying' = Flying \ {r}
    BY <2>3 DEF Flying, InFlight
  <2>5. KeysInUse' = KeysInUse \ {key}
    BY <2>1, <2>3 DEF KeysInUse, TypeOK
  <2> QED BY <2>1, <2>2, <2>3, <2>4, <2>5 DEF TypeOK, KeysInUse, Flying
<1>5. CASE UNCHANGED vars
  BY <1>5 DEF vars, KeysInUse, Flying
<1> QED BY <1>1, <1>2, <1>3, <1>4, <1>5, StepKinds

\* At the start there is nothing to be exact about.
LEMMA RegistryInit == Init => RegistryInv
<1> SUFFICES ASSUME Init PROVE RegistryInv
  OBVIOUS
<1>1. TypeOK
  BY TypeInit
<1>2. KeysAreOwned
  BY DEF Init, KeysAreOwned, Run
<1>3. RegistryIsExact
  BY DEF Init, RegistryIsExact, Flying, InFlight, KeysInUse
<1> QED BY <1>1, <1>2, <1>3 DEF RegistryInv

\* Every run in flight is reachable under its own name and holds the only
\* entry there is for it: registerRun never evicts, release frees exactly
\* the entry of its run.
THEOREM RegistryStaysExact == Spec => []RegistryIsExact
<1>1. RegistryInv /\ [Next]_vars => RegistryInv'
  BY TypeStep, ExactStep DEF RegistryInv
<1> QED BY RegistryInit, <1>1, PTL DEF Spec, RegistryInv

-----------------------------------------------------------------------------
\* The runs in flight, all or those of one tenant, are finitely many and no
\* more than the entries admitLocked counts.
LEMMA FlyingIsCounted ==
  ASSUME RegistryInv
  PROVE  /\ IsFiniteSet(Flying)
         /\ IsFiniteSet(KeysInUse)
         /\ Cardinality(Flying) <= Cardinality(KeysInUse)
         /\ \A t : /\ IsFiniteSet({r \in Flying : runs[r].tenant = t})
                   /\ IsFiniteSet(KeysOf(t))
                   /\ Cardinality({r \in Flying : runs[r].tenant = t})
                        <= Cardinality(KeysOf(t))
<1>1. IsFiniteSet(Keys)
  BY FinitenessAssumption, FS_Union DEF Keys
<1>2. IsFiniteSet(KeysInUse) /\ IsFiniteSet(Flying)
  BY <1>1, FinitenessAssumption, FS_Subset DEF KeysInUse, Flying
<1>3. \A r \in Flying : /\ runs[r].key \in KeysInUse
                        /\ registry[runs[r].key] = r
  BY NamesAssumption
  DEF RegistryInv, RegistryIsExact, KeysInUse, Flying, TypeOK, Run
<1>4. ASSUME NEW S \in SUBSET Flying, NEW T \in SUBSET KeysInUse,
             \A r \in S : runs[r].key \in T
      PROVE  /\ IsFiniteSet(S) /\ IsFiniteSet(T)
             /\ Cardinality(S) <= Cardinality(T)
  <2>1. IsFiniteSet(S) /\ IsFiniteSet(T)
    BY <1>2, FS_Subset
  <2> DEFINE f == [r \in S |-> runs[r].key]
  <2>2. f \in [S -> T]
    BY <1>4
  <2>3. \A a, b \in S : f[a] = f[b] => a = b
    BY <1>3
  <2>4. f \in Injection(S, T)
    BY <2>2, <2>3 DEF Injection, IsInjective
  <2> QED BY <2>1, <2>4, FS_Injection
<1>5. ASSUME NEW t
      PROVE  /\ IsFiniteSet({r \in Flying : runs[r].tenant = t})
             /\ IsFiniteSet(KeysOf(t))
             /\ Cardinality({r \in Flying : runs[r].tenant = t})
                  <= Cardinality(KeysOf(t))
  BY <1>3, <1>4 DEF KeysOf
<1>6. Cardinality(Flying) <= Cardinality(KeysInUse)
  BY <1>3, <1>4
<1> QED BY <1>2, <1>5, <1>6

\* One more run after a successful check is within the limit.
LEMMA OneMore ==
  ASSUME NEW S, NEW x, IsFiniteSet(S), NEW n \in Nat, NEW m \in Nat,
         Cardinality(S) <= n, n < m
  PROVE  Cardinality(S \cup {x}) <= m
<1>1. Cardinality(S) \in Nat
  BY FS_CardinalityType
<1>2. Cardinality(S \cup {x}) = Cardinality(S)
        \/ Cardinality(S \cup {x}) = Cardinality(S) + 1
  BY FS_AddElement
<1> QED BY <1>1, <1>2

\* A smaller set is within the limit too.
LEMMA NoMore ==
  ASSUME NEW S, NEW T \in SUBSET S, IsFiniteSet(S), NEW m \in Nat,
         Cardinality(S) <= m
  PROVE  Cardinality(T) <= m
BY FS_Subset, FS_CardinalityType

\* Only registerRun adds to the runs in flight, and it has counted them.
LEMMA LimitsStep ==
  ASSUME RegistryInv, AdmissionLimits, [Next]_vars
  PROVE  AdmissionLimits'
<1> DEFINE Of(t) == {r \in Flying : runs[r].tenant = t}
<1>1. ASSUME Flying' \subseteq Flying,
             \A r \in Flying' : runs'[r].tenant = runs[r].tenant
      PROVE  AdmissionLimits'
  <2>1. \A t : Of(t)' \subseteq Of(t)
    BY <1>1
  <2> QED BY <1>1, <2>1, FlyingIsCounted, NoMore, LimitsAssumption
          DEF AdmissionLimits
<1>2. CASE Quiet
  BY <1>1, <1>2 DEF Quiet, Flying
<1>3. CASE Close
  BY <1>1, <1>3, CloseIsOutside DEF RegistryInv, Flying
<1>4. ASSUME NEW r \in Runs, Release(r) PROVE AdmissionLimits'
  <2>1. /\ \A q \in Runs : runs'[q].tenant = runs[q].tenant
        /\ \A q \in Runs \ {r} : runs'[q] = runs[q]
        /\ runs'[r].pc = "released"
    BY <1>4 DEF Release, RegistryInv, TypeOK, Run
  <2> QED BY <1>1, <2>1 DEF Flying, InFlight
<1>5. ASSUME NEW r \in Runs, Register(r) PROVE AdmissionLimits'
  <2>1. /\ \A q \in Runs : runs'[q].tenant = runs[q].tenant
        /\ \A q \in Runs \ {r} : runs'[q] = runs[q]
        /\ runs'[r].pc = "round"
    BY <1>5 DEF Register, RegistryInv, TypeOK, Run
  <2>2. Flying' = Flying \cup {r}
    BY <2>1 DEF Flying, InFlight
  <2>3. MaxConcurrentRuns > 0 => Cardinality(Flying') <= MaxConcurrentRuns
    <3>1. MaxConcurrentRuns > 0 => Cardinality(KeysInUse) < MaxConcurrentRuns
      BY <1>5 DEF Register, admit
    <3> QED BY <2>2, <3>1, FlyingIsCounted, OneMore, FS_CardinalityType,
               LimitsAssumption
  <2>4. ASSUME NEW t \in Tenants, MaxRunsPerTenant > 0
        PROVE  Cardinality(Of(t)') <= MaxRunsPerTenant
    <3>1. CASE runs[r].tenant = t
      <4>1. Of(t)' = Of(t) \cup {r}
        BY <2>1, <2>2, <3>1 DEF Flying
      <4>2. Cardinality(KeysOf(t)) < MaxRunsPerTenant
        BY <1>5, <2>4, <3>1, NamesAssumption DEF Register, admit
      <4>3. Cardinality(Of(t)) <= Cardinality(KeysOf(t))
        BY FlyingIsCounted
      <4>4. IsFiniteSet(Of(t)) /\ Cardinality(KeysOf(t)) \in Nat
        BY FlyingIsCounted, FS_CardinalityType
      <4> HIDE DEF Of
      <4> QED BY <4>1, <4>2, <4>3, <4>4, OneMore, LimitsAssumption
    <3>2. CASE runs[r].tenant # t
      <4>1. Of(t)' = Of(t)
        BY <2>1, <2>2, <3>2 DEF Flying
      <4> QED BY <2>4, <4>1 DEF AdmissionLimits
    <3> QED BY <3>1, <3>2
  <2> QED BY <2>3, <2>4 DEF AdmissionLimits
<1>6. CASE UNCHANGED vars
  BY <1>1, <1>6 DEF vars, Flying
<1> QED BY <1>2, <1>3, <1>4, <1>5, <1>6, StepKinds DEF RegistryInv

\* Neither the service nor a tenant ever has more runs in flight than its
\* limit, for every limit and any number of callers.
THEOREM AdmissionLimitsHold == Spec => []AdmissionLimits
<1>1. Init => AdmissionLimits
  <2> SUFFICES ASSUME Init PROVE AdmissionLimits
    OBVIOUS
  <2>1. Flying = {}
    BY DEF Init, Flying, InFlight
  <2>2. \A t : {r \in Flying : runs[r].tenant = t} = {}
    BY <2>1
  <2> QED BY <2>1, <2>2, FS_EmptySet, LimitsAssumption DEF AdmissionLimits
<1>2. RegistryInv /\ [Next]_vars => RegistryInv'
  BY TypeStep, ExactStep DEF RegistryInv
<1> QED BY RegistryInit, <1>1, <1>2, LimitsStep, PTL DEF Spec

-----------------------------------------------------------------------------
\* The entries of an exact registry are the runs in flight.
LEMMA RegisteredAreFlying ==
  ASSUME RegistryInv
  PROVE  Registered = Flying
<1>1. ASSUME NEW r \in Registered PROVE r \in Flying
  BY <1>1 DEF Registered, RegistryInv, RegistryIsExact, KeysInUse
<1>2. ASSUME NEW r \in Flying PROVE r \in Registered
  <2>1. registry[runs[r].key] = r /\ runs[r].key \in Keys /\ r # NoRun
    BY <1>2, NamesAssumption
    DEF RegistryInv, RegistryIsExact, Flying, TypeOK, Run
  <2> QED BY <2>1 DEF Registered
<1> QED BY <1>1, <1>2

\* What Close left running stays what it left running while runs go on.
LEMMA QuietCloseInv ==
  ASSUME RegistryInv, TypeOK', CloseInv, Quiet
  PROVE  CloseInv'
<1>1. Flying' = Flying /\ Flying \subseteq Runs
  BY DEF Quiet, Flying
<1>2. saves \subseteq Runs /\ saves' \subseteq Runs
  BY DEF RegistryInv, TypeOK
<1>3. SavesAreOver'
  <2>1. \A r \in saves' : r \in Runs /\ runs'[r].pc \in Over
    BY <1>1, <1>2 DEF Quiet, CloseInv, SavesAreOver
  <2> QED BY <2>1 DEF SavesAreOver
<1>4. UNCHANGED <<closer, toStop, drained>>
  BY DEF Quiet, closing
<1>5. ListIsComplete' /\ EarlierRunsAreStopped' /\ CleanDrain'
  BY <1>1, <1>4
  DEF Quiet, CloseInv, ListIsComplete, EarlierRunsAreStopped, CleanDrain
<1>6. StoreOutlivesRuns'
  BY <1>1, <1>2, <1>4
  DEF Quiet, CloseInv, StoreOutlivesRuns, SavesAreOver
<1> QED BY <1>3, <1>5, <1>6 DEF CloseInv

\* A run that registers after the list was made is late.
LEMMA RegisterCloseInv ==
  ASSUME RegistryInv, CloseInv, NEW r \in Runs, Register(r)
  PROVE  CloseInv'
<1>1. /\ \A q \in Runs \ {r} : runs'[q] = runs[q]
      /\ runs'[r].pc = "round" /\ runs'[r].late = SnapshotTaken
      /\ UNCHANGED <<saves, closer, toStop, drained>>
  BY DEF Register, RegistryInv, TypeOK, Run, closing
<1>2. Flying' = Flying \cup {r} /\ Flying \subseteq Runs /\ saves \subseteq Runs
  BY <1>1 DEF Flying, InFlight, RegistryInv, TypeOK
<1>3. r \notin saves
  BY DEF Register, CloseInv, SavesAreOver, Over
<1>4. \A q \in Flying \cup saves : q # r => (Cancelled(q) => Cancelled(q)')
  BY <1>1, <1>2 DEF Cancelled
<1>5. r \notin Flying
  BY DEF Register, Flying, InFlight
<1>6. SavesAreOver'
  BY <1>1, <1>2, <1>3 DEF CloseInv, SavesAreOver
<1>7. closer \in {"stopping", "waiting", "released"} => runs'[r].late
  BY <1>1 DEF SnapshotTaken
<1>8. ListIsComplete' /\ EarlierRunsAreStopped'
  BY <1>1, <1>2, <1>4, <1>5, <1>7
  DEF CloseInv, ListIsComplete, EarlierRunsAreStopped
<1>9. CleanDrain' /\ StoreOutlivesRuns'
  BY <1>1, <1>2, <1>3, <1>5, <1>7 DEF CloseInv, CleanDrain, StoreOutlivesRuns
<1> QED BY <1>6, <1>8, <1>9 DEF CloseInv

\* A run that leaves takes nothing from what Close guarantees.
LEMMA ReleaseCloseInv ==
  ASSUME RegistryInv, CloseInv, NEW r \in Runs, Release(r)
  PROVE  CloseInv'
<1>1. /\ \A q \in Runs : /\ runs'[q].late = runs[q].late
                         /\ runs'[q].ctx = runs[q].ctx
                         /\ q # r => runs'[q].pc = runs[q].pc
      /\ runs'[r].pc = "released"
      /\ UNCHANGED <<saves, closer, toStop, drained>>
  BY DEF Release, RegistryInv, TypeOK, Run, closing
<1>2. Flying' \subseteq Flying /\ Flying \subseteq Runs /\ saves \subseteq Runs
  BY <1>1 DEF Flying, InFlight, RegistryInv, TypeOK
<1>3. \A q \in Runs : Cancelled(q)' = Cancelled(q)
  BY <1>1 DEF Cancelled
<1>4. SavesAreOver'
  BY <1>1, <1>2 DEF CloseInv, SavesAreOver, Over
<1>5. ListIsComplete' /\ EarlierRunsAreStopped'
  BY <1>1, <1>2, <1>3 DEF CloseInv, ListIsComplete, EarlierRunsAreStopped
<1>6. CleanDrain' /\ StoreOutlivesRuns'
  BY <1>1, <1>2 DEF CloseInv, CleanDrain, StoreOutlivesRuns
<1> QED BY <1>4, <1>5, <1>6 DEF CloseInv

\* Each step of Close establishes what the next relies on.
LEMMA CloseCloseInv ==
  ASSUME RegistryInv, CloseInv, Close
  PROVE  CloseInv'
<1>1. /\ Flying' = Flying /\ saves' = saves
      /\ \A r \in Runs : /\ runs'[r].late = runs[r].late
                         /\ runs'[r].pc = runs[r].pc
                         /\ Cancelled(r) => Cancelled(r)'
  BY CloseIsOutside DEF RegistryInv
<1>2. Flying \subseteq Runs /\ saves \subseteq Runs
  BY DEF Flying, RegistryInv, TypeOK
<1>3. SavesAreOver'
  BY <1>1, <1>2 DEF CloseInv, SavesAreOver
<1> USE DEF CloseInv, ListIsComplete, EarlierRunsAreStopped, CleanDrain,
            StoreOutlivesRuns
<1>4. CASE CloseBegins
  BY <1>1, <1>2, <1>3, <1>4 DEF CloseBegins
<1>5. CASE CloseSnapshot
  <2>1. StopAllRuns = Flying
    BY RegisteredAreFlying DEF StopAllRuns
  <2> QED BY <1>1, <1>2, <1>3, <1>5, <2>1 DEF CloseSnapshot
<1>6. CASE CloseDrains
  <2>1. Registered = Flying
    BY RegisteredAreFlying
  <2> QED BY <1>1, <1>2, <1>3, <1>6, <2>1 DEF CloseDrains, Drain
<1>7. CASE CloseReleases
  BY <1>1, <1>2, <1>3, <1>7 DEF CloseReleases, waitBackground
<1>8. ASSUME NEW r \in Runs, CloseCancels(r) PROVE CloseInv'
  <2>1. Cancelled(r)'
    BY <1>8 DEF CloseCancels, Cancel, Cancelled, RegistryInv, TypeOK, Run
  <2> QED BY <1>1, <1>2, <1>3, <1>8, <2>1 DEF CloseCancels
<1> QED BY <1>4, <1>5, <1>6, <1>7, <1>8 DEF Close

\* Before Close there is nothing to guarantee.
LEMMA CloseInit == Init => CloseInv
BY DEF Init, CloseInv, SavesAreOver, ListIsComplete, CleanDrain,
       EarlierRunsAreStopped, StoreOutlivesRuns

\* The invariant of Close holds throughout.
LEMMA CloseInvHolds == Spec => []CloseInv
<1>1. RegistryInv /\ [Next]_vars => RegistryInv'
  BY TypeStep, ExactStep DEF RegistryInv
<1>2. RegistryInv /\ CloseInv /\ [Next]_vars => CloseInv'
  <2> SUFFICES ASSUME RegistryInv, CloseInv, [Next]_vars PROVE CloseInv'
    OBVIOUS
  <2>1. CASE UNCHANGED vars
    BY <2>1 DEF vars, CloseInv, SavesAreOver, ListIsComplete, CleanDrain,
                EarlierRunsAreStopped, StoreOutlivesRuns, Flying, Cancelled
  <2>2. TypeOK'
    BY TypeStep DEF RegistryInv
  <2> QED BY <2>1, <2>2, StepKinds, QuietCloseInv, RegisterCloseInv,
             ReleaseCloseInv, CloseCloseInv DEF RegistryInv
<1> QED BY RegistryInit, CloseInit, <1>1, <1>2, PTL DEF Spec

\* When Close goes on to release things, every run registered before it made
\* its list has been told to stop.
THEOREM CloseStopsEarlierRuns == Spec => []EarlierRunsAreStopped
<1>1. CloseInv => EarlierRunsAreStopped
  BY DEF CloseInv
<1> QED BY CloseInvHolds, <1>1, PTL

\* Unless the drain timed out, the store is closed under no run, and no
\* memory extraction, but those that slipped in behind Close.
THEOREM StoreClosesLast == Spec => []StoreOutlivesRuns
<1>1. CloseInv => StoreOutlivesRuns
  BY DEF CloseInv
<1> QED BY CloseInvHolds, <1>1, PTL

=============================================================================
