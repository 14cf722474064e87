-------------------------- MODULE AsyncTasksProofs --------------------------
(***************************************************************************)
(* The safety of AsyncTasks for any number of runs, hosts, awaiters, calls *)
(* and restarts.                                                           *)
(***************************************************************************)
EXTENDS AsyncTasks, TLAPS

\* A step by what it does to the record and the row.
Kind(p) ==
    \/ Append(p) \/ Store(p) \/ \E a \in Awaiters : Tell(p, a)
RunKind(r) ==
    \/ RunStarts(r) \/ RunBegins(r) \/ Forward(r)
    \/ \E s \in Told : Observed(r, s)
    \/ \E end \in Ends : RunEnds(r, end)
HostKind(h) ==
    \/ HostActs(h) \/ Spawns(h)
    \/ CancelTask(h) \/ YieldTask(h) \/ ResumeTask(h) \/ ResumeFromCheckpoint(h)
WaitKind(a) == Subscribe(a) \/ Unsubscribe(a) \/ Fill(a) \/ Check(a) \/ Listen(a) \/ GiveUp(a)

LEMMA StepKinds ==
  ASSUME [Next]_vars
  PROVE  \/ \E p \in Procs : Kind(p)
         \/ \E r \in Runs : RunKind(r)
         \/ \E h \in Hosts : HostKind(h)
         \/ \E a \in Awaiters : WaitKind(a)
         \/ StoreInBackground \/ Restart \/ UNCHANGED vars
BY DEF Next, RunStep, HostStep, HostCall, AwaitStep, Emission, Kind, RunKind, HostKind, WaitKind, Procs

-----------------------------------------------------------------------------
(***************************************************************************)
(* Types.                                                                  *)
(***************************************************************************)
LEMMA TypeInit == Init => TypeOK
<1> SUFFICES ASSUME Init PROVE TypeOK
  OBVIOUS
<1>1. at \in [Procs -> Spots] /\ next \in [Procs -> Spots]
  BY DEF Init, Spots
<1>2. final \in [Procs -> BOOLEAN] /\ heard \in [Procs -> SUBSET Awaiters]
  BY DEF Init
<1>3. /\ await \in [Awaiters -> {"new", "filling", "checking", "listening", "leaving", "returned"}]
      /\ channel \in [Awaiters -> {"none", "open", "private", "closed"}]
      /\ unread \in [Awaiters -> BOOLEAN]
  BY DEF Init
<1>4. called \in 0..MaxCalls
  BY BoundsAssumption DEF Init
<1> QED BY <1>1, <1>2, <1>3, <1>4 DEF Init, TypeOK, Statuses, Live

\* An update keeps the types.
LEMMA UpdateType ==
  ASSUME TypeOK, NEW p \in Procs, NEW s \in Statuses, NEW n \in Spots, Update(p, s, n)
  PROVE  /\ status' \in Statuses /\ latest' \in Procs \cup {None}
         /\ storing' \in BOOLEAN /\ misled' \subseteq Awaiters
         /\ at' \in [Procs -> Spots] /\ next' \in [Procs -> Spots]
         /\ final' \in [Procs -> BOOLEAN]
<1>1. "append" \in Spots
  BY DEF Spots, Stages
<1>2. final' \in [Procs -> BOOLEAN]
  <2>1. CASE s \in Terminal
    <3>0. (s \in Terminal) = TRUE
      BY <2>1
    <3>1. final' = [final EXCEPT ![p] = TRUE]
      BY <3>0, Zenon DEF Update
    <3> QED BY <3>1 DEF TypeOK
  <2>2. CASE s \notin Terminal
    <3>0. (s \in Terminal) = FALSE
      BY <2>2
    <3>1. final' = [final EXCEPT ![p] = FALSE]
      BY <3>0, Zenon DEF Update
    <3> QED BY <3>1 DEF TypeOK
  <2> QED BY <2>1, <2>2
<1> QED BY <1>1, <1>2 DEF TypeOK, Update

\* Who has told what it had to goes on, and the last change is told of.
LEMMA HasToTellEffect ==
  ASSUME TypeOK, NEW p \in Procs, NEW rest, HasToTell(p, rest)
  PROVE  /\ at' \in [Procs -> Spots] /\ next' \in [Procs -> Spots]
         /\ final' \in [Procs -> BOOLEAN]
         /\ latest' = latest \/ (latest = p /\ latest' = None)
         /\ \A q \in Procs \ {p} : at'[q] = at[q] /\ next'[q] = next[q] /\ final'[q] = final[q]
         /\ rest # {} => /\ at'[p] = "send" /\ next'[p] = next[p]
                         /\ final'[p] = final[p] /\ latest' = latest
         /\ rest = {} => at'[p] = next[p] /\ latest' # p
<1>1. CASE rest # {}
  BY <1>1 DEF HasToTell, TypeOK, Spots, Stages
<1>2. CASE rest = {}
  <2>1. /\ at' = [at EXCEPT ![p] = next[p]]
        /\ next' = [next EXCEPT ![p] = "idle"]
        /\ final' = [final EXCEPT ![p] = FALSE]
        /\ latest' = IF latest = p THEN None ELSE latest
    BY <1>2 DEF HasToTell
  <2>2. None # p
    BY BoundsAssumption
  <2> QED BY <1>2, <2>1, <2>2 DEF TypeOK, Spots
<1> QED BY <1>1, <1>2

LEMMA KindType ==
  ASSUME TypeOK, NEW p \in Procs, Kind(p)
  PROVE  TypeOK'
<1>1. CASE Append(p)
  <2>1. at' \in [Procs -> Spots] /\ heard' \in [Procs -> SUBSET Awaiters]
    BY <1>1 DEF TypeOK, Append, AfterAppend, Listeners, Spots, Stages
  <2>2. subs' \subseteq Awaiters
    BY <1>1 DEF TypeOK, Append
  <2> QED BY <1>1, <2>1, <2>2 DEF TypeOK, Append, storage, waiting
<1>2. CASE Store(p)
  <2>1. HasToTell(p, heard[p]) /\ row' = status /\ byRun' = FALSE
    BY <1>2 DEF Store
  <2>2. latest' \in Procs \cup {None}
    BY <2>1, HasToTellEffect DEF TypeOK
  <2> QED BY <1>2, <2>1, <2>2, HasToTellEffect DEF TypeOK, Store, waiting
<1>3. ASSUME NEW a \in Awaiters, Tell(p, a) PROVE TypeOK'
  <2>1. heard' \in [Procs -> SUBSET Awaiters] /\ crashed' \in BOOLEAN
    BY <1>3 DEF TypeOK, Tell
  <2>2. unread' \in [Awaiters -> BOOLEAN] /\ channel' \in [Awaiters -> {"none", "open", "private", "closed"}]
    BY <1>3 DEF TypeOK, Tell
  <2>3. HasToTell(p, heard[p] \ {a})
    BY <1>3 DEF Tell
  <2>4. latest' \in Procs \cup {None}
    BY <2>3, HasToTellEffect DEF TypeOK
  <2>5. /\ at' \in [Procs -> Spots] /\ next' \in [Procs -> Spots]
        /\ final' \in [Procs -> BOOLEAN]
    BY <2>3, HasToTellEffect
  <2> QED BY <1>3, <2>1, <2>2, <2>4, <2>5 DEF TypeOK, Tell, storage
<1> QED BY <1>1, <1>2, <1>3 DEF Kind

LEMMA RunType ==
  ASSUME TypeOK, NEW r \in Runs, RunKind(r)
  PROVE  TypeOK'
<1>0. r \in Procs
  BY DEF Procs
<1>1. CASE RunBegins(r)
  <2>1. row' \in Statuses /\ byRun' \in BOOLEAN
    BY <1>1 DEF RunBegins, RunWrites, Statuses, Live
  <2> QED BY <1>0, <1>1, <2>1 DEF TypeOK, RunBegins, Spots, record, waiting
<1>2. CASE RunStarts(r)
  <2>1. "running" \in Statuses /\ "calling" \in Spots
    BY DEF Statuses, Live, Spots
  <2> QED BY <1>0, <1>2, <2>1, UpdateType DEF TypeOK, RunStarts, waiting
<1>3. ASSUME NEW s \in Told, Observed(r, s) PROVE TypeOK'
  <2>1. row' \in Statuses /\ byRun' \in BOOLEAN
    BY <1>3, BoundsAssumption DEF Observed, RunWrites, Statuses
  <2> QED BY <1>3, <2>1 DEF TypeOK, Observed, record, procs, waiting
<1>4. CASE Forward(r)
  <2>1. /\ at' \in [Procs -> Spots] /\ next' \in [Procs -> Spots]
        /\ heard' \in [Procs -> SUBSET Awaiters]
    BY <1>0, <1>4 DEF TypeOK, Forward, AfterAppend, Listeners, Spots, Stages
  <2> QED BY <1>4, <2>1 DEF TypeOK, Forward, record, storage, waiting
<1>5. ASSUME NEW end \in Ends, RunEnds(r, end) PROVE TypeOK'
  <2>1. end \in Statuses /\ "done" \in Spots
    BY DEF Ends, Statuses, Terminal, Spots
  <2>2. left' \subseteq Runs
    BY <1>5 DEF RunEnds, TypeOK
  <2>3. CASE Records(end)
    BY <1>0, <1>5, <2>1, <2>2, <2>3, UpdateType DEF TypeOK, RunEnds, waiting
  <2>4. CASE ~Records(end)
    BY <1>0, <1>5, <2>1, <2>2, <2>4 DEF TypeOK, RunEnds, waiting
  <2> QED BY <2>3, <2>4
<1> QED BY <1>1, <1>2, <1>3, <1>4, <1>5 DEF RunKind

\* The guards of a call put it in its place and count it.
LEMMA CallType ==
  ASSUME TypeOK, NEW h \in Hosts, NEW op \in Spots, Begins(h, op),
         called < MaxCalls, called' = called + 1
  PROVE  TypeOK'
<1>1. h \in Procs
  BY DEF Procs
<1>2. called' \in 0..MaxCalls
  BY BoundsAssumption DEF TypeOK
<1> QED BY <1>1, <1>2 DEF TypeOK, Begins, record, storage, waiting

LEMMA HostType ==
  ASSUME TypeOK, NEW h \in Hosts, HostKind(h)
  PROVE  TypeOK'
<1>0. h \in Procs
  BY DEF Procs
<1>2. CASE HostActs(h)
  <2>1. \A s \in {"cancelled", "yielded", "resuming", "running"} : s \in Statuses
    BY DEF Statuses, Terminal, Paused, Live
  <2>2. \A n \in {"idle", "resumed", "replayed"} : n \in Spots
    BY DEF Spots
  <2>3. ASSUME NEW op, NEW s \in Statuses, NEW n \in Spots, Acts(h, op, s, n) PROVE TypeOK'
    BY <1>0, <2>3, UpdateType DEF TypeOK, Acts, waiting
  <2> QED BY <1>2, <2>1, <2>2, <2>3 DEF HostActs
<1>3. CASE Spawns(h)
  <2>1. PICK r \in Unused : at' = [at EXCEPT ![h] = "idle",
                                 ![r] = IF at[h] = "resumed" THEN "spawned" ELSE "calling"]
    BY <1>3 DEF Spawns
  <2>2. r \in Procs
    BY DEF Unused, Procs
  <2>3. at' \in [Procs -> Spots]
    BY <1>0, <2>1, <2>2 DEF TypeOK, Spots
  <2> QED BY <1>3, <2>3 DEF TypeOK, Spawns, record, storage, waiting
<1>4. CASE CancelTask(h) \/ YieldTask(h) \/ ResumeTask(h) \/ ResumeFromCheckpoint(h)
  <2>1. \A op \in {"cancel", "yield", "resume", "replay"} : op \in Spots
    BY DEF Spots
  <2> QED BY <1>4, <2>1, CallType DEF CancelTask, YieldTask, ResumeTask, ResumeFromCheckpoint, Calling
<1> QED BY <1>2, <1>3, <1>4 DEF HostKind

LEMMA WaitType ==
  ASSUME TypeOK, NEW a \in Awaiters, WaitKind(a)
  PROVE  TypeOK'
<1> USE DEF TypeOK, record, storage, procs
<1>1. CASE Subscribe(a)
  BY <1>1 DEF Subscribe
<1>2. CASE Unsubscribe(a)
  BY <1>2 DEF Unsubscribe
<1>3. CASE Fill(a)
  BY <1>3 DEF Fill
<1>4. CASE Check(a) \/ GiveUp(a)
  BY <1>4 DEF Check, GiveUp
<1>5. CASE Listen(a)
  BY <1>5 DEF Listen
<1> QED BY <1>1, <1>2, <1>3, <1>4, <1>5 DEF WaitKind

LEMMA RestartType ==
  ASSUME TypeOK, Restart
  PROVE  TypeOK'
<1>1. at' \in [Procs -> Spots] /\ next' \in [Procs -> Spots] /\ final' \in [Procs -> BOOLEAN]
  BY DEF Restart, Spots
<1>2. /\ heard' \in [Procs -> SUBSET Awaiters]
      /\ await' \in [Awaiters -> {"new", "filling", "checking", "listening", "leaving", "returned"}]
      /\ channel' \in [Awaiters -> {"none", "open", "private", "closed"}]
  BY DEF Restart
<1>3. called' \in 0..MaxCalls
  BY BoundsAssumption DEF TypeOK, Restart
<1> QED BY <1>1, <1>2, <1>3 DEF TypeOK, Restart, Statuses

LEMMA TypeStep == TypeOK /\ [Next]_vars => TypeOK'
<1> SUFFICES ASSUME TypeOK, [Next]_vars PROVE TypeOK'
  OBVIOUS
<1>1. CASE StoreInBackground
  BY <1>1 DEF TypeOK, StoreInBackground, Copy, record, procs, waiting
<1>2. CASE UNCHANGED vars
  BY <1>2 DEF TypeOK, vars, record, storage, procs, waiting
<1> QED BY <1>1, <1>2, StepKinds, KindType, RunType, HostType, WaitType, RestartType

\* Every variable keeps its type.
THEOREM TypeCorrect == Spec => []TypeOK
BY TypeInit, TypeStep, PTL DEF Spec

-----------------------------------------------------------------------------
(***************************************************************************)
(* Who ends the task.                                                      *)
(***************************************************************************)
\* A step that keeps the status, and every run and host that has the task
\* to end or to start again.
Keeps ==
    /\ status' = status
    /\ \A r \in Runs : WillEnd(r) => WillEnd(r)'
    /\ \A h \in Hosts : WillSpawn(h) => WillSpawn(h)'

LEMMA KeepsLive == ASSUME LiveHasARun, Keeps PROVE LiveHasARun'
BY DEF LiveHasARun, Keeps

\* Emitting an event leads back to where the process was to go.
LEMMA KindKeeps == ASSUME TypeOK, NEW p \in Procs, Kind(p) PROVE Keeps
<1>1. CASE Append(p)
  BY <1>1 DEF Append, AfterAppend, Keeps, WillEnd, WillSpawn, TypeOK, Stages
<1>2. ASSUME NEW rest, HasToTell(p, rest), at[p] \in Stages, status' = status PROVE Keeps
  <2>1. /\ \A q \in Procs \ {p} : at'[q] = at[q] /\ next'[q] = next[q]
        /\ at'[p] = next[p] \/ (at'[p] = "send" /\ next'[p] = next[p])
    BY <1>2, HasToTellEffect
  <2>2. \A q \in Procs :
          \/ at'[q] = at[q] /\ next'[q] = next[q]
          \/ at[q] \in Stages /\ (at'[q] = next[q] \/ (at'[q] = "send" /\ next'[q] = next[q]))
    BY <1>2, <2>1
  <2>3. \A r \in Runs : WillEnd(r) => WillEnd(r)'
    BY <2>2 DEF WillEnd, Stages, Procs
  <2>4. \A h \in Hosts : WillSpawn(h) => WillSpawn(h)'
    BY <2>2 DEF WillSpawn, Stages, Procs
  <2> QED BY <1>2, <2>3, <2>4 DEF Keeps
<1>3. CASE Store(p)
  BY <1>2, <1>3 DEF Store, Stages
<1>4. ASSUME NEW a \in Awaiters, Tell(p, a) PROVE Keeps
  BY <1>2, <1>4 DEF Tell, Stages
<1> QED BY <1>1, <1>3, <1>4 DEF Kind

LEMMA LiveStep ==
  ASSUME TypeOK, LiveHasARun, [Next]_vars
  PROVE  LiveHasARun'
<1>1. ASSUME NEW r \in Runs, RunKind(r) PROVE LiveHasARun'
  <2>0. r \in Procs
    BY DEF Procs
  <2>1. CASE RunBegins(r) \/ Forward(r)
    <3>1. Keeps
      BY <2>0, <2>1, BoundsAssumption
         DEF Keeps, WillEnd, WillSpawn, TypeOK, Stages, RunBegins, Forward, AfterAppend, record, Procs
    <3> QED BY <3>1, KeepsLive
  <2>4. ASSUME NEW s \in Told, Observed(r, s) PROVE LiveHasARun'
    <3>1. Keeps
      BY <2>4 DEF Keeps, WillEnd, WillSpawn, Observed, record, procs
    <3> QED BY <3>1, KeepsLive
  <2>2. CASE RunStarts(r)
    <3>1. at'[r] = "append" /\ next'[r] = "calling"
      BY <2>0, <2>2 DEF RunStarts, Update, TypeOK
    <3> QED BY <3>1 DEF LiveHasARun, WillEnd, Stages
  <2>3. ASSUME NEW end \in Ends, RunEnds(r, end) PROVE LiveHasARun'
    <3>1. CASE Records(end)
      BY <2>3, <3>1 DEF RunEnds, Update, LiveHasARun, Ends, Live
    <3>2. CASE ~Records(end)
      BY <2>3, <3>2 DEF RunEnds, Records, LiveHasARun, Live, Terminal
    <3> QED BY <3>1, <3>2
  <2> QED BY <1>1, <2>1, <2>2, <2>3, <2>4 DEF RunKind
<1>2. ASSUME NEW h \in Hosts, HostKind(h) PROVE LiveHasARun'
  <2>0. h \in Procs
    BY DEF Procs
  <2>1. CASE HostActs(h)
    <3>1. CASE Acts(h, "cancel", "cancelled", "idle") \/ Acts(h, "yield", "yielded", "idle")
      BY <3>1 DEF Acts, Update, LiveHasARun, Live
    <3>2. CASE Acts(h, "resume", "resuming", "resumed") \/ Acts(h, "replay", "running", "replayed")
      <4>1. at'[h] = "append" /\ next'[h] \in {"resumed", "replayed"}
        BY <2>0, <3>2 DEF Acts, Update, TypeOK
      <4> QED BY <4>1 DEF LiveHasARun, WillSpawn, Stages
    <3> QED BY <2>1, <3>1, <3>2 DEF HostActs
  <2>3. CASE Spawns(h)
    <3>1. PICK r \in Unused : at' = [at EXCEPT ![h] = "idle",
                                 ![r] = IF at[h] = "resumed" THEN "spawned" ELSE "calling"]
      BY <2>3 DEF Spawns
    <3>2. r \in Runs /\ r \in Procs
      BY DEF Unused, Procs
    <3>3. at'[r] \in {"spawned", "calling"}
      BY <3>1, <3>2 DEF TypeOK
    <3> QED BY <3>2, <3>3 DEF LiveHasARun, WillEnd
  <2>4. ASSUME NEW op \in {"cancel", "yield", "resume", "replay"}, Begins(h, op)
        PROVE  LiveHasARun'
    <3>1. Keeps
      BY <2>0, <2>4, BoundsAssumption DEF Begins, Keeps, WillEnd, WillSpawn, TypeOK, Stages, record, Procs
    <3> QED BY <3>1, KeepsLive
  <2> QED BY <1>2, <2>1, <2>3, <2>4
      DEF HostKind, CancelTask, YieldTask, ResumeTask, ResumeFromCheckpoint
<1>3. ASSUME NEW a \in Awaiters, WaitKind(a) PROVE LiveHasARun'
  <2>1. Keeps
    BY <1>3 DEF WaitKind, Subscribe, Unsubscribe, Fill, Check, Listen, GiveUp, record, procs,
       Keeps, WillEnd, WillSpawn
  <2> QED BY <2>1, KeepsLive
<1>4. CASE StoreInBackground \/ UNCHANGED vars
  <2>1. Keeps
    BY <1>4 DEF StoreInBackground, vars, record, procs, Keeps, WillEnd, WillSpawn
  <2> QED BY <2>1, KeepsLive
<1>5. CASE Restart
  BY <1>5 DEF Restart, LiveHasARun, Live
<1> QED BY <1>1, <1>2, <1>3, <1>4, <1>5, StepKinds, KindKeeps, KeepsLive

\* No task is left queued, running or resuming with nobody to end it,
\* whichever calls and runs cross.
THEOREM SomebodyEndsIt == Spec => []LiveHasARun
<1>1. Init => LiveHasARun
  <2>1. (CHOOSE r \in Runs : TRUE) \in Runs
    BY BoundsAssumption
  <2> QED BY <2>1 DEF Init, LiveHasARun, WillEnd, Procs
<1> QED BY <1>1, LiveStep, TypeStep, TypeInit, PTL DEF Spec

-----------------------------------------------------------------------------
(***************************************************************************)
(* The row.                                                                *)
(***************************************************************************)
\* A step that leaves the row alone, and every run that is to account for it.
Aside ==
    /\ status' = status /\ row' = row /\ byRun' = byRun /\ left' = left
    /\ \A r \in Runs : WillEnd(r) => WillEnd(r)'
    /\ Unstored => Unstored'

LEMMA AsideRow == ASSUME RowIsCurrent, Aside PROVE RowIsCurrent'
BY DEF RowIsCurrent, Aside

LEMMA RowStep ==
  ASSUME TypeOK, RowIsCurrent, [Next]_vars
  PROVE  RowIsCurrent'
<1>1. ASSUME NEW p \in Procs, NEW s, NEW n, Update(p, s, n) PROVE RowIsCurrent'
  BY <1>1 DEF Update, RowIsCurrent, Unstored
<1>2. ASSUME NEW p \in Procs, Kind(p) PROVE RowIsCurrent'
  <2>1. CASE Append(p)
    <3>1. at'[p] = "store"
      BY <2>1 DEF Append, AfterAppend, TypeOK
    <3> QED BY <3>1 DEF RowIsCurrent, Unstored
  <2>2. CASE Store(p)
    BY <2>2 DEF Store, RowIsCurrent
  <2>3. ASSUME NEW a \in Awaiters, Tell(p, a) PROVE RowIsCurrent'
    <3>1. \A r \in Runs : WillEnd(r) => WillEnd(r)'
      BY <1>2, KindKeeps DEF Keeps
    <3>2. at[p] = "send" /\ \A q \in Procs \ {p} : at'[q] = at[q]
      BY <2>3, HasToTellEffect DEF Tell
    <3>3. Unstored => Unstored'
      BY <2>3, <3>2 DEF Unstored, Tell, storage
    <3>4. Aside
      BY <2>3, <3>1, <3>3 DEF Aside, Tell, storage
    <3> QED BY <3>4, AsideRow
  <2> QED BY <1>2, <2>1, <2>2, <2>3 DEF Kind
<1>3. ASSUME NEW r \in Runs, RunKind(r) PROVE RowIsCurrent'
  <2>0. r \in Procs
    BY DEF Procs
  <2>1. CASE RunStarts(r)
    BY <2>0, <2>1, <1>1 DEF RunStarts
  <2>2. CASE RunBegins(r)
    <3>1. at'[r] = "running" /\ byRun'
      BY <2>0, <2>2 DEF RunBegins, RunWrites, TypeOK
    <3> QED BY <3>1 DEF RowIsCurrent, WillEnd
  <2>3. ASSUME NEW s \in Told, Observed(r, s) PROVE RowIsCurrent'
    <3>1. byRun' /\ (WillEnd(r)' \/ r \in left')
      BY <2>3 DEF Observed, RunWrites, Running, WillEnd, procs
    <3> QED BY <3>1 DEF RowIsCurrent
  <2>4. CASE Forward(r)
    <3>1. at'[r] = "store"
      BY <2>0, <2>4 DEF Forward, AfterAppend, TypeOK
    <3> QED BY <2>0, <3>1 DEF RowIsCurrent, Unstored
  <2>5. ASSUME NEW end \in Ends, RunEnds(r, end) PROVE RowIsCurrent'
    <3>1. CASE Records(end)
      BY <2>0, <2>5, <3>1, <1>1 DEF RunEnds
    <3>2. CASE ~Records(end)
      BY <2>5, <3>2 DEF RunEnds, RowIsCurrent, Unstored
    <3> QED BY <3>1, <3>2
  <2> QED BY <1>3, <2>1, <2>2, <2>3, <2>4, <2>5 DEF RunKind
<1>4. ASSUME NEW h \in Hosts, HostKind(h) PROVE RowIsCurrent'
  <2>0. h \in Procs /\ h \notin Runs
    BY BoundsAssumption DEF Procs
  <2>1. CASE HostActs(h)
    BY <2>0, <2>1, <1>1 DEF HostActs, Acts
  <2>2. CASE Spawns(h)
    <3>1. PICK r \in Unused : at' = [at EXCEPT ![h] = "idle",
                                 ![r] = IF at[h] = "resumed" THEN "spawned" ELSE "calling"]
      BY <2>2 DEF Spawns
    <3>2. at[h] \in {"resumed", "replayed"} /\ at[r] = "idle" /\ r \in Procs /\ r \in Runs
      BY <2>2 DEF Spawns, Unused, Procs
    <3>3. \A q \in Procs : q # h /\ q # r => at'[q] = at[q]
      BY <3>1 DEF TypeOK
    <3>4. Unstored => Unstored'
      BY <2>2, <3>2, <3>3 DEF Unstored, Spawns, storage
    <3>5. \A q \in Runs : WillEnd(q) => WillEnd(q)'
      BY <2>0, <2>2, <3>2, <3>3 DEF WillEnd, Spawns, Stages, Procs
    <3>6. Aside
      BY <2>2, <3>4, <3>5 DEF Aside, Spawns, record, storage
    <3> QED BY <3>6, AsideRow
  <2>3. ASSUME NEW op, Begins(h, op) PROVE RowIsCurrent'
    <3>1. at[h] = "idle" /\ \A q \in Procs : q # h => at'[q] = at[q]
      BY <2>3 DEF Begins, TypeOK
    <3>2. Unstored => Unstored'
      BY <2>3, <3>1 DEF Unstored, Begins, storage
    <3>3. \A q \in Runs : WillEnd(q) => WillEnd(q)'
      BY <2>0, <2>3, <3>1 DEF WillEnd, Begins, Procs
    <3>4. Aside
      BY <2>3, <3>2, <3>3 DEF Aside, Begins, record, storage
    <3> QED BY <3>4, AsideRow
  <2> QED BY <1>4, <2>1, <2>2, <2>3
      DEF HostKind, CancelTask, YieldTask, ResumeTask, ResumeFromCheckpoint
<1>5. ASSUME NEW a \in Awaiters, WaitKind(a) PROVE RowIsCurrent'
  <2>1. UNCHANGED <<status, storage, procs, left>>
    BY <1>5 DEF WaitKind, Subscribe, Unsubscribe, Fill, Check, Listen, GiveUp, record
  <2>2. Aside
    BY <2>1 DEF Aside, WillEnd, Unstored, storage, procs
  <2> QED BY <2>2, AsideRow
<1>6. CASE StoreInBackground
  BY <1>6 DEF StoreInBackground, Copy, record, RowIsCurrent
<1>7. CASE Restart
  BY <1>7 DEF Restart, RowIsCurrent
<1>8. CASE UNCHANGED vars
  <2>1. Aside
    BY <1>8 DEF Aside, WillEnd, Unstored, vars, record, storage, procs
  <2> QED BY <2>1, AsideRow
<1> QED BY <1>2, <1>3, <1>4, <1>5, <1>6, <1>7, <1>8, StepKinds

\* The row is never left behind: with no change of the record on its way it
\* is the record, or what a run wrote after it that is still to end or that
\* its task has left.
THEOREM RowCatchesUp == Spec => []RowIsCurrent
<1>1. Init => RowIsCurrent
  BY DEF Init, RowIsCurrent
<1> QED BY <1>1, RowStep, TypeStep, TypeInit, PTL DEF Spec

\* A process stores before it tells.
LEMMA AnnounceStep ==
  ASSUME TypeOK, AnnouncedIsStored, [Next]_vars
  PROVE  AnnouncedIsStored'
<1> USE DEF AnnouncedIsStored
<1>1. ASSUME NEW p \in Procs, NEW s, NEW n, Update(p, s, n) PROVE AnnouncedIsStored'
  BY <1>1 DEF Update, TypeOK
<1>2. ASSUME NEW p \in Procs, Kind(p) PROVE AnnouncedIsStored'
  <2>1. CASE Append(p)
    BY <1>2, <2>1 DEF Append, AfterAppend, TypeOK, storage
  <2>2. CASE Store(p)
    BY <2>2 DEF Store
  <2>3. ASSUME NEW a \in Awaiters, Tell(p, a) PROVE AnnouncedIsStored'
    <3>1. /\ latest' = latest \/ latest' = None
          /\ \A q \in Procs \ {p} : at'[q] = at[q]
      BY <2>3, HasToTellEffect DEF Tell
    <3>2. at[p] = "send" /\ UNCHANGED <<status, row, byRun>>
      BY <2>3 DEF Tell, storage
    <3> QED BY <3>1, <3>2, BoundsAssumption
  <2> QED BY <1>2, <2>1, <2>2, <2>3 DEF Kind
<1>3. ASSUME NEW r \in Runs, RunKind(r) PROVE AnnouncedIsStored'
  <2>0. r \in Procs
    BY DEF Procs
  <2>1. CASE Forward(r)
    BY <2>0, <2>1 DEF Forward, AfterAppend, TypeOK, record, storage
  <2>2. CASE RunStarts(r)
    BY <2>0, <2>2, <1>1 DEF RunStarts
  <2>3. ASSUME NEW s, RunWrites(s) PROVE AnnouncedIsStored'
    BY <2>3 DEF RunWrites
  <2>4. ASSUME NEW end \in Ends, RunEnds(r, end) PROVE AnnouncedIsStored'
    <3>1. CASE Records(end)
      BY <2>0, <2>4, <3>1, <1>1 DEF RunEnds
    <3>2. CASE ~Records(end)
      BY <2>0, <2>4, <3>2 DEF RunEnds, TypeOK
    <3> QED BY <3>1, <3>2
  <2> QED BY <1>3, <2>1, <2>2, <2>3, <2>4 DEF RunKind, RunBegins, Observed
<1>4. ASSUME NEW h \in Hosts, HostKind(h) PROVE AnnouncedIsStored'
  <2>0. h \in Procs
    BY DEF Procs
  <2>1. CASE HostActs(h)
    BY <2>0, <2>1, <1>1 DEF HostActs, Acts
  <2>3. CASE Spawns(h)
    <3>1. PICK r \in Unused : at' = [at EXCEPT ![h] = "idle",
                                 ![r] = IF at[h] = "resumed" THEN "spawned" ELSE "calling"]
      BY <2>3 DEF Spawns
    <3>2. at[h] \in {"resumed", "replayed"} /\ at[r] = "idle" /\ r \in Procs
      BY <2>3 DEF Spawns, Unused, Procs
    <3> QED BY <2>0, <2>3, <3>1, <3>2 DEF Spawns, TypeOK, record, storage
  <2>4. ASSUME NEW op \in {"cancel", "yield", "resume", "replay"}, Begins(h, op)
        PROVE  AnnouncedIsStored'
    BY <2>0, <2>4 DEF Begins, TypeOK, record, storage
  <2> QED BY <1>4, <2>1, <2>3, <2>4
      DEF HostKind, CancelTask, YieldTask, ResumeTask, ResumeFromCheckpoint
<1>5. ASSUME NEW a \in Awaiters, WaitKind(a) PROVE AnnouncedIsStored'
  BY <1>5 DEF WaitKind, Subscribe, Unsubscribe, Fill, Check, Listen, GiveUp, record, storage, procs
<1>6. CASE StoreInBackground
  BY <1>6 DEF StoreInBackground, Copy, record
<1>7. CASE Restart
  BY <1>7 DEF Restart
<1>8. CASE UNCHANGED vars
  BY <1>8 DEF vars, record, storage, procs
<1> QED BY <1>2, <1>3, <1>4, <1>5, <1>6, <1>7, <1>8, StepKinds

\* Whoever is told of the last update finds it in the row.
THEOREM StoredBeforeAnnounced == Spec => []AnnouncedIsStored
<1>1. Init => AnnouncedIsStored
  BY DEF Init, AnnouncedIsStored
<1> QED BY <1>1, AnnounceStep, TypeStep, TypeInit, PTL DEF Spec

-----------------------------------------------------------------------------
(***************************************************************************)
(* Who drops the subscribers.                                              *)
(***************************************************************************)
\* A step that keeps status and subscribers, and the events on their way.
Passes ==
    /\ status' = status /\ subs' \subseteq subs
    /\ \A p \in Procs : at[p] = "append" /\ final[p] => at'[p] = "append" /\ final'[p]

LEMMA PassesLeft == ASSUME NobodyIsLeft, Passes PROVE NobodyIsLeft'
BY DEF NobodyIsLeft, Passes

LEMMA LeftStep ==
  ASSUME TypeOK, NobodyIsLeft, [Next]_vars
  PROVE  NobodyIsLeft'
<1>0. ASSUME NEW p \in Procs, NEW s, NEW n, Update(p, s, n) PROVE NobodyIsLeft'
  <2>1. at'[p] = "append" /\ (s \in Terminal => final'[p])
    BY <1>0 DEF Update, TypeOK
  <2> QED BY <1>0, <2>1 DEF Update, NobodyIsLeft
<1>1. ASSUME NEW p \in Procs, Kind(p) PROVE NobodyIsLeft'
  <2>1. CASE Append(p)
    <3>1. CASE final[p]
      BY <2>1, <3>1 DEF Append, NobodyIsLeft
    <3>2. CASE ~final[p]
      <4>1. Passes
        BY <2>1, <3>2 DEF Append, Passes, TypeOK
      <4> QED BY <4>1, PassesLeft
    <3> QED BY <3>1, <3>2
  <2>2. CASE Store(p)
    <3>1. \A q \in Procs \ {p} : at'[q] = at[q] /\ final'[q] = final[q]
      BY <2>2, HasToTellEffect DEF Store
    <3>2. Passes
      BY <2>2, <3>1 DEF Store, Passes
    <3> QED BY <3>2, PassesLeft
  <2>3. ASSUME NEW a \in Awaiters, Tell(p, a) PROVE NobodyIsLeft'
    <3>1. \A q \in Procs \ {p} : at'[q] = at[q] /\ final'[q] = final[q]
      BY <2>3, HasToTellEffect DEF Tell
    <3>2. Passes
      BY <2>3, <3>1 DEF Tell, Passes
    <3> QED BY <3>2, PassesLeft
  <2> QED BY <1>1, <2>1, <2>2, <2>3 DEF Kind
<1>2. ASSUME NEW r \in Runs, RunKind(r) PROVE NobodyIsLeft'
  <2>0. r \in Procs
    BY DEF Procs
  <2>1. ASSUME NEW s, RunBegins(r) \/ Forward(r) \/ Observed(r, s) PROVE NobodyIsLeft'
    <3>1. Passes
      BY <2>0, <2>1 DEF Passes, TypeOK, RunBegins, Forward, Observed, record, procs
    <3> QED BY <3>1, PassesLeft
  <2>2. CASE RunStarts(r)
    BY <2>0, <2>2, <1>0 DEF RunStarts
  <2>3. ASSUME NEW end \in Ends, RunEnds(r, end) PROVE NobodyIsLeft'
    <3>1. CASE Records(end)
      BY <2>0, <2>3, <3>1, <1>0 DEF RunEnds
    <3>2. CASE ~Records(end)
      <4>1. Passes
        BY <2>0, <2>3, <3>2 DEF RunEnds, Passes, TypeOK
      <4> QED BY <4>1, PassesLeft
    <3> QED BY <3>1, <3>2
  <2> QED BY <1>2, <2>1, <2>2, <2>3 DEF RunKind
<1>3. ASSUME NEW h \in Hosts, HostKind(h) PROVE NobodyIsLeft'
  <2>0. h \in Procs
    BY DEF Procs
  <2>1. CASE HostActs(h)
    BY <2>0, <2>1, <1>0 DEF HostActs, Acts
  <2>2. ASSUME NEW op, Begins(h, op) PROVE NobodyIsLeft'
    <3>1. Passes
      BY <2>0, <2>2 DEF Begins, Passes, TypeOK, record
    <3> QED BY <3>1, PassesLeft
  <2>3. CASE Spawns(h)
    <3>1. PICK r \in Unused : at' = [at EXCEPT ![h] = "idle",
                                 ![r] = IF at[h] = "resumed" THEN "spawned" ELSE "calling"]
      BY <2>3 DEF Spawns
    <3>2. Passes
      BY <2>0, <2>3, <3>1 DEF Spawns, Unused, Passes, TypeOK, record
    <3> QED BY <3>2, PassesLeft
  <2> QED BY <1>3, <2>1, <2>2, <2>3
      DEF HostKind, CancelTask, YieldTask, ResumeTask, ResumeFromCheckpoint
<1>4. ASSUME NEW a \in Awaiters, WaitKind(a) PROVE NobodyIsLeft'
  <2>1. CASE Subscribe(a) /\ status \notin Terminal
    BY <2>1 DEF Subscribe, NobodyIsLeft
  <2>2. CASE ~(Subscribe(a) /\ status \notin Terminal)
    <3>1. Passes
      BY <1>4, <2>2 DEF WaitKind, Subscribe, Unsubscribe, Fill, Check, Listen, GiveUp, record, procs, Passes
    <3> QED BY <3>1, PassesLeft
  <2> QED BY <2>1, <2>2
<1>5. CASE StoreInBackground \/ UNCHANGED vars
  <2>1. Passes
    BY <1>5 DEF StoreInBackground, vars, record, procs, Passes
  <2> QED BY <2>1, PassesLeft
<1>6. CASE Restart
  BY <1>6 DEF Restart, NobodyIsLeft
<1> QED BY <1>1, <1>2, <1>3, <1>4, <1>5, <1>6, StepKinds

\* Nobody stays subscribed to a task that has ended.
THEOREM SubscribersAreDropped == Spec => []NobodyIsLeft
<1>1. Init => NobodyIsLeft
  BY DEF Init, NobodyIsLeft
<1> QED BY <1>1, LeftStep, TypeStep, TypeInit, PTL DEF Spec

-----------------------------------------------------------------------------
(***************************************************************************)
(* That an await sleeps through nothing.                                   *)
(***************************************************************************)
\* Whoever has a channel to tell is past its append.
HeardIsSending == \A p \in Procs : heard[p] # {} => at[p] \in {"store", "send"}

\* A channel that is open is still subscribed, or is to be closed by the
\* last event of the task.
OpenIsKnown ==
    \A a \in Awaiters : channel[a] = "open" =>
        a \in subs \/ \E p \in Procs : final[p] /\ a \in heard[p]

\* An await has a channel, and its own to close is closed before it looks.
AwaitsHaveChannels ==
    \A a \in Awaiters :
        /\ await[a] = "filling" => channel[a] \in {"open", "private", "closed"}
        /\ await[a] \in {"checking", "listening"} => channel[a] \in {"open", "closed"}

\* Nobody waits for a task of an earlier process.
NobodyWaitsInVain ==
    status = "absent" => \A a \in Awaiters : await[a] \in {"new", "returned"}

NewsInv ==
    /\ HeardIsSending /\ OpenIsKnown /\ AwaitsHaveChannels /\ NobodyWaitsInVain
    /\ NewsIsOnTheWay

\* A step that touches neither the task, its subscribers and their channels
\* nor an event on its way.
Quiet ==
    /\ status' = status /\ subs' = subs /\ heard' = heard
    /\ await' = await /\ channel' = channel /\ unread' = unread /\ misled' = misled
    /\ \A p \in Procs : at[p] \in Stages => at'[p] = at[p] /\ final'[p] = final[p]

LEMMA QuietNews == ASSUME NewsInv, Quiet PROVE NewsInv'
<1>1. HeardIsSending'
  BY DEF NewsInv, HeardIsSending, Quiet, Stages
<1>2. OpenIsKnown'
  BY DEF NewsInv, HeardIsSending, OpenIsKnown, Quiet, Stages
<1>3. AwaitsHaveChannels'
  BY DEF NewsInv, AwaitsHaveChannels, Quiet
<1>4. NewsIsOnTheWay'
  BY DEF NewsInv, NewsIsOnTheWay, Quiet, Stages
<1>5. NobodyWaitsInVain'
  BY DEF NewsInv, NobodyWaitsInVain, Quiet
<1> QED BY <1>1, <1>2, <1>3, <1>4, <1>5 DEF NewsInv

\* An update puts its process before the append that will tell everybody who
\* is subscribed; whoever is not will hear the event that dropped it.
LEMMA UpdateNews ==
  ASSUME TypeOK, NewsInv, NEW p \in Procs, NEW s, NEW n, Update(p, s, n),
         s # "absent", at[p] \notin Stages, UNCHANGED <<subs, heard, waiting>>
  PROVE  NewsInv'
<1>1. heard[p] = {}
  BY DEF NewsInv, HeardIsSending, Stages
<1>2. at'[p] = "append" /\ \A q \in Procs \ {p} : at'[q] = at[q] /\ final'[q] = final[q]
  BY DEF Update, TypeOK
<1>3. HeardIsSending'
  BY <1>1, <1>2 DEF NewsInv, HeardIsSending
<1>4. OpenIsKnown'
  BY <1>1, <1>2 DEF NewsInv, OpenIsKnown, waiting
<1>5. AwaitsHaveChannels'
  BY DEF NewsInv, AwaitsHaveChannels, waiting
<1>6. NewsIsOnTheWay'
  BY <1>2, <1>4, <1>5 DEF NewsIsOnTheWay, OpenIsKnown, AwaitsHaveChannels
<1>7. NobodyWaitsInVain'
  BY DEF NobodyWaitsInVain, Update
<1> QED BY <1>3, <1>4, <1>5, <1>6, <1>7 DEF NewsInv

LEMMA KindNews ==
  ASSUME TypeOK, NewsInv, NEW p \in Procs, Kind(p)
  PROVE  NewsInv'
<1>1. CASE Append(p)
  <2>1. heard[p] = {} /\ heard'[p] = subs /\ \A q \in Procs \ {p} : heard'[q] = heard[q]
    BY <1>1 DEF Append, Listeners, NewsInv, HeardIsSending, TypeOK
  <2>2. at'[p] = "store" /\ \A q \in Procs \ {p} : at'[q] = at[q]
    BY <1>1 DEF Append, AfterAppend, TypeOK
  <2>3. UNCHANGED <<final, status, await, channel, unread, misled>>
    BY <1>1 DEF Append, waiting
  <2>4. IF final[p] THEN subs' = {} ELSE subs' = subs
    BY <1>1 DEF Append
  <2>5. HeardIsSending'
    BY <2>1, <2>2 DEF NewsInv, HeardIsSending
  <2>6. OpenIsKnown'
    BY <2>1, <2>3, <2>4 DEF NewsInv, OpenIsKnown
  <2>7. NewsIsOnTheWay'
    BY <2>1, <2>2, <2>3 DEF NewsInv, NewsIsOnTheWay
  <2> QED BY <2>3, <2>5, <2>6, <2>7 DEF NewsInv, AwaitsHaveChannels, NobodyWaitsInVain
<1>2. CASE Store(p)
  <2>1. \A q \in Procs \ {p} : at'[q] = at[q] /\ final'[q] = final[q]
    BY <1>2, HasToTellEffect DEF Store
  <2>2. heard[p] # {} => at'[p] = "send" /\ final'[p] = final[p]
    BY <1>2, HasToTellEffect DEF Store
  <2>3. at[p] = "store" /\ UNCHANGED <<status, subs, heard, await, channel, unread, misled>>
    BY <1>2 DEF Store, waiting
  <2>4. HeardIsSending'
    BY <2>1, <2>2, <2>3 DEF NewsInv, HeardIsSending
  <2>5. OpenIsKnown'
    BY <2>1, <2>2, <2>3 DEF NewsInv, OpenIsKnown
  <2>6. NewsIsOnTheWay'
    BY <2>1, <2>2, <2>3 DEF NewsInv, NewsIsOnTheWay
  <2> QED BY <2>3, <2>4, <2>5, <2>6 DEF NewsInv, AwaitsHaveChannels, NobodyWaitsInVain
<1>3. ASSUME NEW a \in Awaiters, Tell(p, a) PROVE NewsInv'
  <2>1. UNCHANGED <<status, subs, await, misled>> /\ at[p] = "send"
    BY <1>3 DEF Tell
  <2>2. heard'[p] = heard[p] \ {a} /\ \A q \in Procs \ {p} : heard'[q] = heard[q]
    BY <1>3 DEF Tell, TypeOK
  <2>3. /\ unread'[a] = TRUE
        /\ \A b \in Awaiters \ {a} : unread'[b] = unread[b] /\ channel'[b] = channel[b]
    BY <1>3 DEF Tell, TypeOK
  <2>4. IF final[p] THEN channel'[a] = "closed" ELSE channel'[a] = channel[a]
    BY <1>3 DEF Tell, TypeOK
  <2>5. /\ \A q \in Procs \ {p} : at'[q] = at[q] /\ final'[q] = final[q]
        /\ heard'[p] # {} => at'[p] = "send" /\ final'[p] = final[p]
    BY <1>3, <2>2, HasToTellEffect DEF Tell
  <2>6. HeardIsSending'
    BY <2>2, <2>5 DEF NewsInv, HeardIsSending
  <2>7. OpenIsKnown'
    <3> SUFFICES ASSUME NEW b \in Awaiters, channel'[b] = "open"
                 PROVE  b \in subs' \/ \E q \in Procs : final'[q] /\ b \in heard'[q]
      BY DEF OpenIsKnown
    <3>1. channel[b] = "open" /\ (b = a => ~final[p])
      BY <2>3, <2>4
    <3>2. CASE b \in subs
      BY <2>1, <3>2
    <3>3. CASE b \notin subs
      <4>1. PICK q \in Procs : final[q] /\ b \in heard[q]
        BY <3>1, <3>3 DEF NewsInv, OpenIsKnown
      <4>2. b \in heard'[q]
        BY <2>2, <3>1, <4>1
      <4> QED BY <2>5, <4>1, <4>2
    <3> QED BY <3>2, <3>3
  <2>8. AwaitsHaveChannels'
    BY <2>1, <2>3, <2>4 DEF NewsInv, AwaitsHaveChannels
  <2>9. NewsIsOnTheWay'
    <3> SUFFICES ASSUME NEW b \in Awaiters, await'[b] = "listening", ~unread'[b],
                        channel'[b] # "closed", status' \notin Live, b \notin misled'
                 PROVE  \E q \in Procs : b \in heard'[q] \/ (at'[q] = "append" /\ b \in subs')
      BY DEF NewsIsOnTheWay
    <3>1. b # a
      BY <2>3
    <3>2. PICK q \in Procs : b \in heard[q] \/ (at[q] = "append" /\ b \in subs)
      BY <2>1, <2>3, <3>1 DEF NewsInv, NewsIsOnTheWay
    <3> QED BY <2>1, <2>2, <2>5, <3>1, <3>2
  <2> QED BY <2>1, <2>6, <2>7, <2>8, <2>9 DEF NewsInv, NobodyWaitsInVain
<1> QED BY <1>1, <1>2, <1>3 DEF Kind

LEMMA RunNews ==
  ASSUME TypeOK, NewsInv, NEW r \in Runs, RunKind(r)
  PROVE  NewsInv'
<1>0. r \in Procs
  BY DEF Procs
<1>1. ASSUME NEW s, RunBegins(r) \/ Observed(r, s) PROVE NewsInv'
  <2>1. Quiet
    BY <1>0, <1>1 DEF Quiet, TypeOK, Stages, RunBegins, Observed, record, procs, waiting
  <2> QED BY <2>1, QuietNews
<1>2. CASE RunStarts(r)
  <2>1. at[r] \notin Stages /\ UNCHANGED <<subs, heard, waiting>> /\ Update(r, "running", "calling")
    BY <1>2 DEF RunStarts, Stages
  <2> QED BY <1>0, <2>1, UpdateNews
<1>3. ASSUME NEW end \in Ends, RunEnds(r, end) PROVE NewsInv'
  <2>1. at[r] \notin Stages /\ UNCHANGED <<subs, heard, waiting>> /\ end # "absent"
    BY <1>3 DEF RunEnds, Stages, Ends
  <2>2. CASE Records(end)
    <3>1. Update(r, end, "done")
      BY <1>3, <2>2 DEF RunEnds
    <3> QED BY <1>0, <2>1, <3>1, UpdateNews
  <2>3. CASE ~Records(end)
    <3>1. Quiet
      BY <1>0, <1>3, <2>1, <2>3 DEF Quiet, RunEnds, TypeOK, waiting
    <3> QED BY <3>1, QuietNews
  <2> QED BY <2>2, <2>3
<1>4. CASE Forward(r)
  <2>1. heard[r] = {} /\ heard'[r] = subs /\ \A q \in Procs \ {r} : heard'[q] = heard[q]
    BY <1>0, <1>4 DEF Forward, Listeners, NewsInv, HeardIsSending, TypeOK
  <2>2. at[r] = "running" /\ at'[r] = "store" /\ \A q \in Procs \ {r} : at'[q] = at[q]
    BY <1>0, <1>4 DEF Forward, AfterAppend, TypeOK
  <2>3. UNCHANGED <<subs, final, status, await, channel, unread, misled>>
    BY <1>4 DEF Forward, record, waiting
  <2>4. HeardIsSending'
    BY <2>1, <2>2 DEF NewsInv, HeardIsSending
  <2>5. OpenIsKnown'
    BY <2>1, <2>3 DEF NewsInv, OpenIsKnown
  <2>6. NewsIsOnTheWay'
    BY <2>1, <2>2, <2>3 DEF NewsInv, NewsIsOnTheWay
  <2> QED BY <2>3, <2>4, <2>5, <2>6 DEF NewsInv, AwaitsHaveChannels, NobodyWaitsInVain
<1> QED BY <1>1, <1>2, <1>3, <1>4 DEF RunKind

LEMMA HostNews ==
  ASSUME TypeOK, NewsInv, NEW h \in Hosts, HostKind(h)
  PROVE  NewsInv'
<1>0. h \in Procs
  BY DEF Procs
<1>1. CASE HostActs(h)
  <2>1. ASSUME NEW op \in {"cancel", "yield", "resume", "replay"}, NEW s, s # "absent", NEW n,
               Acts(h, op, s, n)
        PROVE  NewsInv'
    <3>1. at[h] \notin Stages /\ UNCHANGED <<subs, heard, waiting>> /\ Update(h, s, n)
      BY <2>1 DEF Acts, Stages
    <3> QED BY <1>0, <2>1, <3>1, UpdateNews
  <2> QED BY <1>1, <2>1 DEF HostActs
<1>2. CASE Spawns(h)
  <2>1. PICK r \in Unused : at' = [at EXCEPT ![h] = "idle",
                                 ![r] = IF at[h] = "resumed" THEN "spawned" ELSE "calling"]
    BY <1>2 DEF Spawns
  <2>2. at[h] \notin Stages /\ at[r] \notin Stages
    BY <1>2 DEF Spawns, Unused, Stages
  <2>3. Quiet
    BY <1>0, <1>2, <2>1, <2>2 DEF Quiet, Spawns, TypeOK, record, waiting
  <2> QED BY <2>3, QuietNews
<1>3. ASSUME NEW op, Begins(h, op) PROVE NewsInv'
  <2>1. Quiet
    BY <1>0, <1>3 DEF Quiet, Begins, TypeOK, Stages, record, waiting
  <2> QED BY <2>1, QuietNews
<1> QED BY <1>1, <1>2, <1>3
    DEF HostKind, CancelTask, YieldTask, ResumeTask, ResumeFromCheckpoint

\* An await that goes on to listen has read a status that is live, of the
\* record or of a row behind it.  If the task has ended by then, what drops
\* the subscription or closes the channel is still to come: it is the channel
\* that the await must not miss, not the row.
LEMMA WaitNews ==
  ASSUME TypeOK, NewsInv, NobodyIsLeft, NEW a \in Awaiters, WaitKind(a)
  PROVE  NewsInv'
<1>0. /\ UNCHANGED <<status, heard, at, final>>
      /\ \A b \in Awaiters \ {a} :
           /\ await'[b] = await[b] /\ channel'[b] = channel[b] /\ unread'[b] = unread[b]
           /\ (b \in subs' <=> b \in subs) /\ (b \in misled' <=> b \in misled)
  BY DEF WaitKind, Subscribe, Unsubscribe, Fill, Check, Listen, GiveUp, TypeOK, record, procs
<1>1. /\ channel'[a] = "open" =>
           a \in subs' \/ (channel[a] = "open" /\ (a \in subs' <=> a \in subs))
      /\ await'[a] = "filling" => channel'[a] \in {"open", "private", "closed"}
      /\ await'[a] \in {"checking", "listening"} => channel'[a] \in {"open", "closed"}
      /\ status = "absent" => await'[a] \in {"new", "returned"}
      /\ await'[a] = "listening" =>
           /\ status \in Live \cup Terminal \/ a \in misled'
           /\ subs' = subs /\ channel' = channel
  <2>0. status \in Terminal \cup Paused \cup Live \cup {"absent"}
    BY DEF TypeOK, Statuses
  <2>1. CASE Subscribe(a)
    BY <2>1 DEF Subscribe, TypeOK
  <2>2. CASE Unsubscribe(a)
    BY <2>2 DEF Unsubscribe, TypeOK, NewsInv, NobodyWaitsInVain
  <2>3. CASE Fill(a)
    BY <2>3 DEF Fill, TypeOK, record, NewsInv, AwaitsHaveChannels, NobodyWaitsInVain
  <2>4. CASE Check(a)
    <3>1. PICK seen \in {row, status} :
            /\ await' = [await EXCEPT ![a] = IF WaitsOn(seen) THEN "listening" ELSE "leaving"]
            /\ misled' = IF WaitsOn(seen) /\ seen # status /\ status \in Paused
                         THEN misled \cup {a} ELSE misled \ {a}
      BY <2>4 DEF Check
    <3>2. UNCHANGED <<status, subs, channel>> /\ await[a] = "checking"
      BY <2>4 DEF Check, record
    <3>3. await'[a] = "listening" => WaitsOn(seen)
      BY <3>1 DEF TypeOK
    <3>4. await'[a] = "listening" => status \in Live \cup Terminal \/ a \in misled'
      <4>1. status # "absent"
        BY <3>2 DEF NewsInv, NobodyWaitsInVain
      <4> QED BY <2>0, <3>1, <3>3, <4>1 DEF WaitsOn
    <3> QED BY <3>1, <3>2, <3>4 DEF TypeOK, NewsInv, AwaitsHaveChannels, NobodyWaitsInVain
  <2>5. CASE Listen(a)
    BY <2>5 DEF Listen, TypeOK, record, NewsInv, AwaitsHaveChannels, NobodyWaitsInVain
  <2>6. CASE GiveUp(a)
    BY <2>6 DEF GiveUp, TypeOK, record, NewsInv, NobodyWaitsInVain
  <2> QED BY <2>1, <2>2, <2>3, <2>4, <2>5, <2>6 DEF WaitKind
<1>2. HeardIsSending'
  BY <1>0 DEF NewsInv, HeardIsSending
<1>3. OpenIsKnown'
  <2> SUFFICES ASSUME NEW b \in Awaiters, channel'[b] = "open"
               PROVE  b \in subs' \/ \E p \in Procs : final'[p] /\ b \in heard'[p]
    BY DEF OpenIsKnown
  <2>1. b \in subs' \/ (channel[b] = "open" /\ (b \in subs' <=> b \in subs))
    BY <1>0, <1>1
  <2> QED BY <1>0, <2>1 DEF NewsInv, OpenIsKnown
<1>4. AwaitsHaveChannels'
  BY <1>0, <1>1 DEF NewsInv, AwaitsHaveChannels
<1>5. NobodyWaitsInVain'
  BY <1>0, <1>1 DEF NewsInv, NobodyWaitsInVain
<1>6. NewsIsOnTheWay'
  <2> SUFFICES ASSUME NEW b \in Awaiters, await'[b] = "listening", ~unread'[b],
                      channel'[b] # "closed", status' \notin Live, b \notin misled'
               PROVE  \E q \in Procs : b \in heard'[q] \/ (at'[q] = "append" /\ b \in subs')
    BY DEF NewsIsOnTheWay
  <2>1. CASE b # a
    BY <1>0, <2>1 DEF NewsInv, NewsIsOnTheWay
  <2>2. CASE b = a
    <3>1. status \in Terminal /\ subs' = subs /\ channel[a] = "open"
      BY <1>0, <1>1, <2>2
    <3>2. CASE a \in subs
      BY <1>0, <2>2, <3>1, <3>2 DEF NobodyIsLeft
    <3>3. CASE a \notin subs
      BY <1>0, <2>2, <3>1, <3>3 DEF NewsInv, OpenIsKnown
    <3> QED BY <3>2, <3>3
  <2> QED BY <2>1, <2>2
<1> QED BY <1>2, <1>3, <1>4, <1>5, <1>6 DEF NewsInv

LEMMA NewsStep == TypeOK /\ NobodyIsLeft /\ NewsInv /\ [Next]_vars => NewsInv'
<1> SUFFICES ASSUME TypeOK, NobodyIsLeft, NewsInv, [Next]_vars PROVE NewsInv'
  OBVIOUS
<1>1. CASE StoreInBackground \/ UNCHANGED vars
  <2>1. Quiet
    BY <1>1 DEF Quiet, StoreInBackground, vars, record, procs, waiting
  <2> QED BY <2>1, QuietNews
<1>2. CASE Restart
  <2>1. /\ heard' = [p \in Procs |-> {}]
        /\ channel' = [a \in Awaiters |-> "none"]
        /\ await' = [a \in Awaiters |-> IF await[a] = "new" THEN "new" ELSE "returned"]
    BY <1>2 DEF Restart
  <2> QED BY <2>1
      DEF NewsInv, HeardIsSending, OpenIsKnown, AwaitsHaveChannels, NobodyWaitsInVain, NewsIsOnTheWay
<1> QED BY <1>1, <1>2, StepKinds, KindNews, RunNews, HostNews, WaitNews

\* No await sleeps through the end of its task, nor through a pause that the
\* row it read could tell it of: what it still has to hear is in its channel
\* or on its way, for any number of awaits, hosts and runs.
THEOREM AwaitsHear == Spec => []NewsIsOnTheWay
<1>1. Init => NewsInv /\ NobodyIsLeft
  <2> SUFFICES ASSUME Init PROVE NewsInv /\ NobodyIsLeft
    OBVIOUS
  <2>1. /\ heard = [p \in Procs |-> {}]
        /\ channel = [a \in Awaiters |-> "none"]
        /\ await = [a \in Awaiters |-> "new"]
        /\ subs = {}
    BY DEF Init
  <2> QED BY <2>1
      DEF NewsInv, HeardIsSending, OpenIsKnown, AwaitsHaveChannels, NobodyWaitsInVain,
          NewsIsOnTheWay, NobodyIsLeft
<1>2. NewsInv => NewsIsOnTheWay
  BY DEF NewsInv
<1> QED BY <1>1, <1>2, NewsStep, LeftStep, TypeStep, TypeInit, PTL DEF Spec


=============================================================================
