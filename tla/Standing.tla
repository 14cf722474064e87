------------------------------ MODULE Standing ------------------------------
(***************************************************************************)
(* Standing responsibilities (pkg/agent/standing.go): items that are never *)
(* finished.  An item sleeps until it asked to be woken, its schedule or   *)
(* scan comes round, the host delivers an event or wakes it; a wake is one *)
(* run of the service; a ceiling bounds the wakes of a day; the store      *)
(* keeps what must survive a restart.                                      *)
(*                                                                         *)
(* st.mu makes each critical section one action; a save always follows     *)
(* after the unlock, so the row a caller copied is a variable of its own   *)
(* (row, wrow).  The clock is abstracted to what the loop compares: a time *)
(* is not set, later than now, or due.  The timer of the loop fires within *)
(* an hour at most, so the loop may look again at any moment and the poke  *)
(* that makes it look at once is left out.                                 *)
(***************************************************************************)
EXTENDS Naturals, FiniteSets

CONSTANTS Ids,          \* names of responsibilities
          Scheduled,    \* those with Every > 0
          Scanned,      \* those with a ScanPolicy
          Events,       \* StandingEvents, each delivered at most once
          Hosts,        \* goroutines of the host that call the Standing
          Loop,         \* the goroutine of loop()
          Wakes,        \* slots for wakes in flight: the bound of their number
          Nobody,       \* nil
          MaxWakesPerDay,
          MaxDays,      \* bound: days that go by
          MaxCalls,     \* bound: calls of the hosts
          MaxRestarts   \* bound: ends of the process

ASSUME ConstantsAssumption ==
    /\ Scheduled \subseteq Ids /\ Scanned \subseteq Ids
    /\ Loop \notin Hosts /\ Nobody \notin Wakes \cup Ids \cup Events
    /\ MaxWakesPerDay \in Nat \ {0} /\ MaxDays \in Nat \ {0} /\ MaxCalls \in Nat /\ MaxRestarts \in Nat

VARIABLES
    \* Standing: the items by id, what each holds in memory
    present, paused, clock, running, day, wakes, pending,
    closed, today,
    \* standing_responsibilities, what is left of it after a restart
    stored,
    \* the callers: where each is, its id, event, wake and row in hand, and
    \* whether the item it points to is no longer the one of its id
    pc, at, ev, seen, row, stale,
    \* what the loop found due and has not started yet
    batch,
    \* the wakes in flight: where each is, of which item, its row in hand
    phase, of, wrow,
    \* history: what became of the events, of disturbed items, of restarts
    delivered, briefed, steered, forgotten, disturbed, calls, restarts

items   == <<present, paused, clock, running, day, wakes, pending>>
callers == <<pc, at, ev, seen, row, stale>>
flights == <<phase, of, wrow>>
fates   == <<delivered, briefed, steered, forgotten>>
vars    == <<items, closed, today, stored, callers, batch, flights, fates, disturbed, calls, restarts>>

Threads == Hosts \cup {Loop}
Kinds   == {"self", "schedule", "scan"}
Times   == {"none", "later", "due"}
Row     == [paused : {"no", "host", "daily"}, asked : BOOLEAN]
NoRow   == [paused |-> "none", asked |-> FALSE]
Fresh   == [paused |-> "no", asked |-> FALSE]

\* What a Save writes of item i as it is in memory: asked is NextWake.
RowOf(i) == [paused |-> paused[i], asked |-> clock[i]["self"] # "none"]

NoClock == [k \in Kinds |-> "none"]

Init ==
    /\ present = [i \in Ids |-> FALSE]
    /\ paused = [i \in Ids |-> "no"]
    /\ clock = [i \in Ids |-> NoClock]
    /\ running = [i \in Ids |-> Nobody]
    /\ day = [i \in Ids |-> 0]
    /\ wakes = [i \in Ids |-> 0]
    /\ pending = [i \in Ids |-> {}]
    /\ closed = FALSE
    /\ today = 1
    /\ stored = [i \in Ids |-> NoRow]
    /\ pc = [t \in Threads |-> "idle"]
    /\ at = [t \in Threads |-> Nobody]
    /\ ev = [t \in Threads |-> Nobody]
    /\ seen = [t \in Threads |-> Nobody]
    /\ row = [t \in Threads |-> NoRow]
    /\ stale = {}
    /\ batch = {}
    /\ phase = [w \in Wakes |-> "free"]
    /\ of = [w \in Wakes |-> Nobody]
    /\ wrow = [w \in Wakes |-> NoRow]
    /\ delivered = {} /\ briefed = {} /\ steered = {} /\ forgotten = {}
    /\ disturbed = {}
    /\ calls = 0 /\ restarts = 0

\* The wakes of i whose run is not behind them.
Unfinished(i) == {w \in Wakes : phase[w] \in {"begun", "open", "noting", "noted", "over"} /\ of[w] = i}

\* A call that is over, and the first step of one.
Return(t) == /\ pc' = [pc EXCEPT ![t] = "idle"]
             /\ at' = [at EXCEPT ![t] = Nobody]
             /\ ev' = [ev EXCEPT ![t] = Nobody]
             /\ seen' = [seen EXCEPT ![t] = Nobody]
             /\ row' = [row EXCEPT ![t] = NoRow]

Enter(t, where, i) == /\ pc[t] = "idle"
                      /\ pc' = [pc EXCEPT ![t] = where]
                      /\ at' = [at EXCEPT ![t] = i]
                      /\ calls < MaxCalls /\ calls' = calls + 1

-----------------------------------------------------------------------------
(* The day: rollDayLocked runs inside startWake, finishWake and Status.    *)

RolledWakes(i)  == IF day[i] = today THEN wakes[i] ELSE 0
RolledPaused(i) == IF day[i] # today /\ paused[i] = "daily" THEN "no" ELSE paused[i]

RollDay(i) == /\ day' = [day EXCEPT ![i] = today]
              /\ wakes' = [wakes EXCEPT ![i] = RolledWakes(i)]
              /\ paused' = [paused EXCEPT ![i] = RolledPaused(i)]

-----------------------------------------------------------------------------
(* Add saves first and registers after.  An item of the same name is       *)
(* replaced by one that knows nothing of the wake in flight.               *)

\* The item i is taken out (Remove) or replaced by a fresh one (Add): what
\* it held is gone, and a Deliver that has its pointer appends to nothing.
ReplaceItem(i, there, clk) ==
    /\ present' = [present EXCEPT ![i] = there]
    /\ paused' = [paused EXCEPT ![i] = "no"]
    /\ clock' = [clock EXCEPT ![i] = clk]
    /\ running' = [running EXCEPT ![i] = Nobody]
    /\ day' = [day EXCEPT ![i] = 0]
    /\ wakes' = [wakes EXCEPT ![i] = 0]
    /\ pending' = [pending EXCEPT ![i] = {}]
    /\ stale' = stale \cup {t \in Hosts : at[t] = i /\ pc[t] \in {"steering", "queueing"}}
    /\ forgotten' = forgotten \cup pending[i]
    /\ disturbed' = IF Unfinished(i) # {} THEN disturbed \cup {i} ELSE disturbed
    /\ UNCHANGED <<delivered, briefed, steered>>

AddSaves(t, i) ==
    /\ Enter(t, "adding", i)
    /\ stored' = [stored EXCEPT ![i] = Fresh]
    /\ UNCHANGED <<items, closed, today, ev, seen, row, stale, batch, flights, fates, disturbed, restarts>>

FirstClock(i) == [k \in Kinds |-> CASE k = "schedule" /\ i \in Scheduled -> "due"
                                    [] k = "scan" /\ i \in Scanned -> "later"
                                    [] OTHER -> "none"]

AddRegisters(t) ==
    LET i == at[t] IN
    /\ pc[t] = "adding"
    /\ Return(t)
    /\ \/ closed /\ UNCHANGED <<items, stale, fates, disturbed>>
       \/ ~closed /\ ReplaceItem(i, TRUE, FirstClock(i))
    /\ UNCHANGED <<closed, today, stored, batch, flights, calls, restarts>>

\* Remove takes the item out, stops its wake and deletes the row.  The run
\* that is stopped still ends through finishWake.
Remove(t, i) ==
    /\ present[i] /\ Enter(t, "removing", i)
    /\ ReplaceItem(i, FALSE, NoClock)
    /\ UNCHANGED <<closed, today, stored, ev, seen, row, batch, flights, restarts>>

RemoveDeletes(t) ==
    /\ pc[t] = "removing"
    /\ stored' = [stored EXCEPT ![at[t]] = NoRow]
    /\ Return(t)
    /\ UNCHANGED <<items, closed, today, stale, batch, flights, fates, disturbed, calls, restarts>>

-----------------------------------------------------------------------------
(* Pause and Resume: change the item under the lock, save the copy after.  *)

Pause(t, i) ==
    /\ present[i] /\ Enter(t, "saving", i)
    /\ paused' = [paused EXCEPT ![i] = "host"]
    /\ row' = [row EXCEPT ![t] = [RowOf(i) EXCEPT !.paused = "host"]]
    /\ UNCHANGED <<present, clock, running, day, wakes, pending, closed, today, stored, ev, seen,
                   stale, batch, flights, fates, disturbed, restarts>>

Resume(t, i) ==
    /\ present[i] /\ paused[i] # "no" /\ Enter(t, "saving", i)
    /\ paused' = [paused EXCEPT ![i] = "no"]
    /\ clock' = [clock EXCEPT ![i]["schedule"] =
                    IF i \in Scheduled /\ @ = "none" THEN "due" ELSE @]
    /\ row' = [row EXCEPT ![t] = [RowOf(i) EXCEPT !.paused = "no"]]
    /\ UNCHANGED <<present, running, day, wakes, pending, closed, today, stored, ev, seen,
                   stale, batch, flights, fates, disturbed, restarts>>

\* The save of Pause and Resume, and of the limit in startWake: this one
\* runs under the context of the Standing, which Close ends.
Save(t) ==
    /\ pc[t] \in {"saving", "limiting"}
    /\ \/ stored' = [stored EXCEPT ![at[t]] = row[t]]
       \/ pc[t] = "limiting" /\ closed /\ UNCHANGED stored
    /\ Return(t)
    /\ UNCHANGED <<items, closed, today, stale, batch, flights, fates, disturbed, calls, restarts>>

\* Get and Status: nothing but the day moves.
Look(i) ==
    /\ present[i] /\ day[i] # today
    /\ RollDay(i)
    /\ UNCHANGED <<present, clock, running, pending, closed, today, stored, callers, batch,
                   flights, fates, disturbed, calls, restarts>>

-----------------------------------------------------------------------------
(* startWake, the one way into a wake.                                     *)

\* Mutant: the wake in flight is not looked at.
IgnoresTheFlight(i) == ~present[i] \/ closed

\* A wake is in flight, the Standing is closed, or the item is gone.
NoWakeNow(i) == ~present[i] \/ closed \/ running[i] # Nobody

\* The clock that fired is consumed, the others stay.
ConsumedClock(i, k) ==
    [clock[i] EXCEPT !["self"]     = IF k = "self" THEN "none" ELSE @,
                     !["schedule"] = IF k = "schedule" THEN "later" ELSE @,
                     !["scan"]     = IF k = "scan" THEN "later" ELSE @]

AtCeiling(i) == RolledWakes(i) >= MaxWakesPerDay

\* Mutant: the brief takes the events and leaves them pending.
CopiesEvents(i) == /\ briefed' = briefed \cup pending[i]
                   /\ UNCHANGED pending

TakeEvents(i) == /\ briefed' = briefed \cup pending[i]
                 /\ pending' = [pending EXCEPT ![i] = {}]

\* startWake by thread t for item i, for reason k.
StartWake(t, i, k) ==
    \/ /\ NoWakeNow(i)
       /\ Return(t)
       /\ UNCHANGED <<items, flights, fates>>
    \/ /\ ~NoWakeNow(i) /\ RolledPaused(i) # "no"
       /\ RollDay(i)
       /\ Return(t)
       /\ UNCHANGED <<present, clock, running, pending, flights, fates>>
    \/ /\ ~NoWakeNow(i) /\ RolledPaused(i) = "no" /\ AtCeiling(i)
       /\ day' = [day EXCEPT ![i] = today]
       /\ wakes' = [wakes EXCEPT ![i] = RolledWakes(i)]
       /\ paused' = [paused EXCEPT ![i] = "daily"]
       /\ clock' = [clock EXCEPT ![i]["self"] = "none"]
       /\ pc' = [pc EXCEPT ![t] = "limiting"]
       /\ at' = [at EXCEPT ![t] = i]
       /\ row' = [row EXCEPT ![t] = [paused |-> "daily", asked |-> FALSE]]
       /\ ev' = [ev EXCEPT ![t] = Nobody]
       /\ UNCHANGED <<present, running, pending, seen, flights, fates>>
    \/ LET w == CHOOSE v \in Wakes : phase[v] = "free" IN
       /\ ~NoWakeNow(i) /\ RolledPaused(i) = "no" /\ ~AtCeiling(i)
       /\ \E v \in Wakes : phase[v] = "free"
       /\ phase' = [phase EXCEPT ![w] = "begun"]
       /\ of' = [of EXCEPT ![w] = i]
       /\ running' = [running EXCEPT ![i] = w]
       /\ day' = [day EXCEPT ![i] = today]
       /\ wakes' = [wakes EXCEPT ![i] = RolledWakes(i) + 1]
       /\ paused' = [paused EXCEPT ![i] = "no"]
       /\ clock' = [clock EXCEPT ![i] = ConsumedClock(i, k)]
       /\ TakeEvents(i)
       /\ Return(t)
       /\ UNCHANGED <<present, wrow, delivered, steered, forgotten>>

\* WakeNow, and the last call of Deliver.
WakeNow(t, i) ==
    /\ present[i] /\ Enter(t, "waking", i)
    /\ UNCHANGED <<items, closed, today, stored, ev, seen, row, stale, batch, flights, fates,
                   disturbed, restarts>>

HostStartsWake(t) ==
    /\ pc[t] = "waking"
    /\ StartWake(t, at[t], "host")
    /\ UNCHANGED <<closed, today, stored, stale, batch, disturbed, calls, restarts>>

-----------------------------------------------------------------------------
(* Deliver: steer the event into the wake in flight, or keep it pending    *)
(* and try to wake.  The lock is given back between the look and the steer.*)

Deliver(t, i, e) ==
    /\ pc[t] = "idle" /\ present[i] /\ ~closed /\ e \notin delivered
    /\ calls < MaxCalls /\ calls' = calls + 1
    /\ delivered' = delivered \cup {e}
    /\ at' = [at EXCEPT ![t] = i]
    /\ \/ /\ running[i] = Nobody
          /\ pending' = [pending EXCEPT ![i] = @ \cup {e}]
          /\ pc' = [pc EXCEPT ![t] = "waking"]
          /\ UNCHANGED <<ev, seen>>
       \/ /\ running[i] # Nobody
          /\ pc' = [pc EXCEPT ![t] = "steering"]
          /\ ev' = [ev EXCEPT ![t] = e]
          /\ seen' = [seen EXCEPT ![t] = running[i]]
          /\ UNCHANGED pending
    /\ UNCHANGED <<present, paused, clock, running, day, wakes, closed, today, stored, row, stale,
                   batch, flights, briefed, steered, forgotten, disturbed, restarts>>

\* svc.Steer finds the run only between its registration and its release.
Steerable == {"open", "noting", "noted"}

DeliverSteers(t) ==
    /\ pc[t] = "steering"
    /\ \/ /\ seen[t] # Nobody /\ phase[seen[t]] \in Steerable
          /\ steered' = steered \cup {ev[t]}
          /\ Return(t)
          /\ stale' = stale \ {t}
       \/ /\ ~(seen[t] # Nobody /\ phase[seen[t]] \in Steerable)
          /\ pc' = [pc EXCEPT ![t] = "queueing"]
          /\ seen' = [seen EXCEPT ![t] = Nobody]
          /\ UNCHANGED <<steered, at, ev, row, stale>>
    /\ UNCHANGED <<items, closed, today, stored, batch, flights, delivered, briefed, forgotten,
                   disturbed, calls, restarts>>

DeliverQueues(t) ==
    /\ pc[t] = "queueing"
    /\ IF t \in stale
       THEN forgotten' = forgotten \cup {ev[t]} /\ UNCHANGED pending
       ELSE pending' = [pending EXCEPT ![at[t]] = @ \cup {ev[t]}] /\ UNCHANGED forgotten
    /\ pc' = [pc EXCEPT ![t] = "waking"]
    /\ ev' = [ev EXCEPT ![t] = Nobody]
    /\ stale' = stale \ {t}
    /\ UNCHANGED <<present, paused, clock, running, day, wakes, closed, today, stored, at, seen,
                   row, batch, flights, delivered, briefed, steered, disturbed, calls, restarts>>

-----------------------------------------------------------------------------
(* A wake: svc.Run between startWake and finishWake.                       *)

\* The run is admitted and registered, or refused at its entry.
RunBegins(w) ==
    /\ phase[w] = "begun"
    /\ \E p \in {"open", "over"} : phase' = [phase EXCEPT ![w] = p]
    /\ UNCHANGED <<items, closed, today, stored, callers, batch, of, wrow, fates, disturbed, calls, restarts>>

\* standing_note and standing_wake_me: callerItem, then update.
ToolUpdates(w) ==
    LET i == of[w] IN
    /\ phase[w] = "open" /\ present[i] /\ running[i] # Nobody
    /\ \E when \in {clock[i]["self"], "later"} :
         /\ clock' = [clock EXCEPT ![i]["self"] = when]
         /\ wrow' = [wrow EXCEPT ![w] = [RowOf(i) EXCEPT !.asked = when # "none"]]
    /\ phase' = [phase EXCEPT ![w] = "noting"]
    /\ UNCHANGED <<present, paused, running, day, wakes, pending, closed, today, stored, callers,
                   batch, of, fates, disturbed, calls, restarts>>

\* The tool's own save, under the context of the run, which Close ends.
\* (Bound: a wake uses the tools once.  More uses are more of the same.)
ToolSaves(w) ==
    /\ phase[w] = "noting"
    /\ \/ stored' = [stored EXCEPT ![of[w]] = wrow[w]]
       \/ closed /\ UNCHANGED stored
    /\ phase' = [phase EXCEPT ![w] = "noted"]
    /\ wrow' = [wrow EXCEPT ![w] = NoRow]
    /\ UNCHANGED <<items, closed, today, callers, batch, of, fates, disturbed, calls, restarts>>

\* The run leaves the registry, its result on the way to finishWake.
RunEnds(w) ==
    /\ phase[w] \in {"open", "noted"}
    /\ phase' = [phase EXCEPT ![w] = "over"]
    /\ UNCHANGED <<items, closed, today, stored, callers, batch, of, wrow, fates, disturbed, calls, restarts>>

FreeSlot(w) == /\ phase' = [phase EXCEPT ![w] = "free"]
               /\ of' = [of EXCEPT ![w] = Nobody]
               /\ wrow' = [wrow EXCEPT ![w] = NoRow]
               \* the session of this wake is found no more
               /\ seen' = [t \in Threads |-> IF seen[t] = w THEN Nobody ELSE seen[t]]

\* finishWake looks the item up by its name, whoever it belongs to by then.
FinishWake(w) ==
    LET i == of[w] IN
    /\ phase[w] = "over"
    /\ \/ /\ present[i]
          /\ running' = [running EXCEPT ![i] = Nobody]
          /\ RollDay(i)
          /\ wrow' = [wrow EXCEPT ![w] = [RowOf(i) EXCEPT !.paused = RolledPaused(i)]]
          /\ phase' = [phase EXCEPT ![w] = "saving"]
          /\ UNCHANGED <<of, seen>>
       \/ /\ ~present[i]
          /\ FreeSlot(w)
          /\ UNCHANGED <<running, day, wakes, paused>>
    /\ UNCHANGED <<present, clock, pending, closed, today, stored, pc, at, ev, row, stale, batch,
                   fates, disturbed, calls, restarts>>

FinishSaves(w) ==
    /\ phase[w] = "saving"
    /\ \/ stored' = [stored EXCEPT ![of[w]] = wrow[w]]
       \/ closed /\ UNCHANGED stored
    /\ FreeSlot(w)
    /\ UNCHANGED <<items, closed, today, pc, at, ev, row, stale, batch, fates, disturbed, calls, restarts>>

-----------------------------------------------------------------------------
(* The loop: a batch of what is due, started one by one after the unlock.  *)

\* Mutants: the wake a responsibility asked for, or its schedule, is not
\* among the clocks.
DueWithoutAsked(i) == IF ~present[i] \/ paused[i] # "no" \/ running[i] # Nobody THEN {}
                      ELSE {k \in {"schedule", "scan"} : clock[i][k] = "due"}

DueWithoutSchedule(i) == IF ~present[i] \/ paused[i] # "no" \/ running[i] # Nobody THEN {}
                         ELSE {k \in {"self", "scan"} : clock[i][k] = "due"}

Due(i) == IF ~present[i] \/ paused[i] # "no" \/ running[i] # Nobody THEN {}
          ELSE {k \in Kinds : clock[i][k] = "due"}

\* nextDueLocked gives one kind for an item, the earliest of those due.
LoopLooks ==
    /\ pc[Loop] = "idle" /\ batch = {} /\ ~closed
    /\ \E i \in Ids : Due(i) # {}
    /\ batch' \in {{<<i, f[i]>> : i \in {j \in Ids : Due(j) # {}}} : f \in [Ids -> Kinds]}
    /\ \A b \in batch' : b[2] \in Due(b[1])
    /\ UNCHANGED <<items, closed, today, stored, callers, flights, fates, disturbed, calls, restarts>>

LoopStartsWake ==
    /\ pc[Loop] = "idle"
    /\ \E b \in batch :
         /\ StartWake(Loop, b[1], b[2])
         /\ batch' = batch \ {b}
    /\ UNCHANGED <<closed, today, stored, stale, disturbed, calls, restarts>>

\* A time that was set comes.
TimeComes(i, k) ==
    /\ clock[i][k] = "later"
    /\ clock' = [clock EXCEPT ![i][k] = "due"]
    /\ UNCHANGED <<present, paused, running, day, wakes, pending, closed, today, stored, callers,
                   batch, flights, fates, disturbed, calls, restarts>>

NewDay ==
    /\ today < MaxDays
    /\ today' = today + 1
    /\ UNCHANGED <<items, closed, stored, callers, batch, flights, fates, disturbed, calls, restarts>>

-----------------------------------------------------------------------------
(* Close, and a new process over the same store.                           *)

Close(t) ==
    /\ ~closed /\ Enter(t, "closing", Nobody)
    /\ closed' = TRUE
    /\ UNCHANGED <<items, today, stored, ev, seen, row, stale, batch, flights, fates, disturbed, restarts>>

\* wg.Wait counts the loop and the wakes whose goroutine was counted.
CloseReturns(t) ==
    /\ pc[t] = "closing"
    /\ pc[Loop] = "idle" /\ batch = {}
    /\ \A w \in Wakes : phase[w] \in {"free", "begun"}
    /\ Return(t)
    /\ UNCHANGED <<items, closed, today, stored, stale, batch, flights, fates, disturbed, calls, restarts>>

\* The process ends at any point; NewStanding loads the rows, scheduleLocked
\* sets the clocks as if a wake had just finished.
LoadedClock(i) ==
    [k \in Kinds |-> CASE k = "self" /\ stored[i].asked -> "later"
                       [] k = "schedule" /\ i \in Scheduled /\ stored[i].paused = "no" -> "later"
                       [] k = "scan" /\ i \in Scanned -> "later"
                       [] OTHER -> "none"]

Restart ==
    /\ restarts < MaxRestarts
    /\ restarts' = restarts + 1
    /\ present' = [i \in Ids |-> stored[i] # NoRow]
    /\ paused' = [i \in Ids |-> IF stored[i] = NoRow THEN "no" ELSE stored[i].paused]
    /\ clock' = [i \in Ids |-> IF stored[i] = NoRow THEN NoClock ELSE LoadedClock(i)]
    /\ running' = [i \in Ids |-> Nobody]
    /\ day' = [i \in Ids |-> 0]
    /\ wakes' = [i \in Ids |-> 0]
    /\ pending' = [i \in Ids |-> {}]
    /\ closed' = FALSE
    /\ pc' = [t \in Threads |-> "idle"]
    /\ at' = [t \in Threads |-> Nobody]
    /\ ev' = [t \in Threads |-> Nobody]
    /\ seen' = [t \in Threads |-> Nobody]
    /\ row' = [t \in Threads |-> NoRow]
    /\ stale' = {}
    /\ batch' = {}
    /\ phase' = [w \in Wakes |-> "free"]
    /\ of' = [w \in Wakes |-> Nobody]
    /\ wrow' = [w \in Wakes |-> NoRow]
    /\ forgotten' = delivered \ (briefed \cup steered)
    /\ disturbed' = {}
    /\ UNCHANGED <<today, stored, calls, delivered, briefed, steered>>

-----------------------------------------------------------------------------
HostStep(t) == \/ AddRegisters(t) \/ RemoveDeletes(t) \/ Save(t) \/ HostStartsWake(t)
               \/ DeliverSteers(t) \/ DeliverQueues(t) \/ CloseReturns(t)

HostCall(t) == \/ Close(t)
               \/ \E i \in Ids : \/ AddSaves(t, i) \/ Remove(t, i) \/ Pause(t, i) \/ Resume(t, i)
                                 \/ WakeNow(t, i)
                                 \/ \E e \in Events : Deliver(t, i, e)

WakeStep(w) == RunBegins(w) \/ RunEnds(w) \/ ToolSaves(w) \/ FinishWake(w) \/ FinishSaves(w)

LoopStep == LoopLooks \/ LoopStartsWake \/ Save(Loop)

\* Goroutines of the host are alike: a call takes any that is free.
FreeHost == CHOOSE t \in Hosts : pc[t] = "idle"

Next == \/ \E t \in Hosts : HostStep(t)
        \/ (\E t \in Hosts : pc[t] = "idle") /\ HostCall(FreeHost)
        \/ \E i \in Ids : Look(i) \/ \E k \in Kinds : TimeComes(i, k)
        \/ \E w \in Wakes : WakeStep(w) \/ ToolUpdates(w)
        \/ LoopStep
        \/ NewDay
        \/ Restart

Spec == Init /\ [][Next]_vars

\* What goes on by itself: calls that were begun, wakes (a run's rounds are
\* bounded), the loop and its timer, time.  A host need not call, look or
\* crash.  Wakes are bounded by days, days and calls by constants, so that
\* the system as a whole goes on until nothing is left to do.
SystemStep == \/ \E t \in Hosts : HostStep(t)
              \/ \E w \in Wakes : WakeStep(w)
              \/ \E i \in Ids, k \in Kinds : TimeComes(i, k)
              \/ LoopStep
              \/ NewDay

FairSpec == Spec /\ WF_vars(SystemStep)

-----------------------------------------------------------------------------
(* Properties.                                                             *)

TypeOK ==
    /\ present \in [Ids -> BOOLEAN]
    /\ paused \in [Ids -> {"no", "host", "daily"}]
    /\ clock \in [Ids -> [Kinds -> Times]]
    /\ running \in [Ids -> Wakes \cup {Nobody}]
    /\ day \in [Ids -> 0..MaxDays] /\ today \in 1..MaxDays
    /\ wakes \in [Ids -> 0..MaxWakesPerDay]
    /\ pending \in [Ids -> SUBSET Events]
    /\ closed \in BOOLEAN
    /\ stored \in [Ids -> Row \cup {NoRow}]
    /\ pc \in [Threads -> {"idle", "adding", "removing", "saving", "limiting", "waking",
                           "steering", "queueing", "closing"}]
    /\ at \in [Threads -> Ids \cup {Nobody}]
    /\ ev \in [Threads -> Events \cup {Nobody}]
    /\ seen \in [Threads -> Wakes \cup {Nobody}]
    /\ row \in [Threads -> Row \cup {NoRow}]
    /\ stale \subseteq Hosts
    /\ batch \subseteq Ids \X Kinds
    /\ phase \in [Wakes -> {"free", "begun", "open", "noting", "noted", "over", "saving"}]
    /\ of \in [Wakes -> Ids \cup {Nobody}]
    /\ wrow \in [Wakes -> Row \cup {NoRow}]

\* An event that was delivered is never dropped and never told twice
\* (standing.go:381): it is in the hands of Deliver, pending, in the brief
\* of one wake, or steered into one, unless its item was removed or replaced
\* or the process ended meanwhile.
InHand == {ev[t] : t \in {u \in Hosts : pc[u] \in {"steering", "queueing"}}}
Waiting == UNION {pending[i] : i \in Ids}

EventsAreKept ==
    /\ delivered = InHand \cup Waiting \cup briefed \cup steered \cup forgotten
    /\ InHand \cap Waiting = {}
    /\ (InHand \cup Waiting) \cap (briefed \cup steered \cup forgotten) = {}
    /\ briefed \cap steered = {} /\ (briefed \cup steered) \cap forgotten = {}

\* A responsibility has one wake at a time, the one it says is running
\* (standing.go:607), as long as no Add or Remove passes over a wake in
\* flight.
OneWakeAtATime ==
    \A i \in Ids \ disturbed :
        Unfinished(i) = IF running[i] = Nobody THEN {} ELSE {running[i]}

\* A wake that was asked for comes, after a restart too, unless the item is
\* paused, taken away or the Standing closed before (standing_wake_me).
AskedWakeComes ==
    \A i \in Ids :
        clock[i]["self"] # "none" /\ running[i] = Nobody
          ~> running[i] # Nobody \/ ~present[i] \/ paused[i] # "no" \/ closed

\* An event that came while a wake was starting rides on the next one
\* (standing.go:382) of an item whose schedule brings a next one.
EventRidesOnTheNext ==
    \A i \in Ids, e \in Events :
        e \in pending[i] /\ clock[i]["schedule"] # "none"
          ~> e \notin pending[i] \/ paused[i] # "no" \/ closed

=============================================================================
