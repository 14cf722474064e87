--------------------------- MODULE StandingProofs ---------------------------
(***************************************************************************)
(* Proofs about Standing for every set of responsibilities, events, hosts  *)
(* and slots of wakes, and every ceiling and bound.                        *)
(***************************************************************************)
EXTENDS Standing, TLAPS

(***************************************************************************)
(* Types, by who writes what.  A call that names an item and a wake that   *)
(* holds a slot have one; an event in hand is an event.                    *)
(***************************************************************************)
Pauses  == {"no", "host", "daily"}
Places  == {"adding", "removing", "saving", "limiting", "waking", "steering",
            "queueing"}
InHands == {"steering", "queueing"}
Phases  == {"free", "begun", "open", "noting", "noted", "over", "saving"}

ItemsType ==
  /\ present \in [Ids -> BOOLEAN]
  /\ paused \in [Ids -> Pauses]
  /\ clock \in [Ids -> [Kinds -> Times]]
  /\ running \in [Ids -> Wakes \cup {Nobody}]
  /\ day \in [Ids -> 0..MaxDays]
  /\ wakes \in [Ids -> 0..MaxWakesPerDay]
  /\ pending \in [Ids -> SUBSET Events]

CallersType ==
  /\ pc \in [Threads -> Places \cup {"idle", "closing"}]
  /\ at \in [Threads -> Ids \cup {Nobody}]
  /\ ev \in [Threads -> Events \cup {Nobody}]
  /\ seen \in [Threads -> Wakes \cup {Nobody}]
  /\ row \in [Threads -> Row \cup {NoRow}]
  /\ stale \subseteq Hosts
  /\ \A t \in Threads : pc[t] \in Places => at[t] \in Ids
  /\ \A t \in Hosts : pc[t] \in InHands => ev[t] \in Events

FlightsType ==
  /\ phase \in [Wakes -> Phases]
  /\ of \in [Wakes -> Ids \cup {Nobody}]
  /\ wrow \in [Wakes -> Row \cup {NoRow}]
  /\ \A w \in Wakes : phase[w] # "free" => of[w] \in Ids

RestType ==
  /\ closed \in BOOLEAN
  /\ today \in 1..MaxDays
  /\ stored \in [Ids -> Row \cup {NoRow}]
  /\ batch \subseteq Ids \X Kinds

TypeInv == ItemsType /\ CallersType /\ FlightsType /\ RestType

LEMMA TypeInvIsStronger == TypeInv => TypeOK
BY DEF TypeInv, ItemsType, CallersType, FlightsType, RestType, TypeOK, Pauses,
       Places, Phases

LEMMA Clocks ==
  ASSUME NEW c \in [Kinds -> Times], NEW i
  PROVE  /\ NoClock \in [Kinds -> Times] /\ FirstClock(i) \in [Kinds -> Times]
         /\ LoadedClock(i) \in [Kinds -> Times]
         /\ \A k \in Kinds, w \in Times : [c EXCEPT ![k] = w] \in [Kinds -> Times]
         /\ {"self", "schedule", "scan"} = Kinds
         /\ {"none", "later", "due"} = Times
<1>1. NoClock \in [Kinds -> Times]
  BY DEF NoClock, Times
<1>2. FirstClock(i) \in [Kinds -> Times]
  BY DEF FirstClock, Times
<1>3. LoadedClock(i) \in [Kinds -> Times]
  BY DEF LoadedClock, Times
<1> QED BY <1>1, <1>2, <1>3 DEF Kinds, Times

LEMMA Rows ==
  /\ NoRow \in Row \cup {NoRow} /\ Fresh \in Row
  /\ \A p \in Pauses, b \in BOOLEAN : [paused |-> p, asked |-> b] \in Row
  /\ \A x \in Row, p \in Pauses : [x EXCEPT !.paused = p] \in Row
  /\ \A x \in Row, b \in BOOLEAN : [x EXCEPT !.asked = b] \in Row
BY DEF NoRow, Fresh, Row, Pauses

LEMMA RowOfItem ==
  ASSUME ItemsType, NEW i \in Ids
  PROVE  RowOf(i) \in Row
BY DEF ItemsType, RowOf, Row, Pauses

\* rollDayLocked keeps the types.
LEMMA Rolled ==
  ASSUME ItemsType, RestType, NEW i \in Ids
  PROVE  RolledWakes(i) \in 0..MaxWakesPerDay /\ RolledPaused(i) \in Pauses
BY ConstantsAssumption
DEF ItemsType, RestType, RolledWakes, RolledPaused, Pauses

LEMMA DayRolls ==
  ASSUME ItemsType, RestType, NEW i \in Ids, RollDay(i)
  PROVE  /\ day' \in [Ids -> 0..MaxDays] /\ wakes' \in [Ids -> 0..MaxWakesPerDay]
         /\ paused' \in [Ids -> Pauses]
<1>1. today \in 0..MaxDays
  BY ConstantsAssumption DEF RestType
<1> QED BY <1>1, Rolled DEF RollDay, ItemsType

\* An item that is taken out or replaced is an item; so are the others.
LEMMA ReplacedType ==
  ASSUME ItemsType, NEW i \in Ids, NEW there \in BOOLEAN,
         NEW clk \in [Kinds -> Times], ReplaceItem(i, there, clk)
  PROVE  ItemsType'
<1> USE DEF ReplaceItem, ItemsType
<1>1. present' \in [Ids -> BOOLEAN] /\ paused' \in [Ids -> Pauses]
  BY DEF Pauses
<1>2. clock' \in [Ids -> [Kinds -> Times]]
  OBVIOUS
<1>3. running' \in [Ids -> Wakes \cup {Nobody}]
  OBVIOUS
<1>4. day' \in [Ids -> 0..MaxDays] /\ wakes' \in [Ids -> 0..MaxWakesPerDay]
  BY ConstantsAssumption
<1>5. pending' \in [Ids -> SUBSET Events]
  OBVIOUS
<1> QED BY <1>1, <1>2, <1>3, <1>4, <1>5

\* A call that is over holds nothing; one that begins has its item.
LEMMA ReturnType ==
  ASSUME CallersType, NEW t \in Threads, Return(t), stale' \subseteq Hosts
  PROVE  CallersType'
<1> USE DEF Return, CallersType
<1>1. /\ pc' \in [Threads -> Places \cup {"idle", "closing"}]
      /\ at' \in [Threads -> Ids \cup {Nobody}]
      /\ ev' \in [Threads -> Events \cup {Nobody}]
      /\ seen' \in [Threads -> Wakes \cup {Nobody}]
      /\ row' \in [Threads -> Row \cup {NoRow}]
  OBVIOUS
<1>2. /\ \A u \in Threads : pc'[u] \in Places => at'[u] \in Ids
      /\ \A u \in Hosts : pc'[u] \in InHands => ev'[u] \in Events
  BY DEF Threads, Places, InHands
<1> QED BY <1>1, <1>2

LEMMA CallType ==
  ASSUME CallersType, NEW t \in Threads,
         NEW where \in {"adding", "removing", "saving", "limiting", "waking"},
         NEW i \in Ids, NEW x \in Row \cup {NoRow},
         pc' = [pc EXCEPT ![t] = where], at' = [at EXCEPT ![t] = i],
         ev' = ev \/ ev' = [ev EXCEPT ![t] = Nobody], seen' = seen,
         row' = [row EXCEPT ![t] = x] \/ row' = row, stale' \subseteq Hosts
  PROVE  CallersType'
<1> USE DEF CallersType
<1>1. /\ pc' \in [Threads -> Places \cup {"idle", "closing"}]
      /\ at' \in [Threads -> Ids \cup {Nobody}]
      /\ ev' \in [Threads -> Events \cup {Nobody}]
      /\ row' \in [Threads -> Row \cup {NoRow}]
  BY DEF Places
<1>2. /\ \A u \in Threads : pc'[u] \in Places => at'[u] \in Ids
      /\ \A u \in Hosts : pc'[u] \in InHands => ev'[u] \in Events
  BY DEF Threads, Places, InHands
<1> QED BY <1>1, <1>2

LEMMA TypeInit == Init => TypeInv
<1> SUFFICES ASSUME Init PROVE TypeInv
  OBVIOUS
<1>1. ItemsType
  BY ConstantsAssumption, Clocks DEF Init, ItemsType, Pauses, NoClock, Times
<1>2. CallersType
  BY DEF Init, CallersType, Places, InHands, Threads
<1>3. FlightsType
  BY DEF Init, FlightsType, Phases
<1>4. RestType
  <2>1. 1 \in 1..MaxDays
    BY ConstantsAssumption
  <2> QED BY <2>1 DEF Init, RestType
<1> QED BY <1>1, <1>2, <1>3, <1>4 DEF TypeInv

\* The clock that fired is consumed, to a time.
LEMMA Consumed ==
  ASSUME ItemsType, NEW i \in Ids, NEW k
  PROVE  ConsumedClock(i, k) \in [Kinds -> Times]
<1>1. clock[i] \in [Kinds -> Times]
  BY DEF ItemsType
<1> QED BY <1>1 DEF ConsumedClock, Kinds, Times

\* startWake, in each of its four ways, keeps the types.
LEMMA StartWakeType ==
  ASSUME TypeInv, NEW t \in Threads, NEW i \in Ids, NEW k,
         StartWake(t, i, k), stale' = stale
  PROVE  ItemsType' /\ CallersType' /\ FlightsType'
<1> USE DEF TypeInv
<1>0. stale' \subseteq Hosts
  BY DEF CallersType
<1>1. CASE NoWakeNow(i) /\ Return(t) /\ UNCHANGED <<items, flights, fates>>
  BY <1>0, <1>1, ReturnType DEF items, flights, ItemsType, FlightsType
<1>2. CASE /\ RollDay(i) /\ Return(t)
           /\ UNCHANGED <<present, clock, running, pending, flights, fates>>
  BY <1>0, <1>2, ReturnType, DayRolls DEF flights, ItemsType, FlightsType
<1>3. CASE /\ day' = [day EXCEPT ![i] = today]
           /\ wakes' = [wakes EXCEPT ![i] = RolledWakes(i)]
           /\ paused' = [paused EXCEPT ![i] = "daily"]
           /\ clock' = [clock EXCEPT ![i]["self"] = "none"]
           /\ pc' = [pc EXCEPT ![t] = "limiting"]
           /\ at' = [at EXCEPT ![t] = i]
           /\ row' = [row EXCEPT ![t] = [paused |-> "daily", asked |-> FALSE]]
           /\ ev' = [ev EXCEPT ![t] = Nobody]
           /\ UNCHANGED <<present, running, pending, seen, flights, fates>>
  <2>1. CallersType'
    <3>1. [paused |-> "daily", asked |-> FALSE] \in Row \cup {NoRow}
      BY DEF Row
    <3> QED BY <1>0, <1>3, <3>1, CallType
  <2>2. today \in 0..MaxDays /\ RolledWakes(i) \in 0..MaxWakesPerDay
    BY ConstantsAssumption, Rolled DEF RestType
  <2>3. clock' \in [Ids -> [Kinds -> Times]]
    BY <1>3 DEF ItemsType, Times
  <2>4. ItemsType'
    BY <1>3, <2>2, <2>3 DEF ItemsType, Pauses
  <2> QED BY <1>3, <2>1, <2>4 DEF flights, FlightsType
<1>4. ASSUME NEW w \in Wakes,
             phase' = [phase EXCEPT ![w] = "begun"], of' = [of EXCEPT ![w] = i],
             running' = [running EXCEPT ![i] = w],
             day' = [day EXCEPT ![i] = today],
             ~AtCeiling(i), wakes' = [wakes EXCEPT ![i] = RolledWakes(i) + 1],
             paused' = [paused EXCEPT ![i] = "no"],
             clock' = [clock EXCEPT ![i] = ConsumedClock(i, k)],
             TakeEvents(i), Return(t), UNCHANGED <<present, wrow>>
      PROVE  ItemsType' /\ CallersType' /\ FlightsType'
  <2>1. CallersType'
    BY <1>0, <1>4, ReturnType
  <2>2. today \in 0..MaxDays /\ RolledWakes(i) + 1 \in 0..MaxWakesPerDay
    BY <1>4, ConstantsAssumption, Rolled DEF RestType, AtCeiling
  <2>3. clock' \in [Ids -> [Kinds -> Times]]
    BY <1>4, Consumed DEF ItemsType
  <2>4. pending' \in [Ids -> SUBSET Events]
    BY <1>4 DEF ItemsType, TakeEvents
  <2>5. ItemsType'
    BY <1>4, <2>2, <2>3, <2>4 DEF ItemsType, Pauses
  <2>6. FlightsType'
    BY <1>4 DEF FlightsType, Phases
  <2> QED BY <2>1, <2>5, <2>6
<1>5. QED
  <2>1. CASE \E v \in Wakes : phase[v] = "free"
    <3>1. (CHOOSE v \in Wakes : phase[v] = "free") \in Wakes
      BY <2>1
    <3> QED BY <1>1, <1>2, <1>3, <1>4, <3>1 DEF StartWake
  <2>2. CASE ~(\E v \in Wakes : phase[v] = "free")
    BY <1>1, <1>2, <1>3, <2>2 DEF StartWake
  <2> QED BY <2>1, <2>2

\* The calls of a host keep the types.
LEMMA HostCallType ==
  ASSUME TypeInv, NEW t \in Hosts, HostCall(t)
  PROVE  TypeInv'
<1> USE DEF TypeInv
<1>0. t \in Threads /\ stale \subseteq Hosts
  BY DEF Threads, CallersType
<1>1. CASE Close(t)
  <2>1. CallersType'
    BY <1>0, <1>1 DEF Close, Enter, CallersType, Places, InHands, Threads
  <2> QED BY <1>1, <2>1 DEF Close, items, flights, ItemsType, FlightsType, RestType
<1>2. ASSUME NEW i \in Ids, AddSaves(t, i) PROVE TypeInv'
  <2>1. CallersType'
    BY <1>0, <1>2, Rows, CallType DEF AddSaves, Enter
  <2>2. stored' \in [Ids -> Row \cup {NoRow}]
    BY <1>2, Rows DEF AddSaves, RestType
  <2> QED BY <1>2, <2>1, <2>2
          DEF AddSaves, items, flights, ItemsType, FlightsType, RestType
<1>3. ASSUME NEW i \in Ids, Remove(t, i) PROVE TypeInv'
  <2>1. stale' \subseteq Hosts
    BY <1>0, <1>3 DEF Remove, ReplaceItem
  <2>2. CallersType'
    BY <1>0, <1>3, <2>1, Rows, CallType DEF Remove, Enter
  <2>3. ItemsType'
    BY <1>3, ReplacedType, Clocks DEF Remove, ItemsType
  <2> QED BY <1>3, <2>2, <2>3 DEF Remove, flights, FlightsType, RestType
<1>4. ASSUME NEW i \in Ids, Pause(t, i) PROVE TypeInv'
  <2>1. [RowOf(i) EXCEPT !.paused = "host"] \in Row
    BY RowOfItem, Rows DEF Pauses
  <2>2. CallersType'
    BY <1>0, <1>4, <2>1, CallType DEF Pause, Enter
  <2>3. ItemsType'
    BY <1>4 DEF Pause, ItemsType, Pauses
  <2> QED BY <1>4, <2>2, <2>3 DEF Pause, flights, FlightsType, RestType
<1>5. ASSUME NEW i \in Ids, Resume(t, i) PROVE TypeInv'
  <2>1. [RowOf(i) EXCEPT !.paused = "no"] \in Row
    BY RowOfItem, Rows DEF Pauses
  <2>2. CallersType'
    BY <1>0, <1>5, <2>1, CallType DEF Resume, Enter
  <2>3. clock' \in [Ids -> [Kinds -> Times]]
    BY <1>5 DEF Resume, ItemsType, Kinds, Times
  <2>4. ItemsType'
    BY <1>5, <2>3 DEF Resume, ItemsType, Pauses
  <2> QED BY <1>5, <2>2, <2>4 DEF Resume, flights, FlightsType, RestType
<1>6. ASSUME NEW i \in Ids, WakeNow(t, i) PROVE TypeInv'
  <2>1. CallersType'
    BY <1>0, <1>6, Rows, CallType DEF WakeNow, Enter
  <2> QED BY <1>6, <2>1
          DEF WakeNow, items, flights, ItemsType, FlightsType, RestType
<1>7. ASSUME NEW i \in Ids, NEW e \in Events, Deliver(t, i, e) PROVE TypeInv'
  <2>1. ASSUME pc' = [pc EXCEPT ![t] = "waking"], UNCHANGED <<ev, seen>>
        PROVE  CallersType'
    BY <1>0, <1>7, <2>1, Rows, CallType DEF Deliver
  <2>2. ASSUME pc' = [pc EXCEPT ![t] = "steering"],
               ev' = [ev EXCEPT ![t] = e],
               seen' = [seen EXCEPT ![t] = running[i]]
        PROVE  CallersType'
    <3>1. running[i] \in Wakes \cup {Nobody}
      BY DEF ItemsType
    <3>2. at' = [at EXCEPT ![t] = i] /\ UNCHANGED <<row, stale>>
      BY <1>7 DEF Deliver
    <3>3. /\ pc' \in [Threads -> Places \cup {"idle", "closing"}]
          /\ at' \in [Threads -> Ids \cup {Nobody}]
          /\ ev' \in [Threads -> Events \cup {Nobody}]
          /\ seen' \in [Threads -> Wakes \cup {Nobody}]
      BY <2>2, <3>1, <3>2 DEF CallersType, Places
    <3>4. /\ \A u \in Threads : pc'[u] \in Places => at'[u] \in Ids
          /\ \A u \in Hosts : pc'[u] \in InHands => ev'[u] \in Events
      BY <1>0, <2>2, <3>2 DEF CallersType, Threads, Places, InHands
    <3> QED BY <3>2, <3>3, <3>4 DEF CallersType
  <2>3. CallersType'
    BY <1>7, <2>1, <2>2 DEF Deliver
  <2>4. pending' \in [Ids -> SUBSET Events]
    BY <1>7 DEF Deliver, ItemsType
  <2> QED BY <1>7, <2>3, <2>4 DEF Deliver, flights, ItemsType, FlightsType, RestType
<1> QED BY <1>1, <1>2, <1>3, <1>4, <1>5, <1>6, <1>7 DEF HostCall

\* What a call does after it began keeps the types.
LEMMA SaveType ==
  ASSUME TypeInv, NEW t \in Threads, Save(t)
  PROVE  TypeInv'
<1> USE DEF TypeInv
<1>1. CallersType'
  BY ReturnType DEF Save, CallersType
<1>2. stored' \in [Ids -> Row \cup {NoRow}]
  BY DEF Save, RestType, CallersType
<1> QED BY <1>1, <1>2 DEF Save, items, flights, ItemsType, FlightsType, RestType

LEMMA HostStepType ==
  ASSUME TypeInv, NEW t \in Hosts, HostStep(t)
  PROVE  TypeInv'
<1> USE DEF TypeInv
<1>0. t \in Threads /\ stale \subseteq Hosts
  BY DEF Threads, CallersType
<1>1. CASE AddRegisters(t)
  <2>1. at[t] \in Ids
    BY <1>0, <1>1 DEF AddRegisters, CallersType, Places
  <2>2. CASE UNCHANGED <<items, stale, fates, disturbed>>
    <3>1. CallersType'
      BY <1>0, <1>1, <2>2, ReturnType DEF AddRegisters
    <3> QED BY <1>1, <2>2, <3>1
            DEF AddRegisters, items, flights, ItemsType, FlightsType, RestType
  <2>3. CASE ReplaceItem(at[t], TRUE, FirstClock(at[t]))
    <3>1. stale' \subseteq Hosts
      BY <1>0, <2>3 DEF ReplaceItem
    <3>2. CallersType'
      BY <1>0, <1>1, <3>1, ReturnType DEF AddRegisters
    <3>3. ItemsType'
      BY <2>1, <2>3, ReplacedType, Clocks DEF ItemsType
    <3> QED BY <1>1, <3>2, <3>3 DEF AddRegisters, flights, FlightsType, RestType
  <2> QED BY <1>1, <2>2, <2>3 DEF AddRegisters
<1>2. CASE RemoveDeletes(t)
  <2>1. CallersType'
    BY <1>0, <1>2, ReturnType DEF RemoveDeletes
  <2>2. stored' \in [Ids -> Row \cup {NoRow}]
    BY <1>2 DEF RemoveDeletes, RestType
  <2> QED BY <1>2, <2>1, <2>2
          DEF RemoveDeletes, items, flights, ItemsType, FlightsType, RestType
<1>3. CASE Save(t)
  BY <1>0, <1>3, SaveType
<1>4. CASE HostStartsWake(t)
  <2>1. at[t] \in Ids
    BY <1>0, <1>4 DEF HostStartsWake, CallersType, Places
  <2> QED BY <1>0, <1>4, <2>1, StartWakeType DEF HostStartsWake, RestType
<1>5. CASE DeliverSteers(t)
  <2>1. CASE Return(t) /\ stale' = stale \ {t}
    <3>1. CallersType'
      BY <1>0, <2>1, ReturnType
    <3> QED BY <1>5, <3>1
            DEF DeliverSteers, items, flights, ItemsType, FlightsType, RestType
  <2>2. CASE /\ pc' = [pc EXCEPT ![t] = "queueing"]
             /\ seen' = [seen EXCEPT ![t] = Nobody]
             /\ UNCHANGED <<at, ev, row, stale>>
    <3>1. /\ pc' \in [Threads -> Places \cup {"idle", "closing"}]
          /\ seen' \in [Threads -> Wakes \cup {Nobody}]
      BY <2>2 DEF CallersType, Places
    <3>2. /\ \A u \in Threads : pc'[u] \in Places => at'[u] \in Ids
          /\ \A u \in Hosts : pc'[u] \in InHands => ev'[u] \in Events
      BY <1>0, <1>5, <2>2 DEF DeliverSteers, CallersType, Threads, Places, InHands
    <3>3. CallersType'
      BY <2>2, <3>1, <3>2 DEF CallersType
    <3> QED BY <1>5, <3>3
            DEF DeliverSteers, items, flights, ItemsType, FlightsType, RestType
  <2> QED BY <1>5, <2>1, <2>2 DEF DeliverSteers
<1>6. CASE DeliverQueues(t)
  <2>1. ev[t] \in Events /\ at[t] \in Ids
    BY <1>0, <1>6 DEF DeliverQueues, CallersType, Places, InHands
  <2>2. CallersType'
    BY <1>0, <1>6, <2>1 DEF DeliverQueues, CallersType, Threads, Places, InHands
  <2>3. pending' \in [Ids -> SUBSET Events]
    BY <1>6, <2>1 DEF DeliverQueues, ItemsType
  <2> QED BY <1>6, <2>2, <2>3
          DEF DeliverQueues, flights, ItemsType, FlightsType, RestType
<1>7. CASE CloseReturns(t)
  <2>1. CallersType'
    BY <1>0, <1>7, ReturnType DEF CloseReturns
  <2> QED BY <1>7, <2>1
          DEF CloseReturns, items, flights, ItemsType, FlightsType, RestType
<1> QED BY <1>1, <1>2, <1>3, <1>4, <1>5, <1>6, <1>7 DEF HostStep

\* The steps of a wake keep the types.
LEMMA FreedType ==
  ASSUME CallersType, FlightsType, NEW w \in Wakes, FreeSlot(w),
         UNCHANGED <<pc, at, ev, row, stale>>
  PROVE  CallersType' /\ FlightsType'
<1>1. seen' \in [Threads -> Wakes \cup {Nobody}]
  BY DEF FreeSlot, CallersType
<1>2. CallersType'
  BY <1>1 DEF CallersType
<1>3. FlightsType'
  BY DEF FreeSlot, FlightsType, Phases
<1> QED BY <1>2, <1>3

LEMMA WakeStepType ==
  ASSUME TypeInv, NEW w \in Wakes, WakeStep(w) \/ ToolUpdates(w)
  PROVE  TypeInv'
<1> USE DEF TypeInv
<1>1. ASSUME NEW p \in Phases \ {"free"}, phase[w] # "free",
             phase' = [phase EXCEPT ![w] = p], of' = of,
             wrow' \in [Wakes -> Row \cup {NoRow}]
      PROVE  FlightsType'
  BY <1>1 DEF FlightsType
<1>2. CASE RunBegins(w)
  <2>1. FlightsType'
    BY <1>1, <1>2 DEF RunBegins, Phases, FlightsType
  <2> QED BY <1>2, <2>1 DEF RunBegins, items, callers, ItemsType, CallersType, RestType
<1>3. CASE RunEnds(w)
  <2>1. FlightsType'
    BY <1>1, <1>3 DEF RunEnds, Phases, FlightsType
  <2> QED BY <1>3, <2>1 DEF RunEnds, items, callers, ItemsType, CallersType, RestType
<1>4. CASE ToolSaves(w)
  <2>1. wrow' \in [Wakes -> Row \cup {NoRow}]
    BY <1>4 DEF ToolSaves, FlightsType
  <2>2. FlightsType'
    BY <1>1, <1>4, <2>1 DEF ToolSaves, Phases
  <2>3. stored' \in [Ids -> Row \cup {NoRow}]
    BY <1>4 DEF ToolSaves, RestType, FlightsType
  <2> QED BY <1>4, <2>2, <2>3 DEF ToolSaves, items, callers, ItemsType, CallersType, RestType
<1>5. CASE ToolUpdates(w)
  <2>1. of[w] \in Ids
    BY <1>5 DEF ToolUpdates, FlightsType
  <2>2. PICK when \in {clock[of[w]]["self"], "later"} :
          /\ clock' = [clock EXCEPT ![of[w]]["self"] = when]
          /\ wrow' = [wrow EXCEPT ![w] =
                        [RowOf(of[w]) EXCEPT !.asked = when # "none"]]
    BY <1>5 DEF ToolUpdates
  <2>3. when \in Times
    BY <2>1, <2>2 DEF ItemsType, Kinds, Times
  <2>4. clock' \in [Ids -> [Kinds -> Times]]
    BY <2>2, <2>3 DEF ItemsType, Kinds
  <2>5. [RowOf(of[w]) EXCEPT !.asked = when # "none"] \in Row
    BY <2>1, RowOfItem, Rows
  <2>6. wrow' \in [Wakes -> Row \cup {NoRow}]
    BY <2>2, <2>5 DEF FlightsType
  <2>7. FlightsType'
    BY <1>1, <1>5, <2>6 DEF ToolUpdates, Phases
  <2> QED BY <1>5, <2>4, <2>7 DEF ToolUpdates, callers, ItemsType, CallersType, RestType
<1>6. CASE FinishWake(w)
  <2>1. of[w] \in Ids
    BY <1>6 DEF FinishWake, FlightsType
  <2>2. CASE /\ running' = [running EXCEPT ![of[w]] = Nobody]
             /\ RollDay(of[w])
             /\ wrow' = [wrow EXCEPT ![w] =
                           [RowOf(of[w]) EXCEPT !.paused = RolledPaused(of[w])]]
             /\ phase' = [phase EXCEPT ![w] = "saving"]
             /\ UNCHANGED <<of, seen>>
    <3>1. [RowOf(of[w]) EXCEPT !.paused = RolledPaused(of[w])] \in Row
      BY <2>1, RowOfItem, Rolled, Rows
    <3>2. wrow' \in [Wakes -> Row \cup {NoRow}]
      BY <2>2, <3>1 DEF FlightsType
    <3>3. FlightsType'
      BY <1>1, <1>6, <2>2, <3>2 DEF FinishWake, Phases
    <3>4. UNCHANGED <<present, clock, pending>>
      BY <1>6 DEF FinishWake
    <3>5. ItemsType'
      BY <2>1, <2>2, <3>4, DayRolls DEF ItemsType
    <3> QED BY <1>6, <2>2, <3>3, <3>5 DEF FinishWake, CallersType, RestType
  <2>3. CASE FreeSlot(w) /\ UNCHANGED <<running, day, wakes, paused>>
    BY <1>6, <2>3, FreedType DEF FinishWake, ItemsType, RestType
  <2> QED BY <1>6, <2>2, <2>3 DEF FinishWake
<1>7. CASE FinishSaves(w)
  <2>1. stored' \in [Ids -> Row \cup {NoRow}]
    BY <1>7 DEF FinishSaves, RestType, FlightsType
  <2> QED BY <1>7, <2>1, FreedType DEF FinishSaves, items, ItemsType, RestType
<1> QED BY <1>2, <1>3, <1>4, <1>5, <1>6, <1>7 DEF WakeStep

\* The loop, the clock, and a new process over the store.
LEMMA LoopType ==
  ASSUME TypeInv, LoopStep
  PROVE  TypeInv'
<1> USE DEF TypeInv
<1>1. CASE LoopLooks
  <2>1. PICK f \in [Ids -> Kinds] :
          batch' = {<<i, f[i]>> : i \in {j \in Ids : Due(j) # {}}}
    BY <1>1 DEF LoopLooks
  <2>2. batch' \subseteq Ids \X Kinds
    BY <2>1
  <2> QED BY <1>1, <2>2 DEF LoopLooks, items, callers, flights, ItemsType,
                            CallersType, FlightsType, RestType
<1>2. CASE LoopStartsWake
  <2>1. PICK b \in batch : StartWake(Loop, b[1], b[2]) /\ batch' = batch \ {b}
    BY <1>2 DEF LoopStartsWake
  <2>2. b[1] \in Ids /\ Loop \in Threads
    BY DEF RestType, Threads
  <2>3. batch' \subseteq Ids \X Kinds
    BY <2>1 DEF RestType
  <2>4. UNCHANGED <<closed, today, stored, stale>>
    BY <1>2 DEF LoopStartsWake
  <2>5. ItemsType' /\ CallersType' /\ FlightsType'
    BY <2>1, <2>2, <2>4, StartWakeType
  <2> QED BY <2>3, <2>4, <2>5 DEF RestType
<1>3. CASE Save(Loop)
  BY <1>3, SaveType DEF Threads
<1> QED BY <1>1, <1>2, <1>3 DEF LoopStep

LEMMA RestartType ==
  ASSUME TypeInv, Restart
  PROVE  TypeInv'
<1> USE DEF TypeInv
<1>1. \A i \in Ids : /\ (IF stored[i] = NoRow THEN "no" ELSE stored[i].paused) \in Pauses
                     /\ (IF stored[i] = NoRow THEN NoClock ELSE LoadedClock(i))
                          \in [Kinds -> Times]
  <2> TAKE i \in Ids
  <2>1. stored[i] # NoRow => stored[i] \in Row
    BY DEF RestType
  <2>2. [k \in Kinds |-> "none"] \in [Kinds -> Times]
    BY DEF Times
  <2>3. NoClock \in [Kinds -> Times] /\ LoadedClock(i) \in [Kinds -> Times]
    BY <2>2, Clocks
  <2> QED BY <2>1, <2>3 DEF Row, Pauses
<1>2. ItemsType'
  <2>1. 0 \in 0..MaxDays /\ 0 \in 0..MaxWakesPerDay
    BY ConstantsAssumption
  <2>2. /\ present' \in [Ids -> BOOLEAN]
        /\ day' \in [Ids -> 0..MaxDays]
        /\ wakes' \in [Ids -> 0..MaxWakesPerDay]
        /\ pending' \in [Ids -> SUBSET Events]
        /\ running' \in [Ids -> Wakes \cup {Nobody}]
    BY <2>1 DEF Restart
  <2>3. paused' \in [Ids -> Pauses] /\ clock' \in [Ids -> [Kinds -> Times]]
    BY <1>1 DEF Restart
  <2> QED BY <2>2, <2>3 DEF ItemsType
<1>3. CallersType'
  BY DEF Restart, CallersType, Places, InHands, Threads
<1>4. FlightsType'
  BY DEF Restart, FlightsType, Phases
<1>5. RestType'
  BY DEF Restart, RestType
<1> QED BY <1>2, <1>3, <1>4, <1>5

LEMMA TypeStep == TypeInv /\ [Next]_vars => TypeInv'
<1> SUFFICES ASSUME TypeInv, [Next]_vars PROVE TypeInv'
  OBVIOUS
<1> USE DEF TypeInv
<1>1. CASE UNCHANGED vars
  BY <1>1 DEF vars, items, callers, flights, ItemsType, CallersType, FlightsType,
              RestType
<1>2. CASE (\E t \in Hosts : pc[t] = "idle") /\ HostCall(FreeHost)
  <2>1. FreeHost \in Hosts
    BY <1>2 DEF FreeHost
  <2> QED BY <1>2, <2>1, HostCallType
<1>3. ASSUME NEW i \in Ids, Look(i) PROVE TypeInv'
  <2>1. ItemsType'
    BY <1>3, DayRolls DEF Look, ItemsType
  <2> QED BY <1>3, <2>1 DEF Look, callers, flights, CallersType, FlightsType, RestType
<1>4. ASSUME NEW i \in Ids, NEW k \in Kinds, TimeComes(i, k) PROVE TypeInv'
  <2>1. ItemsType'
    BY <1>4 DEF TimeComes, ItemsType, Times
  <2> QED BY <1>4, <2>1
          DEF TimeComes, callers, flights, CallersType, FlightsType, RestType
<1>5. CASE NewDay
  <2>1. today' \in 1..MaxDays
    BY <1>5, ConstantsAssumption DEF NewDay, RestType
  <2> QED BY <1>5, <2>1 DEF NewDay, items, callers, flights, ItemsType, CallersType,
                            FlightsType, RestType
<1> QED BY <1>1, <1>2, <1>3, <1>4, <1>5, HostStepType, WakeStepType, LoopType,
           RestartType DEF Next

\* Every state has the declared types: a wake that holds a slot has its item
\* and a call that names one too.
THEOREM TypeCorrect == Spec => []TypeOK
<1> QED BY TypeInit, TypeStep, TypeInvIsStronger, PTL DEF Spec

-----------------------------------------------------------------------------
(***************************************************************************)
(* One wake at a time.                                                     *)
(***************************************************************************)
\* What is not there is not running.
AbsentIsIdle == \A i \in Ids : ~present[i] => running[i] = Nobody

FlightInv == AbsentIsIdle /\ OneWakeAtATime

\* The phases of a wake whose run is not behind it.
Flying == {"begun", "open", "noting", "noted", "over"}

\* What a step does to the wakes in flight: it leaves them as they are, one
\* begins where none was running, one ends, an item is taken out or replaced,
\* or the process ends.
Airborne(w, i) == phase[w] \in Flying /\ of[w] = i

SameWakes == \A i \in Ids, w \in Wakes : Airborne(w, i)' <=> Airborne(w, i)

Begins(i, w) ==
  /\ present[i] /\ running[i] = Nobody
  /\ phase[w] = "free"
  /\ running' = [running EXCEPT ![i] = w]
  /\ \A j \in Ids, v \in Wakes : Airborne(v, j)' <=> Airborne(v, j) \/ (v = w /\ j = i)

Ends(i, w) ==
  /\ Airborne(w, i)
  /\ running' = [running EXCEPT ![i] = Nobody] \/ (~present[i] /\ running' = running)
  /\ \A j \in Ids, v \in Wakes : Airborne(v, j)' <=> Airborne(v, j) /\ v # w

Replaced(i) ==
  /\ running' = [running EXCEPT ![i] = Nobody]
  /\ \A j \in Ids \ {i} : present'[j] = present[j]
  /\ disturbed' = IF Unfinished(i) # {} THEN disturbed \cup {i} ELSE disturbed
  /\ SameWakes

FlightKinds ==
  \/ SameWakes /\ UNCHANGED <<present, running, disturbed>>
  \/ \E i \in Ids, w \in Wakes :
       (Begins(i, w) \/ Ends(i, w)) /\ UNCHANGED <<present, disturbed>>
  \/ \E i \in Ids : Replaced(i)
  \/ /\ \A i \in Ids : running'[i] = Nobody
     /\ \A w \in Wakes : phase'[w] = "free"

LEMMA StartWakeFlights ==
  ASSUME TypeInv, NEW t \in Threads, NEW i \in Ids, NEW k, StartWake(t, i, k),
         UNCHANGED disturbed
  PROVE  FlightKinds
<1> USE DEF TypeInv
<1>1. CASE UNCHANGED <<present, running, flights>>
  BY <1>1 DEF FlightKinds, SameWakes, Airborne, flights
<1>2. ASSUME NEW w \in Wakes, phase[w] = "free", ~NoWakeNow(i),
             phase' = [phase EXCEPT ![w] = "begun"], of' = [of EXCEPT ![w] = i],
             running' = [running EXCEPT ![i] = w], UNCHANGED present
      PROVE  FlightKinds
  <2>1. present[i] /\ running[i] = Nobody
    BY <1>2 DEF NoWakeNow
  <2>2. \A j \in Ids, v \in Wakes :
          Airborne(v, j)' <=> Airborne(v, j) \/ (v = w /\ j = i)
    BY <1>2 DEF FlightsType, Airborne, Flying
  <2> QED BY <1>2, <2>1, <2>2 DEF FlightKinds, Begins
<1>3. CASE \E v \in Wakes : phase[v] = "free"
  <2>1. /\ (CHOOSE v \in Wakes : phase[v] = "free") \in Wakes
        /\ phase[CHOOSE v \in Wakes : phase[v] = "free"] = "free"
    BY <1>3
  <2> QED BY <1>1, <1>2, <2>1 DEF StartWake, items, flights
<1>4. CASE ~(\E v \in Wakes : phase[v] = "free")
  BY <1>1, <1>4 DEF StartWake, items, flights
<1> QED BY <1>3, <1>4

LEMMA FlightSteps ==
  ASSUME TypeInv, [Next]_vars
  PROVE  FlightKinds
<1> USE DEF TypeInv
<1>1. CASE UNCHANGED <<present, running, disturbed, phase, of>>
  BY <1>1 DEF FlightKinds, SameWakes, Airborne
<1>2. ASSUME NEW i \in Ids, NEW x, NEW y, ReplaceItem(i, x, y), UNCHANGED flights
      PROVE  FlightKinds
  <2>1. SameWakes
    BY <1>2 DEF SameWakes, Airborne, flights
  <2> QED BY <1>2, <2>1 DEF ReplaceItem, Replaced, FlightKinds, ItemsType
<1>3. ASSUME NEW w \in Wakes, NEW p \in Flying, phase[w] \in Flying,
             phase' = [phase EXCEPT ![w] = p],
             UNCHANGED <<of, present, running, disturbed>>
      PROVE  FlightKinds
  <2>1. SameWakes
    BY <1>3 DEF SameWakes, Airborne, FlightsType
  <2> QED BY <1>3, <2>1 DEF FlightKinds
<1>4. ASSUME NEW t \in Hosts, HostStep(t) PROVE FlightKinds
  <2>0. t \in Threads
    BY DEF Threads
  <2>1. CASE AddRegisters(t)
    <3>1. at[t] \in Ids
      BY <2>0, <2>1 DEF AddRegisters, CallersType, Places
    <3> QED BY <1>1, <1>2, <2>1, <3>1 DEF AddRegisters, items, flights
  <2>2. CASE HostStartsWake(t)
    <3>1. at[t] \in Ids
      BY <2>0, <2>2 DEF HostStartsWake, CallersType, Places
    <3> QED BY <2>0, <2>2, <3>1, StartWakeFlights DEF HostStartsWake
  <2>3. CASE RemoveDeletes(t) \/ Save(t) \/ DeliverSteers(t) \/ DeliverQueues(t)
               \/ CloseReturns(t)
    BY <1>1, <2>3 DEF RemoveDeletes, Save, DeliverSteers, DeliverQueues, CloseReturns,
                      items, flights
  <2> QED BY <1>4, <2>1, <2>2, <2>3 DEF HostStep
<1>5. ASSUME NEW t \in Hosts, HostCall(t) PROVE FlightKinds
  <2>1. ASSUME NEW i \in Ids, Remove(t, i) PROVE FlightKinds
    BY <1>2, <2>1 DEF Remove
  <2>2. ASSUME NEW i \in Ids,
               AddSaves(t, i) \/ Pause(t, i) \/ Resume(t, i) \/ WakeNow(t, i)
                 \/ \E e \in Events : Deliver(t, i, e)
        PROVE  FlightKinds
    BY <1>1, <2>2 DEF AddSaves, Pause, Resume, WakeNow, Deliver, items, flights
  <2>3. CASE Close(t)
    BY <1>1, <2>3 DEF Close, items, flights
  <2> QED BY <1>5, <2>1, <2>2, <2>3 DEF HostCall
<1>6. ASSUME NEW w \in Wakes, WakeStep(w) \/ ToolUpdates(w) PROVE FlightKinds
  <2>1. CASE RunBegins(w)
    BY <1>3, <2>1 DEF RunBegins, items, Flying
  <2>2. CASE RunEnds(w)
    BY <1>3, <2>2 DEF RunEnds, items, Flying
  <2>3. CASE ToolSaves(w)
    BY <1>3, <2>3 DEF ToolSaves, items, Flying
  <2>4. CASE ToolUpdates(w)
    BY <1>3, <2>4 DEF ToolUpdates, Flying
  <2>5. CASE FinishWake(w)
    <3>1. of[w] \in Ids /\ Airborne(w, of[w])
      BY <2>5 DEF FinishWake, FlightsType, Airborne, Flying
    <3>2. phase' = [phase EXCEPT ![w] = "saving"] \/ phase' = [phase EXCEPT ![w] = "free"]
      BY <2>5 DEF FinishWake, FreeSlot
    <3>3. of' = of \/ of' = [of EXCEPT ![w] = Nobody]
      BY <2>5 DEF FinishWake, FreeSlot
    <3>4. \A j \in Ids, v \in Wakes : Airborne(v, j)' <=> Airborne(v, j) /\ v # w
      BY <3>2, <3>3 DEF FlightsType, Airborne, Flying
    <3>5. Ends(of[w], w) /\ UNCHANGED <<present, disturbed>>
      BY <2>5, <3>1, <3>4 DEF FinishWake, Ends
    <3> QED BY <3>1, <3>5 DEF FlightKinds
  <2>6. CASE FinishSaves(w)
    <3>1. SameWakes
      BY <2>6 DEF FinishSaves, FreeSlot, FlightsType, SameWakes, Airborne, Flying
    <3> QED BY <2>6, <3>1 DEF FinishSaves, items, FlightKinds
  <2> QED BY <1>6, <2>1, <2>2, <2>3, <2>4, <2>5, <2>6 DEF WakeStep
<1>7. CASE LoopStep
  <2>1. CASE LoopLooks \/ Save(Loop)
    BY <1>1, <2>1 DEF LoopLooks, Save, items, flights
  <2>2. CASE LoopStartsWake
    <3>1. PICK b \in batch : StartWake(Loop, b[1], b[2])
      BY <2>2 DEF LoopStartsWake
    <3>2. b[1] \in Ids /\ Loop \in Threads
      BY DEF RestType, Threads
    <3> QED BY <2>2, <3>1, <3>2, StartWakeFlights DEF LoopStartsWake
  <2> QED BY <1>7, <2>1, <2>2 DEF LoopStep
<1>8. CASE Restart
  BY <1>8 DEF Restart, FlightKinds
<1>9. ASSUME NEW i \in Ids, Look(i) \/ \E k \in Kinds : TimeComes(i, k)
      PROVE  FlightKinds
  BY <1>1, <1>9 DEF Look, RollDay, TimeComes, flights
<1>10. CASE NewDay
  BY <1>1, <1>10 DEF NewDay, items, flights
<1>11. CASE (\E t \in Hosts : pc[t] = "idle") /\ HostCall(FreeHost)
  <2>1. FreeHost \in Hosts
    BY <1>11 DEF FreeHost
  <2> QED BY <1>5, <1>11, <2>1
<1>12. CASE UNCHANGED vars
  BY <1>1, <1>12 DEF vars, items, flights
<1> QED BY <1>4, <1>6, <1>7, <1>8, <1>9, <1>10, <1>11, <1>12 DEF Next

\* The invariant, one wake at a time.
LEMMA OneWakeMeans ==
  running \in [Ids -> Wakes \cup {Nobody}]
    => (OneWakeAtATime <=>
          \A i \in Ids \ disturbed, w \in Wakes : Airborne(w, i) <=> running[i] = w)
<1> SUFFICES ASSUME running \in [Ids -> Wakes \cup {Nobody}]
             PROVE  OneWakeAtATime <=>
                      \A i \in Ids \ disturbed, w \in Wakes :
                         Airborne(w, i) <=> running[i] = w
  OBVIOUS
<1>1. \A i \in Ids : Unfinished(i) = {w \in Wakes : Airborne(w, i)}
  BY DEF Unfinished, Airborne, Flying
<1>2. ASSUME NEW i \in Ids
      PROVE  Unfinished(i) = (IF running[i] = Nobody THEN {} ELSE {running[i]})
               <=> \A w \in Wakes : Airborne(w, i) <=> running[i] = w
  <2>1. CASE running[i] = Nobody
    BY <1>1, <2>1, ConstantsAssumption
  <2>2. CASE running[i] # Nobody
    <3>1. running[i] \in Wakes
      BY <2>2
    <3> QED BY <1>1, <2>2, <3>1
  <2> QED BY <2>1, <2>2
<1> QED BY <1>2 DEF OneWakeAtATime

LEMMA FlightInit == Init => FlightInv
BY DEF Init, FlightInv, AbsentIsIdle, OneWakeAtATime, Unfinished

LEMMA FlightStep == TypeInv /\ FlightInv /\ [Next]_vars => FlightInv'
<1> SUFFICES ASSUME TypeInv, FlightInv, [Next]_vars PROVE FlightInv'
  OBVIOUS
<1>0. /\ running \in [Ids -> Wakes \cup {Nobody}]
      /\ (running \in [Ids -> Wakes \cup {Nobody}])'
  BY TypeStep DEF TypeInv, ItemsType
<1>1. \A i \in Ids \ disturbed, w \in Wakes : Airborne(w, i) <=> running[i] = w
  BY <1>0, OneWakeMeans DEF FlightInv
<1>2. SUFFICES /\ AbsentIsIdle'
               /\ \A i \in Ids \ disturbed', w \in Wakes :
                    Airborne(w, i)' <=> running'[i] = w
  <2>1. (OneWakeAtATime <=>
           \A i \in Ids \ disturbed, w \in Wakes : Airborne(w, i) <=> running[i] = w)'
    BY <1>0, OneWakeMeans, PTL
  <2> QED BY <2>1 DEF FlightInv
<1>3. CASE SameWakes /\ UNCHANGED <<present, running, disturbed>>
  BY <1>1, <1>3 DEF SameWakes, FlightInv, AbsentIsIdle
<1>4. ASSUME NEW i \in Ids, NEW w \in Wakes, Begins(i, w), UNCHANGED <<present, disturbed>>
      PROVE  /\ AbsentIsIdle'
             /\ \A j \in Ids \ disturbed', v \in Wakes :
                  Airborne(v, j)' <=> running'[j] = v
  <2>1. AbsentIsIdle'
    BY <1>4 DEF Begins, FlightInv, AbsentIsIdle
  <2>2. ASSUME NEW j \in Ids \ disturbed, NEW v \in Wakes
        PROVE  Airborne(v, j)' <=> running'[j] = v
    <3>1. running'[j] = IF j = i THEN w ELSE running[j]
      BY <1>0, <1>4 DEF Begins
    <3>2. running[i] # v
      BY <1>4, ConstantsAssumption DEF Begins
    <3>3. Airborne(v, j)' <=> Airborne(v, j) \/ (v = w /\ j = i)
      BY <1>4 DEF Begins
    <3>4. ~Airborne(w, j)
      BY <1>4 DEF Begins, Airborne, Flying
    <3> QED BY <1>1, <3>1, <3>2, <3>3, <3>4
  <2> QED BY <1>4, <2>1, <2>2
<1>5. ASSUME NEW i \in Ids, NEW w \in Wakes, Ends(i, w), UNCHANGED <<present, disturbed>>
      PROVE  /\ AbsentIsIdle'
             /\ \A j \in Ids \ disturbed', v \in Wakes :
                  Airborne(v, j)' <=> running'[j] = v
  <2>1. AbsentIsIdle'
    BY <1>0, <1>5 DEF Ends, FlightInv, AbsentIsIdle
  <2>2. ASSUME NEW j \in Ids \ disturbed, NEW v \in Wakes
        PROVE  Airborne(v, j)' <=> running'[j] = v
    <3>1. Airborne(v, j)' <=> Airborne(v, j) /\ v # w
      BY <1>5 DEF Ends
    <3>2. Airborne(v, j) <=> running[j] = v
      BY <1>1
    <3>3. Airborne(w, j) => j = i
      BY <1>5 DEF Ends, Airborne
    <3>4. CASE j # i
      <4>1. running'[j] = running[j]
        BY <1>0, <1>5, <3>4 DEF Ends
      <4>2. running[j] = v => v # w
        BY <3>2, <3>3, <3>4
      <4> QED BY <3>1, <3>2, <4>1, <4>2
    <3>5. CASE j = i
      <4>1. running[i] = w
        BY <1>1, <1>5, <3>5 DEF Ends
      <4>2. present[i] /\ running'[i] = Nobody
        BY <1>0, <1>5, <4>1, ConstantsAssumption DEF Ends, FlightInv, AbsentIsIdle
      <4>3. ~(running'[j] = v)
        BY <3>5, <4>2, ConstantsAssumption
      <4>4. ~(Airborne(v, j)')
        BY <3>1, <3>2, <3>5, <4>1
      <4> QED BY <4>3, <4>4
    <3> QED BY <3>4, <3>5
  <2> QED BY <1>5, <2>1, <2>2
<1>6. ASSUME NEW i \in Ids, Replaced(i)
      PROVE  /\ AbsentIsIdle'
             /\ \A j \in Ids \ disturbed', v \in Wakes :
                  Airborne(v, j)' <=> running'[j] = v
  <2>1. \A j \in Ids : running'[j] = IF j = i THEN Nobody ELSE running[j]
    BY <1>0, <1>6 DEF Replaced
  <2>2. AbsentIsIdle'
    BY <1>6, <2>1 DEF Replaced, FlightInv, AbsentIsIdle
  <2>3. ASSUME NEW j \in Ids \ disturbed', NEW v \in Wakes
        PROVE  Airborne(v, j)' <=> running'[j] = v
    <3>1. j \notin disturbed /\ (j = i => Unfinished(i) = {})
      BY <1>6 DEF Replaced
    <3>2. Airborne(v, j)' <=> Airborne(v, j)
      BY <1>6 DEF Replaced, SameWakes
    <3>3. j = i => ~Airborne(v, j)
      BY <3>1 DEF Unfinished, Airborne, Flying
    <3>4. Nobody # v
      BY ConstantsAssumption
    <3> QED BY <1>1, <2>1, <3>1, <3>2, <3>3, <3>4
  <2> QED BY <2>2, <2>3
<1>7. CASE /\ \A i \in Ids : running'[i] = Nobody
           /\ \A w \in Wakes : phase'[w] = "free"
  BY <1>7, ConstantsAssumption DEF AbsentIsIdle, Airborne, Flying
<1> QED BY <1>3, <1>4, <1>5, <1>6, <1>7, FlightSteps DEF FlightKinds

\* A responsibility that no Add or Remove disturbed has one wake in flight at
\* most, the one it says is running: startWake never begins a second, and
\* finishWake forgets the wake that ends and no other (standing.go:607).
THEOREM OneWake == Spec => []OneWakeAtATime
<1>1. TypeInv /\ FlightInv /\ [Next]_vars => (TypeInv /\ FlightInv)'
  BY TypeStep, FlightStep
<1>2. FlightInv => OneWakeAtATime
  BY DEF FlightInv
<1> QED BY <1>1, <1>2, TypeInit, FlightInit, PTL DEF Spec

-----------------------------------------------------------------------------
(***************************************************************************)
(* The events.                                                             *)
(***************************************************************************)
\* The calls of Deliver that have their event in hand.
Hand == {t \in Hosts : pc[t] \in InHands}

\* No event is in two hands or pending at two items.
OneHand == \A t, u \in Hand : ev[t] = ev[u] => t = u
OneItem == \A i, j \in Ids : i # j => pending[i] \cap pending[j] = {}

EventInv == EventsAreKept /\ OneHand /\ OneItem

\* What a step does to the events: nothing; it empties the queue of an item,
\* into a brief or into oblivion; a new event arrives, at an item or in a
\* hand; a hand lets go of its event; or the process ends.
SameHands == Hand' = Hand /\ \A t \in Hand : ev'[t] = ev[t]

Emptied(i) ==
  /\ SameHands
  /\ pending' = [pending EXCEPT ![i] = {}]
  /\ \/ briefed' = briefed \cup pending[i] /\ UNCHANGED <<delivered, steered, forgotten>>
     \/ forgotten' = forgotten \cup pending[i] /\ UNCHANGED <<delivered, briefed, steered>>

Arrives(e) ==
  /\ e \notin delivered /\ delivered' = delivered \cup {e}
  /\ UNCHANGED <<briefed, steered, forgotten>>
  /\ \/ SameHands /\ \E i \in Ids : pending' = [pending EXCEPT ![i] = @ \cup {e}]
     \/ \E t \in Hosts \ Hand : /\ Hand' = Hand \cup {t} /\ ev'[t] = e
                                /\ \A u \in Hand : ev'[u] = ev[u]
                                /\ UNCHANGED pending

LetsGo(t) ==
  /\ Hand' = Hand \ {t} /\ \A u \in Hand \ {t} : ev'[u] = ev[u]
  /\ UNCHANGED <<delivered, briefed>>
  /\ \/ steered' = steered \cup {ev[t]} /\ UNCHANGED <<pending, forgotten>>
     \/ forgotten' = forgotten \cup {ev[t]} /\ UNCHANGED <<pending, steered>>
     \/ /\ \E i \in Ids : pending' = [pending EXCEPT ![i] = @ \cup {ev[t]}]
        /\ UNCHANGED <<steered, forgotten>>

EventKinds ==
  \/ SameHands /\ UNCHANGED <<pending, fates>>
  \/ \E i \in Ids : Emptied(i)
  \/ \E e \in Events : Arrives(e)
  \/ \E t \in Hand : LetsGo(t)
  \/ /\ Hand' = {} /\ \A i \in Ids : pending'[i] = {}
     /\ forgotten' = delivered \ (briefed \cup steered)
     /\ UNCHANGED <<delivered, briefed, steered>>

LEMMA HandsRest ==
  ASSUME CallersType, NEW t \in Threads, t \notin Hand, NEW p,
         p \notin InHands, pc' = [pc EXCEPT ![t] = p],
         UNCHANGED ev \/ ev' = [ev EXCEPT ![t] = Nobody]
  PROVE  SameHands
<1>1. ASSUME NEW u \in Hosts PROVE (u \in Hand' <=> u \in Hand) /\ (u \in Hand => ev'[u] = ev[u])
  <2>1. u \in Threads
    BY DEF Threads
  <2> QED BY <2>1 DEF Hand, CallersType
<1> QED BY <1>1 DEF SameHands, Hand

LEMMA StartWakeEvents ==
  ASSUME TypeInv, NEW t \in Threads, t \notin Hand, NEW i \in Ids, NEW k,
         StartWake(t, i, k)
  PROVE  EventKinds
<1> USE DEF TypeInv
<1>1. SameHands
  <2>1. ASSUME Return(t) PROVE SameHands
    BY <2>1, HandsRest DEF Return, InHands
  <2>2. CASE pc' = [pc EXCEPT ![t] = "limiting"] /\ ev' = [ev EXCEPT ![t] = Nobody]
    BY <2>2, HandsRest DEF InHands
  <2> QED BY <2>1, <2>2 DEF StartWake
<1>2. UNCHANGED <<pending, fates>> \/ Emptied(i)
  BY <1>1 DEF StartWake, TakeEvents, Emptied, items, fates
<1> QED BY <1>1, <1>2 DEF EventKinds

LEMMA EventSteps ==
  ASSUME TypeInv, [Next]_vars
  PROVE  EventKinds
<1> USE DEF TypeInv
<1>0. CallersType /\ \A t \in Hosts : t \in Threads
  BY DEF Threads
<1>1. CASE UNCHANGED <<pending, fates, pc, ev>>
  BY <1>1 DEF EventKinds, SameHands, Hand
<1>2. ASSUME NEW i \in Ids, NEW x, NEW y, ReplaceItem(i, x, y), SameHands
      PROVE  EventKinds
  BY <1>2 DEF ReplaceItem, Emptied, EventKinds
<1>3. ASSUME NEW t \in Hosts, HostStep(t) PROVE EventKinds
  <2>1. ASSUME t \notin Hand, Return(t) PROVE SameHands
    BY <1>0, <2>1, HandsRest DEF Return, InHands
  <2>2. CASE AddRegisters(t)
    <3>1. SameHands /\ at[t] \in Ids
      BY <1>0, <2>1, <2>2 DEF AddRegisters, Hand, InHands, CallersType, Places
    <3> QED BY <1>2, <2>2, <3>1 DEF AddRegisters, items, EventKinds
  <2>3. CASE HostStartsWake(t)
    <3>1. at[t] \in Ids /\ t \notin Hand
      BY <1>0, <2>3 DEF HostStartsWake, Hand, InHands, CallersType, Places
    <3> QED BY <1>0, <2>3, <3>1, StartWakeEvents DEF HostStartsWake
  <2>4. CASE RemoveDeletes(t) \/ Save(t) \/ CloseReturns(t)
    <3>1. t \notin Hand /\ Return(t)
      BY <2>4 DEF RemoveDeletes, Save, CloseReturns, Hand, InHands
    <3> QED BY <2>1, <2>4, <3>1
            DEF RemoveDeletes, Save, CloseReturns, items, EventKinds
  <2>5. CASE DeliverSteers(t)
    <3>1. t \in Hand
      BY <2>5 DEF DeliverSteers, Hand, InHands
    <3>2. CASE steered' = steered \cup {ev[t]} /\ Return(t)
      <4>1. Hand' = Hand \ {t} /\ \A u \in Hand \ {t} : ev'[u] = ev[u]
        BY <1>0, <3>2 DEF Return, Hand, InHands, CallersType
      <4> QED BY <2>5, <3>1, <3>2, <4>1 DEF DeliverSteers, items, LetsGo, EventKinds
    <3>3. CASE pc' = [pc EXCEPT ![t] = "queueing"] /\ UNCHANGED <<steered, ev>>
      <4>1. SameHands
        BY <1>0, <3>1, <3>3 DEF SameHands, Hand, InHands, CallersType
      <4> QED BY <2>5, <3>3, <4>1 DEF DeliverSteers, items, fates, EventKinds
    <3> QED BY <2>5, <3>2, <3>3 DEF DeliverSteers
  <2>6. CASE DeliverQueues(t)
    <3>1. t \in Hand /\ at[t] \in Ids
      BY <1>0, <2>6 DEF DeliverQueues, Hand, InHands, CallersType, Places
    <3>2. Hand' = Hand \ {t} /\ \A u \in Hand \ {t} : ev'[u] = ev[u]
      BY <1>0, <2>6 DEF DeliverQueues, Hand, InHands, CallersType
    <3> QED BY <2>6, <3>1, <3>2 DEF DeliverQueues, LetsGo, EventKinds
  <2> QED BY <1>3, <2>2, <2>3, <2>4, <2>5, <2>6 DEF HostStep
<1>4. ASSUME NEW t \in Hosts, HostCall(t) PROVE EventKinds
  <2>1. ASSUME NEW i, NEW p, p \notin InHands, Enter(t, p, i), UNCHANGED ev
        PROVE  SameHands
    <3>1. t \notin Hand
      BY <2>1 DEF Enter, Hand, InHands
    <3> QED BY <1>0, <2>1, <3>1, HandsRest DEF Enter
  <2>2. ASSUME NEW i \in Ids, Remove(t, i) PROVE EventKinds
    <3>1. SameHands
      BY <2>1, <2>2 DEF Remove, InHands
    <3> QED BY <1>2, <2>2, <3>1 DEF Remove
  <2>3. ASSUME NEW i \in Ids,
               AddSaves(t, i) \/ Pause(t, i) \/ Resume(t, i) \/ WakeNow(t, i)
        PROVE  EventKinds
    <3>1. SameHands
      BY <2>1, <2>3 DEF AddSaves, Pause, Resume, WakeNow, InHands
    <3> QED BY <2>3, <3>1 DEF AddSaves, Pause, Resume, WakeNow, items, EventKinds
  <2>4. CASE Close(t)
    <3>1. SameHands
      BY <2>1, <2>4 DEF Close, InHands
    <3> QED BY <2>4, <3>1 DEF Close, items, EventKinds
  <2>5. ASSUME NEW i \in Ids, NEW e \in Events, Deliver(t, i, e) PROVE EventKinds
    <3>1. t \notin Hand
      BY <2>5 DEF Deliver, Hand, InHands
    <3>2. /\ e \notin delivered /\ delivered' = delivered \cup {e}
          /\ UNCHANGED <<briefed, steered, forgotten>>
      BY <2>5 DEF Deliver
    <3>3. CASE /\ pending' = [pending EXCEPT ![i] = @ \cup {e}]
               /\ pc' = [pc EXCEPT ![t] = "waking"] /\ UNCHANGED ev
      <4>1. SameHands
        BY <1>0, <3>1, <3>3, HandsRest DEF InHands
      <4> QED BY <3>2, <3>3, <4>1 DEF Arrives, EventKinds
    <3>4. CASE /\ pc' = [pc EXCEPT ![t] = "steering"]
               /\ ev' = [ev EXCEPT ![t] = e] /\ UNCHANGED pending
      <4>1. /\ Hand' = Hand \cup {t} /\ ev'[t] = e
            /\ \A u \in Hand : ev'[u] = ev[u]
        BY <1>0, <3>1, <3>4 DEF Hand, InHands, CallersType
      <4> QED BY <3>1, <3>2, <3>4, <4>1 DEF Arrives, EventKinds
    <3> QED BY <2>5, <3>3, <3>4 DEF Deliver
  <2> QED BY <1>4, <2>2, <2>3, <2>4, <2>5 DEF HostCall
<1>5. ASSUME NEW w \in Wakes, WakeStep(w) \/ ToolUpdates(w) PROVE EventKinds
  BY <1>1, <1>5 DEF WakeStep, RunBegins, RunEnds, ToolSaves, ToolUpdates, FinishWake,
                    FinishSaves, items, callers
<1>6. CASE LoopStep
  <2>0. Loop \in Threads /\ Loop \notin Hand
    BY ConstantsAssumption DEF Threads, Hand
  <2>1. CASE LoopLooks
    BY <1>1, <2>1 DEF LoopLooks, items, callers
  <2>2. CASE Save(Loop)
    <3>1. SameHands
      BY <1>0, <2>0, <2>2, HandsRest DEF Save, Return, InHands
    <3> QED BY <2>2, <3>1 DEF Save, items, EventKinds
  <2>3. CASE LoopStartsWake
    <3>1. PICK b \in batch : StartWake(Loop, b[1], b[2])
      BY <2>3 DEF LoopStartsWake
    <3>2. b[1] \in Ids
      BY DEF RestType
    <3> QED BY <2>0, <3>1, <3>2, StartWakeEvents
  <2> QED BY <1>6, <2>1, <2>2, <2>3 DEF LoopStep
<1>7. CASE Restart
  <2>1. Hand' = {}
    BY <1>0, <1>7 DEF Restart, Hand, InHands
  <2> QED BY <1>7, <2>1 DEF Restart, EventKinds
<1>8. ASSUME NEW i \in Ids, Look(i) \/ \E k \in Kinds : TimeComes(i, k)
      PROVE  EventKinds
  BY <1>1, <1>8 DEF Look, TimeComes, callers
<1>9. CASE NewDay
  BY <1>1, <1>9 DEF NewDay, items, callers
<1>10. CASE (\E t \in Hosts : pc[t] = "idle") /\ HostCall(FreeHost)
  <2>1. FreeHost \in Hosts
    BY <1>10 DEF FreeHost
  <2> QED BY <1>4, <1>10, <2>1
<1>11. CASE UNCHANGED vars
  BY <1>1, <1>11 DEF vars, items, callers
<1> QED BY <1>3, <1>5, <1>6, <1>7, <1>8, <1>9, <1>10, <1>11 DEF Next

\* What the hands hold and what is pending, in terms of hands and items.
LEMMA HandsAndQueues ==
  /\ \A x : x \in InHand <=> \E t \in Hand : ev[t] = x
  /\ \A x : x \in Waiting <=> \E i \in Ids : x \in pending[i]
BY DEF InHand, Waiting, Hand, InHands

LEMMA HandsAndQueuesNext ==
  /\ \A x : x \in InHand' <=> \E t \in Hand' : ev'[t] = x
  /\ \A x : x \in Waiting' <=> \E i \in Ids : x \in pending'[i]
BY DEF InHand, Waiting, Hand, InHands

LEMMA EventInit == Init => EventInv
BY DEF Init, EventInv, EventsAreKept, OneHand, OneItem, InHand, Waiting, Hand, InHands,
       Threads

\* The events that are in hand or pending after a step of each kind.
LEMMA EmptiedEvents ==
  ASSUME TypeInv, EventInv, NEW i \in Ids, Emptied(i)
  PROVE  EventInv'
<1> USE DEF EventInv
<1>0. pending \in [Ids -> SUBSET Events]
  BY DEF TypeInv, ItemsType
<1>1. InHand' = InHand
  BY HandsAndQueues, HandsAndQueuesNext DEF Emptied, SameHands
<1>2. \A j \in Ids : pending'[j] = IF j = i THEN {} ELSE pending[j]
  BY <1>0 DEF Emptied
<1>3. Waiting' = Waiting \ pending[i] /\ pending[i] \subseteq Waiting
  <2>1. ASSUME NEW x PROVE x \in Waiting' <=> x \in Waiting \ pending[i]
    BY <1>2, HandsAndQueues, HandsAndQueuesNext DEF OneItem
  <2> QED BY <2>1, HandsAndQueues
<1>4. EventsAreKept'
  BY <1>1, <1>3 DEF EventsAreKept, Emptied
<1>5. OneHand'
  BY DEF OneHand, Emptied, SameHands
<1>6. OneItem'
  BY <1>2 DEF OneItem
<1> QED BY <1>4, <1>5, <1>6

LEMMA ArrivedEvent ==
  ASSUME TypeInv, EventInv, NEW e \in Events, Arrives(e)
  PROVE  EventInv'
<1> USE DEF EventInv
<1>0. pending \in [Ids -> SUBSET Events]
  BY DEF TypeInv, ItemsType
<1>1. e \notin delivered /\ e \notin InHand /\ e \notin Waiting
  BY DEF Arrives, EventsAreKept
<1>2. CASE SameHands /\ \E i \in Ids : pending' = [pending EXCEPT ![i] = @ \cup {e}]
  <2>1. PICK i \in Ids : pending' = [pending EXCEPT ![i] = @ \cup {e}]
    BY <1>2
  <2>2. \A j \in Ids : pending'[j] = IF j = i THEN pending[j] \cup {e} ELSE pending[j]
    BY <1>0, <2>1
  <2>3. InHand' = InHand
    BY <1>2, HandsAndQueues, HandsAndQueuesNext DEF SameHands
  <2>4. Waiting' = Waiting \cup {e}
    <3>1. ASSUME NEW x PROVE x \in Waiting' <=> x \in Waiting \cup {e}
      BY <2>2, HandsAndQueues, HandsAndQueuesNext
    <3> QED BY <3>1
  <2>5. EventsAreKept'
    BY <1>1, <2>3, <2>4 DEF EventsAreKept, Arrives
  <2>6. OneHand'
    BY <1>2 DEF OneHand, SameHands
  <2>7. OneItem'
    <3>1. \A j \in Ids : e \notin pending[j]
      BY <1>1, HandsAndQueues
    <3> QED BY <2>2, <3>1 DEF OneItem
  <2> QED BY <2>5, <2>6, <2>7
<1>3. ASSUME NEW t \in Hosts \ Hand, Hand' = Hand \cup {t}, ev'[t] = e,
             \A u \in Hand : ev'[u] = ev[u], UNCHANGED pending
      PROVE  EventInv'
  <2>1. InHand' = InHand \cup {e}
    <3>1. ASSUME NEW x PROVE x \in InHand' <=> x \in InHand \cup {e}
      BY <1>3, HandsAndQueues, HandsAndQueuesNext
    <3> QED BY <3>1
  <2>2. Waiting' = Waiting
    BY <1>3, HandsAndQueues, HandsAndQueuesNext
  <2>3. EventsAreKept'
    BY <1>1, <2>1, <2>2 DEF EventsAreKept, Arrives
  <2>4. \A u \in Hand : ev[u] # e
    BY <1>1, HandsAndQueues
  <2>5. OneHand'
    BY <1>3, <2>4 DEF OneHand
  <2>6. OneItem'
    BY <1>3 DEF OneItem
  <2> QED BY <2>3, <2>5, <2>6
<1> QED BY <1>2, <1>3 DEF Arrives

LEMMA LetGoEvent ==
  ASSUME TypeInv, EventInv, NEW t \in Hand, LetsGo(t)
  PROVE  EventInv'
<1> USE DEF EventInv
<1>0. pending \in [Ids -> SUBSET Events]
  BY DEF TypeInv, ItemsType
<1>1. /\ ev[t] \in InHand /\ ev[t] \notin Waiting
      /\ ev[t] \notin briefed \cup steered \cup forgotten
      /\ ev[t] \in delivered
  BY HandsAndQueues DEF EventsAreKept
<1>2. InHand' = InHand \ {ev[t]}
  <2>1. ASSUME NEW x PROVE x \in InHand' <=> x \in InHand \ {ev[t]}
    <3>1. x \in InHand' <=> \E u \in Hand \ {t} : ev[u] = x
      BY HandsAndQueuesNext DEF LetsGo
    <3>2. \A u \in Hand \ {t} : ev[u] # ev[t]
      BY DEF OneHand
    <3> QED BY <3>1, <3>2, HandsAndQueues
  <2> QED BY <2>1
<1>3. OneHand'
  BY DEF OneHand, LetsGo
<1>4. CASE UNCHANGED pending
  <2>1. Waiting' = Waiting
    BY <1>4, HandsAndQueues, HandsAndQueuesNext
  <2>2. OneItem'
    BY <1>4 DEF OneItem
  <2>3. CASE steered' = steered \cup {ev[t]} /\ UNCHANGED <<delivered, briefed, forgotten>>
    <3>1. EventsAreKept'
      BY <1>1, <1>2, <2>1, <2>3 DEF EventsAreKept
    <3> QED BY <1>3, <2>2, <3>1
  <2>4. CASE forgotten' = forgotten \cup {ev[t]} /\ UNCHANGED <<delivered, briefed, steered>>
    <3>1. EventsAreKept'
      BY <1>1, <1>2, <2>1, <2>4 DEF EventsAreKept
    <3> QED BY <1>3, <2>2, <3>1
  <2>5. CASE UNCHANGED fates /\ \E i \in Ids : pending' = [pending EXCEPT ![i] = @ \cup {ev[t]}]
    <3>1. PICK i \in Ids : pending' = [pending EXCEPT ![i] = @ \cup {ev[t]}]
      BY <2>5
    <3>2. ev[t] \in pending'[i]
      BY <1>0, <3>1
    <3>3. ev[t] \in Waiting
      BY <1>4, <3>2, HandsAndQueues
    <3> QED BY <1>1, <3>3
  <2> QED BY <1>4, <2>3, <2>4, <2>5 DEF LetsGo, fates
<1>5. ASSUME NEW i \in Ids, pending' = [pending EXCEPT ![i] = @ \cup {ev[t]}],
             UNCHANGED <<delivered, briefed, steered, forgotten>>
      PROVE  EventInv'
  <2>1. \A j \in Ids : pending'[j] = IF j = i THEN pending[j] \cup {ev[t]} ELSE pending[j]
    BY <1>0, <1>5
  <2>2. Waiting' = Waiting \cup {ev[t]}
    <3>1. ASSUME NEW x PROVE x \in Waiting' <=> x \in Waiting \cup {ev[t]}
      BY <2>1, HandsAndQueues, HandsAndQueuesNext
    <3> QED BY <3>1
  <2>3. EventsAreKept'
    BY <1>1, <1>2, <1>5, <2>2 DEF EventsAreKept
  <2>4. OneItem'
    <3>1. \A j \in Ids : ev[t] \notin pending[j]
      BY <1>1, HandsAndQueues
    <3> QED BY <2>1, <3>1 DEF OneItem
  <2> QED BY <1>3, <2>3, <2>4
<1> QED BY <1>4, <1>5 DEF LetsGo

LEMMA EventStep == TypeInv /\ EventInv /\ [Next]_vars => EventInv'
<1> SUFFICES ASSUME TypeInv, EventInv, [Next]_vars PROVE EventInv'
  OBVIOUS
<1>1. CASE SameHands /\ UNCHANGED <<pending, fates>>
  <2>1. InHand' = InHand /\ Waiting' = Waiting
    BY <1>1, HandsAndQueues, HandsAndQueuesNext DEF SameHands
  <2>2. EventsAreKept'
    BY <1>1, <2>1 DEF EventInv, EventsAreKept, fates
  <2>3. OneHand' /\ OneItem'
    BY <1>1 DEF EventInv, OneHand, OneItem, SameHands
  <2> QED BY <2>2, <2>3 DEF EventInv
<1>2. CASE /\ Hand' = {} /\ \A i \in Ids : pending'[i] = {}
           /\ forgotten' = delivered \ (briefed \cup steered)
           /\ UNCHANGED <<delivered, briefed, steered>>
  <2>1. InHand' = {} /\ Waiting' = {}
    BY <1>2, HandsAndQueuesNext
  <2>2. EventsAreKept'
    BY <1>2, <2>1 DEF EventInv, EventsAreKept
  <2>3. OneHand' /\ OneItem'
    BY <1>2 DEF OneHand, OneItem
  <2> QED BY <2>2, <2>3 DEF EventInv
<1> QED BY <1>1, <1>2, EventSteps, EmptiedEvents, ArrivedEvent, LetGoEvent
        DEF EventKinds

\* An event that was delivered is in one place: in the hands of one Deliver,
\* pending at one item, in the brief of a wake, steered into one, or gone with
\* its item or the process (standing.go:381).
THEOREM NoEventIsLost == Spec => []EventsAreKept
<1>1. TypeInv /\ EventInv /\ [Next]_vars => (TypeInv /\ EventInv)'
  BY TypeStep, EventStep
<1>2. EventInv => EventsAreKept
  BY DEF EventInv
<1> QED BY <1>1, <1>2, TypeInit, EventInit, PTL DEF Spec
=============================================================================
