------------------------- MODULE ProviderPoolProofs -------------------------
(***************************************************************************)
(* A pool loses no slot and misses no release, for all calls, providers,   *)
(* limits and strategies, and however often the providers are changed.     *)
(***************************************************************************)
EXTENDS ProviderPool, FiniteSetTheorems, SequenceTheorems, TLAPS

HoldsAClient(c) ==
    phase[c] \in {"taking", "calling", "releasing", "signalling", "after"}

\* A call that has a client has one of a provider that was once in the pool.
HeldInv == \A c \in Calls : HoldsAClient(c) => holds[c] \in Wrappers

Known(w) == w \in Wrappers /\ w[2] <= made[w[1]]

\* Nobody has a wrapper that is still to be made, and none is counted on it.
OldInv ==
    /\ \A n \in Names : made[n] <= changes
    /\ \A c \in Calls : holds[c] = NoWrapper \/ Known(holds[c])
    /\ \A c \in Calls : \A i \in 1..Len(list[c]) : Known(list[c][i])
    /\ \A w \in Wrappers : ~Known(w) => active[w] = 0

\* Only acquire waits.
RouteInv == \A c \in Calls : phase[c] \in {"busy", "waiting"} => route[c] = "acquire"

CoreInv == TypeOK /\ HeldInv /\ OldInv /\ RouteInv

-----------------------------------------------------------------------------
LEMMA WrapperType ==
  ASSUME TypeOK, NEW n \in Names PROVE Wrapper(n) \in Wrappers /\ Known(Wrapper(n))
BY PoolAssumption DEF TypeOK, Wrapper, Wrappers, Known

LEMMA NoWrapperIsNone == NoWrapper \notin Wrappers
BY NamesAssumption DEF NoWrapper, Wrappers

LEMMA ListedAreNames == TypeOK => Listed \subseteq Names
BY DEF TypeOK, Listed, Range

LEMMA SelectedAreNames ==
  ASSUME TypeOK, NEW c \in Calls PROVE Selected(c) \subseteq Names
<1>1. Healthy \subseteq Names
  BY ListedAreNames DEF Healthy
<1> QED BY <1>1 DEF Selected, ByStrategy, First, LeastLoaded

LEMMA InitCore == Init => CoreInv
<1> SUFFICES ASSUME Init PROVE CoreInv
  OBVIOUS
<1>1. /\ made \in [Names -> 0..MaxChanges] /\ changes \in 0..MaxChanges
      /\ active \in [Wrappers -> Int]
  BY PoolAssumption DEF Init
<1>2. /\ phase \in [Calls -> Phases] /\ route \in [Calls -> Routes]
      /\ wish \in [Calls -> Names \cup {None}]
      /\ holds \in [Calls -> Wrappers \cup {NoWrapper}]
  BY DEF Init, Phases, Routes
<1>3. list \in [Calls -> Seq(Wrappers)] /\ order \in Seq(Names)
  BY PoolAssumption DEF Init
<1>4. TypeOK
  BY <1>1, <1>2, <1>3 DEF Init, TypeOK
<1>5. HeldInv /\ RouteInv
  BY DEF Init, HeldInv, HoldsAClient, RouteInv
<1>6. OldInv
  BY DEF Init, OldInv
<1> QED BY <1>4, <1>5, <1>6 DEF CoreInv

\* What a call returns with.
LEMMA ReturnsType ==
  ASSUME TypeOK, NEW c \in Calls, Returns(c)
  PROVE  /\ phase' \in [Calls -> Phases] /\ route' \in [Calls -> Routes]
         /\ wish' \in [Calls -> Names \cup {None}]
         /\ holds' \in [Calls -> Wrappers \cup {NoWrapper}]
         /\ list' \in [Calls -> Seq(Wrappers)]
         /\ told' \subseteq Calls /\ ended' \subseteq Calls
         /\ answered' \subseteq Calls /\ overtaken' \subseteq Calls
BY DEF TypeOK, Returns, Goes, Phases, Routes

LEMMA ReturnsCore ==
  ASSUME CoreInv, NEW c \in Calls, Returns(c), UNCHANGED providers,
         active' = active, cooling' \in SUBSET Wrappers
  PROVE  CoreInv'
<1>1. TypeOK'
  BY ReturnsType DEF CoreInv, TypeOK, providers
<1>2. HeldInv'
  BY DEF CoreInv, TypeOK, HeldInv, HoldsAClient, Returns, Goes
<1>3. OldInv'
  BY DEF CoreInv, TypeOK, OldInv, Known, Returns, providers
<1>4. RouteInv'
  BY DEF CoreInv, TypeOK, RouteInv, Returns, Goes
<1> QED BY <1>1, <1>2, <1>3, <1>4 DEF CoreInv

LEMMA AskCore ==
  ASSUME CoreInv, NEW c \in Calls, Ask(c) PROVE CoreInv'
<1> PICK r \in Asks[c], n \in Names \cup {None}, p \in Phases :
      /\ route' = [route EXCEPT ![c] = r]
      /\ wish' = [wish EXCEPT ![c] = n]
      /\ phase' = [phase EXCEPT ![c] = p]
      /\ p \in {"choosing", "listening", "trying"}
  BY DEF Ask, Goes, Phases
<1>1. r \in Routes
  BY PoolAssumption
<1>2. TypeOK'
  BY <1>1 DEF CoreInv, TypeOK, Ask, providers
<1>3. HeldInv'
  BY DEF CoreInv, TypeOK, HeldInv, HoldsAClient, Ask
<1>4. OldInv'
  BY DEF CoreInv, TypeOK, OldInv, Known, Ask, providers
<1>5. RouteInv'
  BY DEF CoreInv, TypeOK, RouteInv
<1> QED BY <1>2, <1>3, <1>4, <1>5 DEF CoreInv

LEMMA ListenCore ==
  ASSUME CoreInv, NEW c \in Calls, Listen(c) PROVE CoreInv'
<1>1. TypeOK'
  BY DEF CoreInv, TypeOK, Listen, Goes, Phases, Routes, providers
<1>2. HeldInv'
  BY DEF CoreInv, TypeOK, HeldInv, HoldsAClient, Listen, Goes
<1>3. OldInv'
  BY DEF CoreInv, TypeOK, OldInv, Known, Listen, providers
<1>4. RouteInv'
  BY DEF CoreInv, TypeOK, RouteInv, Listen, Goes
<1> QED BY <1>1, <1>2, <1>3, <1>4 DEF CoreInv

LEMMA TakeCore ==
  ASSUME CoreInv, NEW c \in Calls, Take(c) PROVE CoreInv'
<1>1. holds[c] \in Wrappers /\ Known(holds[c])
  BY NoWrapperIsNone DEF CoreInv, HeldInv, HoldsAClient, OldInv, Take
<1>2. active' \in [Wrappers -> Int]
  BY <1>1 DEF CoreInv, TypeOK, Take
<1>3. \A w \in Wrappers : w # holds[c] => active'[w] = active[w]
  BY DEF CoreInv, TypeOK, Take
<1>4. TypeOK'
  BY <1>2 DEF CoreInv, TypeOK, Take, Goes, Phases, providers
<1>5. HeldInv'
  BY DEF CoreInv, TypeOK, HeldInv, HoldsAClient, Take, Goes
<1>6. OldInv'
  BY <1>1, <1>3 DEF CoreInv, OldInv, Known, Take, providers
<1>7. RouteInv'
  BY DEF CoreInv, TypeOK, RouteInv, Take, Goes
<1> QED BY <1>4, <1>5, <1>6, <1>7 DEF CoreInv

LEMMA WaitCore ==
  ASSUME CoreInv, NEW c \in Calls, Wait(c) PROVE CoreInv'
<1>1. TypeOK'
  BY DEF CoreInv, TypeOK, Wait, Goes, Phases, Routes, providers, OnWaiting
<1>2. HeldInv'
  BY DEF CoreInv, TypeOK, HeldInv, HoldsAClient, Wait, Goes, OnWaiting
<1>3. OldInv'
  BY DEF CoreInv, TypeOK, OldInv, Known, Wait, providers, OnWaiting
<1>4. RouteInv'
  BY DEF CoreInv, TypeOK, RouteInv, Wait, Goes, OnWaiting
<1> QED BY <1>1, <1>2, <1>3, <1>4 DEF CoreInv

LEMMA ReplyCore ==
  ASSUME CoreInv, NEW c \in Calls, Reply(c) PROVE CoreInv'
<1>1. TypeOK'
  BY DEF CoreInv, TypeOK, Reply, Goes, Phases, Routes, providers
<1>2. HeldInv'
  BY DEF CoreInv, TypeOK, HeldInv, HoldsAClient, Reply, Goes
<1>3. OldInv'
  BY DEF CoreInv, TypeOK, OldInv, Known, Reply, providers
<1>4. RouteInv'
  BY DEF CoreInv, TypeOK, RouteInv, Reply, Goes
<1> QED BY <1>1, <1>2, <1>3, <1>4 DEF CoreInv

LEMMA GivenBackType ==
  ASSUME CoreInv, NEW c \in Calls, phase[c] = "releasing"
  PROVE  /\ holds[c] \in Wrappers /\ holds[c][1] \in Names
         /\ GivenBack(c) \in Wrappers /\ Known(GivenBack(c))
<1>1. holds[c] \in Wrappers /\ holds[c][1] \in Names
  BY DEF CoreInv, HeldInv, HoldsAClient, Wrappers
<1> QED BY <1>1, WrapperType DEF CoreInv, GivenBack

LEMMA ReleaseCore ==
  ASSUME CoreInv, NEW c \in Calls, Release(c) PROVE CoreInv'
<1>1. GivenBack(c) \in Wrappers /\ Known(GivenBack(c))
  BY GivenBackType DEF Release
<1>2. active' \in [Wrappers -> Int]
  BY <1>1 DEF CoreInv, TypeOK, Release
<1>3. \A w \in Wrappers : w # GivenBack(c) => active'[w] = active[w]
  BY DEF CoreInv, TypeOK, Release
<1> PICK p \in {"after", "signalling"} : phase' = [phase EXCEPT ![c] = p]
  BY DEF Release, Goes
<1>4. TypeOK'
  BY <1>2 DEF CoreInv, TypeOK, Release, Phases, providers, caller
<1>5. HeldInv'
  BY DEF CoreInv, TypeOK, HeldInv, HoldsAClient, Release, caller
<1>6. OldInv'
  BY <1>1, <1>3 DEF CoreInv, OldInv, Known, Release, providers, caller
<1>7. RouteInv'
  BY DEF CoreInv, TypeOK, RouteInv, Release, caller
<1> QED BY <1>4, <1>5, <1>6, <1>7 DEF CoreInv

LEMMA SignalFreedCore ==
  ASSUME CoreInv, NEW c \in Calls, SignalFreed(c) PROVE CoreInv'
<1>1. TypeOK'
  BY DEF CoreInv, TypeOK, SignalFreed, Goes, Phases, Routes, providers, Listeners
<1>2. HeldInv'
  BY DEF CoreInv, TypeOK, HeldInv, HoldsAClient, SignalFreed, Goes, Listeners
<1>3. OldInv'
  BY DEF CoreInv, TypeOK, OldInv, Known, SignalFreed, providers, Listeners
<1>4. RouteInv'
  BY DEF CoreInv, TypeOK, RouteInv, SignalFreed, Goes, Listeners
<1> QED BY <1>1, <1>2, <1>3, <1>4 DEF CoreInv

LEMMA GiveUpCore ==
  ASSUME CoreInv, NEW c \in Calls, GiveUp(c) PROVE CoreInv'
<1>1. TypeOK'
  BY DEF CoreInv, TypeOK, GiveUp, Goes, Phases, Routes, providers, HoldsAClient
<1>2. HeldInv'
  BY DEF CoreInv, TypeOK, HeldInv, HoldsAClient, GiveUp, Goes, HoldsAClient
<1>3. OldInv'
  BY DEF CoreInv, TypeOK, OldInv, Known, GiveUp, providers, HoldsAClient
<1>4. RouteInv'
  BY DEF CoreInv, TypeOK, RouteInv, GiveUp, Goes, HoldsAClient
<1> QED BY <1>1, <1>2, <1>3, <1>4 DEF CoreInv

\* A call has a client of a known wrapper, which may have been counted.
LEMMA HoldCore ==
  ASSUME CoreInv, NEW c \in Calls, NEW w \in Wrappers, Known(w),
         NEW p \in {"taking", "calling"},
         phase' = [phase EXCEPT ![c] = p], holds' = [holds EXCEPT ![c] = w],
         active' = active \/ active' = [active EXCEPT ![w] = @ + 1],
         list' \in [Calls -> Seq(Wrappers)],
         \A d \in Calls : \A i \in 1..Len(list'[d]) : Known(list'[d][i]),
         UNCHANGED <<providers, cooling, route, wish, told, ended, answered, overtaken>>
  PROVE  CoreInv'
<1>1. active' \in [Wrappers -> Int] /\ \A v \in Wrappers : v # w => active'[v] = active[v]
  BY DEF CoreInv, TypeOK
<1>2. TypeOK'
  BY <1>1 DEF CoreInv, TypeOK, Phases, providers
<1>3. HeldInv'
  BY DEF CoreInv, TypeOK, HeldInv, HoldsAClient
<1>4. \A v : Known(v)' <=> Known(v)
  BY DEF Known, providers
<1>5. OldInv'
  BY <1>1, <1>4 DEF CoreInv, TypeOK, OldInv, providers
<1>6. RouteInv'
  BY DEF CoreInv, TypeOK, RouteInv
<1> QED BY <1>2, <1>3, <1>5, <1>6 DEF CoreInv

LEMMA LookCore ==
  ASSUME CoreInv, NEW c \in Calls, Look(c) PROVE CoreInv'
<1>1. CASE Healthy # {} /\ phase' = [phase EXCEPT ![c] = "taking"]
                        /\ UNCHANGED <<route, wish, list, told, ended, answered, overtaken>>
                        /\ \E n \in Selected(c) : holds' = [holds EXCEPT ![c] = Wrapper(n)]
  <2> PICK n \in Selected(c) : holds' = [holds EXCEPT ![c] = Wrapper(n)]
    BY <1>1
  <2>1. Wrapper(n) \in Wrappers /\ Known(Wrapper(n))
    BY SelectedAreNames, WrapperType DEF CoreInv
  <2>2. list' \in [Calls -> Seq(Wrappers)]
        /\ \A d \in Calls : \A i \in 1..Len(list'[d]) : Known(list'[d][i])
    BY <1>1 DEF CoreInv, TypeOK, OldInv
  <2> QED BY <1>1, <2>1, <2>2, HoldCore DEF Look
<1>2. CASE phase' = [phase EXCEPT ![c] = "busy"] /\ route[c] = "acquire" /\ UNCHANGED caller
  <2>1. TypeOK'
    BY <1>2 DEF CoreInv, TypeOK, Look, Phases, providers, caller
  <2>2. HeldInv' /\ RouteInv'
    BY <1>2 DEF CoreInv, TypeOK, HeldInv, HoldsAClient, RouteInv, caller
  <2>3. OldInv'
    BY <1>2 DEF CoreInv, OldInv, Known, Look, providers, caller
  <2> QED BY <2>1, <2>2, <2>3 DEF CoreInv
<1>3. CASE Returns(c)
  BY <1>3, ReturnsCore DEF Look, CoreInv, TypeOK
<1> QED BY <1>1, <1>2, <1>3 DEF Look, Goes

LEMMA TakeByNameCore ==
  ASSUME CoreInv, NEW c \in Calls, TakeByName(c) PROVE CoreInv'
<1>1. CASE Returns(c) /\ UNCHANGED active
  BY <1>1, ReturnsCore DEF TakeByName, CoreInv, TypeOK
<1>2. CASE wish[c] \in Listed /\ ~(Returns(c) /\ UNCHANGED active)
  <2>1. Wrapper(wish[c]) \in Wrappers /\ Known(Wrapper(wish[c]))
    BY <1>2, ListedAreNames, WrapperType DEF CoreInv
  <2>2. list' \in [Calls -> Seq(Wrappers)]
        /\ \A d \in Calls : \A i \in 1..Len(list'[d]) : Known(list'[d][i])
    BY <1>2 DEF TakeByName, CoreInv, TypeOK, OldInv
  <2> QED BY <1>2, <2>1, <2>2, HoldCore DEF TakeByName, Goes
<1> QED BY <1>1, <1>2 DEF TakeByName

LEMMA WakeCore ==
  ASSUME CoreInv, NEW c \in Calls, Wake(c) PROVE CoreInv'
<1>1. CASE Goes(c, "listening") /\ UNCHANGED caller
  <2>1. TypeOK'
    BY <1>1 DEF CoreInv, TypeOK, Wake, Goes, Phases, providers, caller
  <2>2. HeldInv' /\ RouteInv'
    BY <1>1 DEF CoreInv, TypeOK, HeldInv, HoldsAClient, RouteInv, Goes, caller
  <2>3. OldInv'
    BY <1>1 DEF CoreInv, OldInv, Known, Wake, providers, caller
  <2> QED BY <2>1, <2>2, <2>3 DEF CoreInv
<1>2. CASE Returns(c)
  BY <1>2, ReturnsCore DEF Wake, CoreInv, TypeOK
<1> QED BY <1>1, <1>2 DEF Wake

LEMMA NextCandidateCore ==
  ASSUME CoreInv, NEW c \in Calls, NextCandidate(c) PROVE CoreInv'
<1>1. CASE Returns(c) /\ UNCHANGED active
  BY <1>1, ReturnsCore DEF NextCandidate, CoreInv, TypeOK
<1>2. CASE list[c] # << >> /\ ~(Returns(c) /\ UNCHANGED active)
  <2>1. list[c] \in Seq(Wrappers) /\ list[c] # << >>
    BY <1>2 DEF CoreInv, TypeOK
  <2>2. Head(list[c]) = list[c][1] /\ 1 \in 1..Len(list[c])
    BY <2>1
  <2>3. Head(list[c]) \in Wrappers /\ Known(Head(list[c]))
    BY <2>1, <2>2 DEF CoreInv, OldInv, Known
  <2>4. Tail(list[c]) \in Seq(Wrappers)
        /\ \A i \in 1..Len(Tail(list[c])) : Tail(list[c])[i] = list[c][i + 1] /\ i + 1 \in 1..Len(list[c])
    BY <2>1
  <2>5. list' = [list EXCEPT ![c] = Tail(list[c])]
    BY <1>2 DEF NextCandidate
  <2>6. list' \in [Calls -> Seq(Wrappers)]
    BY <2>4, <2>5 DEF CoreInv, TypeOK
  <2>7. \A d \in Calls : \A i \in 1..Len(list'[d]) : Known(list'[d][i])
    BY <2>4, <2>5 DEF CoreInv, TypeOK, OldInv
  <2> QED BY <1>2, <2>3, <2>6, <2>7, HoldCore DEF NextCandidate, Goes
<1> QED BY <1>1, <1>2 DEF NextCandidate

LEMMA ChooseCore ==
  ASSUME CoreInv, NEW c \in Calls, Choose(c) PROVE CoreInv'
<1> PICK p \in {"listening", "between"} : phase' = [phase EXCEPT ![c] = p]
  BY DEF Choose, Goes
<1>1. route' \in [Calls -> Routes]
  BY DEF Choose, CoreInv, TypeOK, Routes
<1>2. list' \in [Calls -> Seq(Wrappers)]
      /\ \A d \in Calls : \A i \in 1..Len(list'[d]) : Known(list'[d][i])
  <2>1. CASE UNCHANGED list
    BY <2>1 DEF CoreInv, TypeOK, OldInv
  <2>2. CASE \E names \in SetToSeqs(Healthy) :
               list' = [list EXCEPT ![c] = [i \in DOMAIN names |-> Wrapper(names[i])]]
    <3> PICK names \in SetToSeqs(Healthy) :
               list' = [list EXCEPT ![c] = [i \in DOMAIN names |-> Wrapper(names[i])]]
      BY <2>2
    <3> DEFINE k == Cardinality(Healthy)
    <3>1. names \in [1..k -> Healthy]
      BY DEF SetToSeqs
    <3>2. IsFiniteSet(Healthy) /\ k \in Nat
      <4>1. IsFiniteSet(Listed)
        <5>1. order \in [1..Len(order) -> Names] /\ Len(order) \in Nat
          BY DEF CoreInv, TypeOK
        <5>2. IsFiniteSet(1..Len(order))
          BY <5>1, FS_Interval
        <5>3. Listed = {order[i] : i \in 1..Len(order)}
          BY <5>1 DEF Listed, Range
        <5>4. order \in Surjection(1..Len(order), Listed)
          BY <5>1, <5>3 DEF Surjection
        <5> QED BY <5>2, <5>4, FS_Surjection
      <4> QED BY <4>1, FS_Subset, FS_CardinalityType DEF Healthy
    <3>3. Healthy \subseteq Names
      BY ListedAreNames DEF Healthy, CoreInv
    <3> HIDE DEF k
    <3>4. [i \in DOMAIN names |-> Wrapper(names[i])] \in [1..k -> Wrappers]
      BY <3>1, <3>3, WrapperType DEF CoreInv
    <3>5. \A i \in 1..k : Known([j \in DOMAIN names |-> Wrapper(names[j])][i])
      BY <3>1, <3>3, WrapperType DEF CoreInv
    <3>6. PICK l : l = [i \in DOMAIN names |-> Wrapper(names[i])]
      OBVIOUS
    <3>7. l \in Seq(Wrappers) /\ Len(l) = k /\ \A i \in 1..k : Known(l[i])
      BY <3>2, <3>4, <3>5, <3>6
    <3>8. list' = [list EXCEPT ![c] = l]
      BY <3>6
    <3> QED BY <3>7, <3>8 DEF CoreInv, TypeOK, OldInv
  <2> QED BY <2>1, <2>2 DEF Choose
<1>3. TypeOK'
  BY <1>1, <1>2 DEF CoreInv, TypeOK, Choose, Phases, providers
<1>4. HeldInv'
  BY DEF CoreInv, TypeOK, HeldInv, HoldsAClient, Choose
<1>5. \A v : Known(v)' <=> Known(v)
  BY DEF Choose, Known, providers
<1>6. OldInv'
  BY <1>2, <1>5 DEF CoreInv, OldInv, Choose, providers
<1>7. RouteInv'
  BY DEF CoreInv, TypeOK, RouteInv, Choose
<1> QED BY <1>3, <1>4, <1>6, <1>7 DEF CoreInv

LEMMA AfterTurnCore ==
  ASSUME CoreInv, NEW c \in Calls, AfterTurn(c) PROVE CoreInv'
<1>1. holds[c] \in Wrappers
  BY DEF CoreInv, HeldInv, HoldsAClient, AfterTurn
<1>2. CASE Returns(c)
  <2>1. cooling' \in SUBSET Wrappers
    BY <1>1 DEF AfterTurn, CoreInv, TypeOK
  <2> QED BY <1>2, <2>1, ReturnsCore DEF AfterTurn
<1>3. CASE /\ cooling' = cooling \cup {holds[c]} /\ Goes(c, "between")
           /\ holds' = [holds EXCEPT ![c] = NoWrapper]
           /\ UNCHANGED <<route, wish, list, told, ended, answered, overtaken>>
  <2>1. TypeOK'
    BY <1>1, <1>3 DEF CoreInv, TypeOK, AfterTurn, Goes, Phases, providers
  <2>2. HeldInv' /\ RouteInv'
    BY <1>3 DEF CoreInv, TypeOK, HeldInv, HoldsAClient, RouteInv, Goes
  <2>3. OldInv'
    BY <1>3 DEF CoreInv, TypeOK, OldInv, Known, AfterTurn, providers
  <2> QED BY <2>1, <2>2, <2>3 DEF CoreInv
<1> QED BY <1>2, <1>3 DEF AfterTurn

LEMMA CoolDownCore ==
  ASSUME CoreInv, NEW w \in Wrappers, CoolDown(w) PROVE CoreInv'
<1>1. TypeOK'
  BY DEF CoreInv, TypeOK, CoolDown, providers
<1>2. HeldInv' /\ RouteInv'
  BY DEF CoreInv, HeldInv, HoldsAClient, RouteInv, CoolDown
<1>3. OldInv'
  BY DEF CoreInv, OldInv, Known, CoolDown, providers
<1> QED BY <1>1, <1>2, <1>3 DEF CoreInv

\* A change makes at most one wrapper, which is newer than all others.
LEMMA ChangeCore ==
  ASSUME CoreInv, Change, order' \in Seq(Names),
         made' = made \/ \E n \in Names : made' = [made EXCEPT ![n] = changes']
  PROVE  CoreInv'
<1>1. changes \in 0..MaxChanges /\ changes' = changes + 1 /\ changes' \in 0..MaxChanges
  BY PoolAssumption DEF Change, CoreInv, TypeOK
<1>2. made' \in [Names -> 0..MaxChanges]
  BY <1>1 DEF CoreInv, TypeOK
<1>3. \A n \in Names : made[n] <= made'[n] /\ made'[n] <= changes'
  <2>1. CASE made' = made
    BY <1>1, <2>1 DEF CoreInv, TypeOK, OldInv
  <2>2. CASE \E n \in Names : made' = [made EXCEPT ![n] = changes']
    <3> PICK n \in Names : made' = [made EXCEPT ![n] = changes']
      BY <2>2
    <3>1. \A m \in Names : made'[m] = IF m = n THEN changes' ELSE made[m]
      BY DEF CoreInv, TypeOK
    <3>2. \A m \in Names : made[m] \in Nat /\ made[m] <= changes
      BY DEF CoreInv, TypeOK, OldInv
    <3> QED BY <1>1, <3>1, <3>2
  <2> QED BY <2>1, <2>2
<1>4. \A w : Known(w) => Known(w)'
  <2> SUFFICES ASSUME NEW w, Known(w) PROVE w[2] <= made'[w[1]]
    BY DEF Known
  <2>1. w[1] \in Names /\ w[2] \in 0..MaxChanges /\ w[2] <= made[w[1]]
    BY DEF Known, Wrappers
  <2> QED BY <1>2, <1>3, <2>1 DEF CoreInv, TypeOK
<1>5. TypeOK'
  BY <1>1, <1>2 DEF CoreInv, TypeOK, Change, Listeners
<1>6. HeldInv' /\ RouteInv'
  BY DEF CoreInv, HeldInv, HoldsAClient, RouteInv, Change
<1>7. OldInv'
  BY <1>3, <1>4 DEF CoreInv, OldInv, Change
<1> QED BY <1>5, <1>6, <1>7 DEF CoreInv

LEMMA PartOf ==
  ASSUME NEW s \in Seq(Names), NEW m \in 1..(Len(s) + 1), NEW n \in 0..Len(s)
  PROVE  /\ SubSeq(s, m, n) \in Seq(Names)
         /\ Range(SubSeq(s, m, n)) \subseteq Range(s)
<1>1. \A i \in m..n : s[i] \in Names
  OBVIOUS
<1>2. /\ SubSeq(s, m, n) \in Seq(Names)
      /\ Len(SubSeq(s, m, n)) = IF m <= n THEN n-m+1 ELSE 0
      /\ \A i \in 1 .. n-m+1 : SubSeq(s, m, n)[i] = s[m+i-1]
  BY <1>1, SubSeqProperties
<1>3. ASSUME NEW i \in DOMAIN SubSeq(s, m, n)
      PROVE  m+i-1 \in DOMAIN s /\ SubSeq(s, m, n)[i] = s[m+i-1]
  <2>1. i \in 1..Len(SubSeq(s, m, n))
    BY <1>2
  <2> QED BY <1>2, <2>1
<1> QED BY <1>2, <1>3 DEF Range

LEMMA Joined ==
  ASSUME NEW a \in Seq(Names), NEW b \in Seq(Names)
  PROVE  a \o b \in Seq(Names) /\ Range(a \o b) \subseteq Range(a) \cup Range(b)
<1>1. /\ a \o b \in Seq(Names)
      /\ Len(a \o b) = Len(a) + Len(b)
      /\ \A i \in 1..(Len(a) + Len(b)) :
           (a \o b)[i] = IF i <= Len(a) THEN a[i] ELSE b[i - Len(a)]
  BY ConcatProperties
<1>2. ASSUME NEW i \in DOMAIN (a \o b)
      PROVE  (a \o b)[i] \in Range(a) \cup Range(b)
  <2>1. i \in 1..(Len(a) + Len(b))
    BY <1>1
  <2>2. CASE i <= Len(a)
    BY <1>1, <2>1, <2>2 DEF Range
  <2>3. CASE i > Len(a)
    <3>1. i - Len(a) \in DOMAIN b
      BY <2>1, <2>3
    <3> QED BY <1>1, <2>1, <2>3, <3>1 DEF Range
  <2> QED BY <2>1, <2>2, <2>3
<1> QED BY <1>1, <1>2 DEF Range

LEMMA Removed ==
  ASSUME NEW s \in Seq(Names), NEW i \in DOMAIN s
  PROVE  RemoveAt(s, i) \in Seq(Names) /\ Range(RemoveAt(s, i)) \subseteq Range(s)
<1>1. i \in 1..Len(s) /\ Len(s) \in Nat
  OBVIOUS
<1>2. /\ SubSeq(s, 1, i-1) \in Seq(Names) /\ SubSeq(s, i+1, Len(s)) \in Seq(Names)
      /\ Range(SubSeq(s, 1, i-1)) \subseteq Range(s)
      /\ Range(SubSeq(s, i+1, Len(s))) \subseteq Range(s)
  BY <1>1, PartOf
<1>3. Range(SubSeq(s, 1, i-1) \o SubSeq(s, i+1, Len(s)))
        \subseteq Range(SubSeq(s, 1, i-1)) \cup Range(SubSeq(s, i+1, Len(s)))
  BY <1>2, Joined, Zenon
<1> QED BY <1>2, <1>3, Joined DEF RemoveAt

LEMMA NextCore == ASSUME CoreInv, [Next]_vars PROVE CoreInv'
<1>1. CASE UNCHANGED vars
  <2>1. TypeOK'
    BY <1>1 DEF vars, CoreInv, TypeOK
  <2>2. HeldInv' /\ RouteInv' /\ OldInv'
    BY <1>1 DEF vars, CoreInv, HeldInv, HoldsAClient, RouteInv, OldInv, Known
  <2> QED BY <2>1, <2>2 DEF CoreInv
<1>2. ASSUME NEW c \in Calls, Ask(c) \/ Step(c) \/ GiveUp(c) PROVE CoreInv'
  BY <1>2, AskCore, ListenCore, LookCore, TakeCore, TakeByNameCore, WaitCore, WakeCore,
     ChooseCore, NextCandidateCore, ReplyCore, ReleaseCore, SignalFreedCore, AfterTurnCore,
     GiveUpCore DEF Step
<1>3. ASSUME NEW w \in Wrappers, CoolDown(w) PROVE CoreInv'
  BY <1>3, CoolDownCore
<1>4. ASSUME NEW n \in Names, AddProvider(n) \/ UpdateProvider(n) PROVE CoreInv'
  <2>1. order' \in Seq(Names)
    <3>1. order \in Seq(Names)
      BY DEF CoreInv, TypeOK
    <3>2. order' = Append(order, n) \/ order' = order
      BY <1>4 DEF AddProvider, UpdateProvider
    <3> QED BY <3>1, <3>2, AppendProperties
  <2>2. Change /\ (made' = made \/ \E m \in Names : made' = [made EXCEPT ![m] = changes'])
    BY <1>4 DEF AddProvider, UpdateProvider
  <2> QED BY <2>1, <2>2, ChangeCore
<1>5. ASSUME NEW i \in DOMAIN order, RemoveProvider(i) PROVE CoreInv'
  BY <1>5, Removed, ChangeCore DEF RemoveProvider, CoreInv, TypeOK
<1> QED BY <1>1, <1>2, <1>3, <1>4, <1>5 DEF Next

-----------------------------------------------------------------------------
(***************************************************************************)
(* Waiting.  A step that makes no room and leaves the waits of the others  *)
(* as they are keeps the invariant; Release makes room and is about to say *)
(* so; SignalFreed tells every call that waits.                            *)
(***************************************************************************)
Waiting(c) == phase[c] \in {"busy", "waiting"}

LEMMA NoRoomIsMade ==
  ASSUME CoreInv, WaitersAreTold, NEW c \in Calls,
         Healthy' \subseteq Healthy,
         \A d \in Calls \ {c} :
           phase'[d] = phase[d] /\ (d \in told \cup overtaken => d \in (told \cup overtaken)'),
         Waiting(c)' => \/ Waiting(c) /\ (c \in told \cup overtaken => c \in (told \cup overtaken)')
                        \/ Healthy = {},
         phase[c] # "signalling"
  PROVE  WaitersAreTold'
<1> SUFFICES ASSUME NEW d \in Calls, Waiting(d)', d \notin (told \cup overtaken)', Healthy' # {}
             PROVE  \E e \in Calls : phase'[e] = "signalling"
  BY DEF WaitersAreTold, Waiting
<1>1. Healthy # {}
  OBVIOUS
<1>2. Waiting(d) /\ d \notin told \cup overtaken
  BY <1>1 DEF Waiting
<1>3. PICK e \in Calls : phase[e] = "signalling"
  BY <1>1, <1>2 DEF WaitersAreTold, Waiting
<1>4. e # c
  BY <1>3
<1> QED BY <1>3, <1>4

LEMMA RoomOnlyShrinks ==
  ASSUME CoreInv, UNCHANGED providers,
         active' = active
           \/ \E w \in Wrappers : active' = [active EXCEPT ![w] = @ + 1]
  PROVE  Healthy' \subseteq Healthy
<1> SUFFICES ASSUME NEW n \in Healthy' PROVE n \in Healthy
  OBVIOUS
<1>1. n \in Listed /\ n \in Names /\ Wrapper(n)' = Wrapper(n)
  BY ListedAreNames DEF Healthy, Listed, providers, Wrapper, CoreInv
<1>2. Wrapper(n) \in Wrappers
  BY <1>1, WrapperType DEF CoreInv
<1>3. active'[Wrapper(n)] < Limit[n] /\ Limit[n] \in Nat
  BY <1>1, PoolAssumption DEF Healthy
<1>4. active[Wrapper(n)] <= active'[Wrapper(n)] /\ active[Wrapper(n)] \in Int
  <2>1. active \in [Wrappers -> Int]
    BY DEF CoreInv, TypeOK
  <2>2. \A v \in Wrappers : active[v] \in Int /\ active[v] <= active'[v]
    BY <2>1
  <2> QED BY <1>2, <2>2
<1>5. active'[Wrapper(n)] \in Int
  BY <1>2 DEF CoreInv, TypeOK
<1> QED BY <1>1, <1>3, <1>4, <1>5 DEF Healthy

LEMMA ReturnsTold ==
  ASSUME CoreInv, WaitersAreTold, NEW c \in Calls, Returns(c), phase[c] # "signalling",
         UNCHANGED providers, active' = active
  PROVE  WaitersAreTold'
<1>1. Healthy' \subseteq Healthy
  BY RoomOnlyShrinks
<1>2. \A d \in Calls \ {c} :
         phase'[d] = phase[d] /\ (d \in told \cup overtaken => d \in (told \cup overtaken)')
  BY DEF Returns, Goes, CoreInv, TypeOK
<1>3. ~Waiting(c)'
  BY DEF Returns, Goes, CoreInv, TypeOK, Waiting
<1> QED BY <1>1, <1>2, <1>3, NoRoomIsMade

LEMMA NextTold ==
  ASSUME CoreInv, WaitersAreTold, [Next]_vars PROVE WaitersAreTold'
<1> USE DEF Goes
<1>1. CASE UNCHANGED vars
  BY <1>1 DEF vars, WaitersAreTold, Healthy, Listed, Wrapper
<1>2. ASSUME NEW c \in Calls,
             Ask(c) \/ Listen(c) \/ Take(c) \/ Wait(c) \/ Reply(c) \/ GiveUp(c) \/ Choose(c)
      PROVE  WaitersAreTold'
  <2>1. UNCHANGED providers
    BY <1>2 DEF Ask, Listen, Take, Wait, Reply, GiveUp, Choose
  <2>2. Healthy' \subseteq Healthy
    <3>1. Take(c) => holds[c] \in Wrappers
      BY DEF Take, CoreInv, HeldInv, HoldsAClient
    <3> QED BY <1>2, <2>1, <3>1, RoomOnlyShrinks
            DEF Ask, Listen, Take, Wait, Reply, GiveUp, Choose
  <2>3. \A d \in Calls \ {c} :
          phase'[d] = phase[d] /\ (d \in told \cup overtaken => d \in (told \cup overtaken)')
    BY <1>2 DEF Ask, Listen, Take, Wait, Reply, GiveUp, Choose, OnWaiting, CoreInv, TypeOK
  <2>4. Waiting(c)' => Waiting(c) /\ (c \in told \cup overtaken => c \in (told \cup overtaken)')
    BY <1>2 DEF Ask, Listen, Take, Wait, Reply, GiveUp, Choose, OnWaiting, CoreInv, TypeOK,
                Waiting
  <2>5. CASE GiveUp(c) /\ phase[c] = "signalling"
    BY <2>1, <2>5 DEF GiveUp, WaitersAreTold, Healthy, Listed, Wrapper, providers
  <2>6. CASE ~(GiveUp(c) /\ phase[c] = "signalling")
    <3>1. phase[c] # "signalling"
      BY <1>2, <2>6 DEF Ask, Listen, Take, Wait, Reply, Choose
    <3> QED BY <2>2, <2>3, <2>4, <3>1, NoRoomIsMade
  <2> QED BY <2>5, <2>6
<1>3. ASSUME NEW c \in Calls, Look(c) \/ Wake(c) \/ AfterTurn(c) \/ TakeByName(c) \/ NextCandidate(c)
      PROVE  WaitersAreTold'
  <2>1. UNCHANGED providers /\ phase[c] # "signalling"
    BY <1>3 DEF Look, Wake, AfterTurn, TakeByName, NextCandidate
  <2>2. CASE Returns(c) /\ UNCHANGED active
    BY <2>1, <2>2, ReturnsTold
  <2>3. CASE ~(Returns(c) /\ UNCHANGED active)
    <3>1. Healthy' \subseteq Healthy
      <4>1. TakeByName(c) /\ wish[c] \in Listed => Wrapper(wish[c]) \in Wrappers
        BY ListedAreNames, WrapperType DEF CoreInv
      <4>2. NextCandidate(c) /\ list[c] # << >> => Head(list[c]) \in Wrappers
        BY DEF CoreInv, TypeOK
      <4> QED BY <1>3, <2>1, <2>3, <4>1, <4>2, RoomOnlyShrinks
              DEF Look, Wake, AfterTurn, TakeByName, NextCandidate
    <3>2. \A d \in Calls \ {c} :
            phase'[d] = phase[d] /\ (d \in told \cup overtaken => d \in (told \cup overtaken)')
      BY <1>3, <2>3
         DEF Look, Wake, AfterTurn, TakeByName, NextCandidate, caller, CoreInv, TypeOK
    <3>3. Waiting(c)' => Healthy = {}
      BY <1>3, <2>3
         DEF Look, Wake, AfterTurn, TakeByName, NextCandidate, caller, CoreInv, TypeOK, Waiting
    <3> QED BY <2>1, <3>1, <3>2, <3>3, NoRoomIsMade
  <2> QED BY <2>2, <2>3
<1>4. ASSUME NEW c \in Calls, Release(c) PROVE WaitersAreTold'
  <2>1. CASE UNCHANGED active
    <3>1. Healthy' \subseteq Healthy
      BY <1>4, <2>1, RoomOnlyShrinks DEF Release
    <3>2. \A d \in Calls \ {c} :
            phase'[d] = phase[d] /\ (d \in told \cup overtaken => d \in (told \cup overtaken)')
      BY <1>4 DEF Release, caller, CoreInv, TypeOK
    <3>3. ~Waiting(c)'
      BY <1>4 DEF Release, CoreInv, TypeOK, Waiting
    <3> QED BY <1>4, <3>1, <3>2, <3>3, NoRoomIsMade DEF Release
  <2>2. CASE phase' = [phase EXCEPT ![c] = "signalling"]
    <3>1. phase'[c] = "signalling"
      BY <2>2 DEF CoreInv, TypeOK
    <3> QED BY <3>1 DEF WaitersAreTold
  <2> QED BY <1>4, <2>1, <2>2 DEF Release
<1>5. ASSUME NEW c \in Calls, SignalFreed(c) PROVE WaitersAreTold'
  BY <1>5 DEF SignalFreed, Listeners, WaitersAreTold, CoreInv, TypeOK, RouteInv
<1>6. ASSUME NEW w \in Wrappers, CoolDown(w) PROVE WaitersAreTold'
  BY <1>6 DEF CoolDown, providers, WaitersAreTold, Healthy, Listed, Wrapper
<1>7. ASSUME Change PROVE WaitersAreTold'
  BY <1>7 DEF Change, Listeners, WaitersAreTold, CoreInv, TypeOK, RouteInv
<1>8. ASSUME NEW c \in Calls, Step(c) PROVE WaitersAreTold'
  BY <1>2, <1>3, <1>4, <1>5, <1>8 DEF Step
<1> QED
  BY <1>1, <1>2, <1>6, <1>7, <1>8
     DEF Next, AddProvider, UpdateProvider, RemoveProvider

-----------------------------------------------------------------------------
(***************************************************************************)
(* Counting.  A step changes whether one call is counted, and on which     *)
(* wrapper; the counts of the others stay.                                 *)
(***************************************************************************)
Out(c) == phase[c] \in {"calling", "releasing"}

LEMMA CountedIsFinite == \A w : IsFiniteSet(Counted(w)) /\ Cardinality(Counted(w)) \in Nat
BY NamesAssumption, FS_Subset, FS_CardinalityType DEF Counted

LEMMA SameCounts ==
  ASSUME NoSlotIsLost, CoreInv,
         NEW c \in Calls, \A d \in Calls \ {c} : phase'[d] = phase[d] /\ holds'[d] = holds[d],
         Out(c)' <=> Out(c), Out(c) => holds'[c] = holds[c],
         UNCHANGED providers, active' = active
  PROVE  NoSlotIsLost'
<1>1. \A w : Counted(w)' = Counted(w)
  BY DEF Counted, Out
<1>2. Listed' = Listed /\ \A n : Wrapper(n)' = Wrapper(n) /\ made'[n] = made[n]
  BY DEF Listed, Wrapper, providers
<1> QED BY <1>1, <1>2 DEF NoSlotIsLost

LEMMA CountsHold ==
  ASSUME CoreInv, Listed' = Listed, made' = made,
         \A n \in Listed : \A v \in Wrappers :
           v = Wrapper(n) => /\ active'[v] <= Cardinality(Counted(v)')
                             /\ made[n] = 0 => active'[v] = Cardinality(Counted(v)')
  PROVE  NoSlotIsLost'
<1> SUFFICES ASSUME NEW n \in Listed
             PROVE  /\ active'[Wrapper(n)'] <= Cardinality(Counted(Wrapper(n))')
                    /\ made[n] = 0 => active'[Wrapper(n)'] = Cardinality(Counted(Wrapper(n))')
  BY DEF NoSlotIsLost
<1>1. Wrapper(n) \in Wrappers
  BY ListedAreNames, WrapperType DEF CoreInv
<1>2. PICK v \in Wrappers : v = Wrapper(n)
  BY <1>1
<1>3. Wrapper(n)' = v
  BY <1>2 DEF Wrapper
<1>4. Counted(Wrapper(n))' = Counted(v)'
  BY <1>3 DEF Counted
<1> QED BY <1>2, <1>3, <1>4

\* A call takes a client of w.
LEMMA OneMoreOut ==
  ASSUME NoSlotIsLost, CoreInv,
         NEW c \in Calls, \A d \in Calls \ {c} : phase'[d] = phase[d] /\ holds'[d] = holds[d],
         NEW w \in Wrappers, ~Out(c), Out(c)', holds'[c] = w,
         UNCHANGED providers, active' = [active EXCEPT ![w] = @ + 1]
  PROVE  NoSlotIsLost'
<1>1. \A v : v # w => Counted(v)' = Counted(v)
  BY DEF Counted, Out
<1>2. Counted(w)' = Counted(w) \cup {c} /\ c \notin Counted(w)
  BY DEF Counted, Out
<1>3. Cardinality(Counted(w)') = Cardinality(Counted(w)) + 1
  BY <1>2, CountedIsFinite, FS_AddElement
<1>4. Listed' = Listed /\ made' = made
  BY DEF Listed, providers
<1>5. active \in [Wrappers -> Int]
  BY DEF CoreInv, TypeOK
<1> SUFFICES ASSUME NEW n \in Listed, NEW v \in Wrappers, v = Wrapper(n)
             PROVE  /\ active'[v] <= Cardinality(Counted(v)')
                    /\ made[n] = 0 => active'[v] = Cardinality(Counted(v)')
  BY <1>4, CountsHold
<1>6. /\ active[v] <= Cardinality(Counted(v))
      /\ made[n] = 0 => active[v] = Cardinality(Counted(v))
  BY DEF NoSlotIsLost
<1>7. CASE v = w
  BY <1>3, <1>5, <1>6, <1>7, CountedIsFinite
<1>8. CASE v # w
  BY <1>1, <1>5, <1>6, <1>8
<1> QED BY <1>7, <1>8

LEMMA ReleaseCounts ==
  ASSUME NoSlotIsLost, CoreInv, NEW c \in Calls, Release(c)
  PROVE  NoSlotIsLost'
<1> PICK w \in Wrappers : w = holds[c]
  BY GivenBackType DEF Release
<1>1. w[1] \in Names /\ GivenBack(c) = Wrapper(w[1])
  BY GivenBackType DEF Release, GivenBack
<1>2. w = <<w[1], w[2]>> /\ w[2] \in Nat /\ w[2] <= made[w[1]]
  BY NoWrapperIsNone DEF Wrappers, CoreInv, OldInv, Known
<1>3. \A d \in Calls \ {c} : phase'[d] = phase[d]
  BY DEF Release, Goes, CoreInv, TypeOK
<1>4. holds' = holds /\ phase[c] = "releasing" /\ phase'[c] \in {"after", "signalling"}
  BY DEF Release, Goes, caller, CoreInv, TypeOK
<1>5. \A v : v # w => Counted(v)' = Counted(v)
  BY <1>3, <1>4 DEF Counted
<1>6. c \in Counted(w) /\ Counted(w)' = Counted(w) \ {c}
  BY <1>3, <1>4 DEF Counted
<1>7. Cardinality(Counted(w)') = Cardinality(Counted(w)) - 1
  BY <1>6, CountedIsFinite, FS_RemoveElement
<1>8. Listed' = Listed /\ made' = made
  BY DEF Release, Listed, providers
<1>9. active \in [Wrappers -> Int]
  BY DEF CoreInv, TypeOK
<1>10. \/ w[1] \notin Listed /\ active' = active
       \/ w[1] \in Listed /\ active' = [active EXCEPT ![Wrapper(w[1])] = @ - 1]
  BY <1>1 DEF Release
<1> SUFFICES ASSUME NEW n \in Listed, NEW v \in Wrappers, v = Wrapper(n)
             PROVE  /\ active'[v] <= Cardinality(Counted(v)')
                    /\ made[n] = 0 => active'[v] = Cardinality(Counted(v)')
  BY <1>8, CountsHold
<1>11. /\ active[v] <= Cardinality(Counted(v))
       /\ made[n] = 0 => active[v] = Cardinality(Counted(v))
  BY DEF NoSlotIsLost
<1>12. CASE n # w[1]
  <2>1. v # w /\ v # Wrapper(w[1])
    BY <1>12 DEF Wrapper
  <2> QED BY <1>5, <1>9, <1>10, <1>11, <2>1
<1>13. CASE n = w[1] /\ v = w
  BY <1>7, <1>9, <1>10, <1>11, <1>13, CountedIsFinite
<1>14. CASE n = w[1] /\ v # w
  <2>1. made[n] # 0
    BY <1>2, <1>14 DEF Wrapper
  <2>2. active'[v] = active[v] - 1
    BY <1>9, <1>10, <1>14
  <2> QED BY <1>5, <1>9, <1>11, <1>14, <2>1, <2>2, CountedIsFinite
<1> QED BY <1>12, <1>13, <1>14

\* Nobody is out on the wrapper a change makes.
LEMMA ChangeCounts ==
  ASSUME NoSlotIsLost, CoreInv, Change, NEW n \in Names,
         \/ Listed' \subseteq Listed /\ made' = made
         \/ Listed' \subseteq Listed \cup {n} /\ made' = [made EXCEPT ![n] = changes']
  PROVE  NoSlotIsLost'
<1>1. \A w : Counted(w)' = Counted(w)
  BY DEF Change, Counted
<1>2. active' = active
  BY DEF Change
<1>3. CASE Listed' \subseteq Listed /\ made' = made
  BY <1>1, <1>2, <1>3 DEF NoSlotIsLost, Wrapper
<1>4. CASE Listed' \subseteq Listed \cup {n} /\ made' = [made EXCEPT ![n] = changes']
  <2> PICK w : w = <<n, changes + 1>>
    OBVIOUS
  <2>1. changes \in 0..MaxChanges /\ changes < MaxChanges /\ changes' = changes + 1
        /\ made \in [Names -> 0..MaxChanges] /\ made[n] <= changes
    BY DEF Change, CoreInv, TypeOK, OldInv
  <2>2. w \in Wrappers /\ ~Known(w)
    BY <2>1, PoolAssumption DEF Wrappers, Known
  <2>3. active[w] = 0 /\ w # NoWrapper
    BY <2>2, NoWrapperIsNone DEF CoreInv, OldInv
  <2>4. Counted(w) = {}
    BY <2>2, <2>3 DEF Counted, CoreInv, OldInv
  <2>5. Wrapper(n)' = w /\ made'[n] # 0
    BY <1>4, <2>1 DEF Wrapper
  <2>6. active'[w] <= Cardinality(Counted(w)')
    BY <1>1, <1>2, <2>3, <2>4, FS_EmptySet
  <2> SUFFICES ASSUME NEW m \in Listed'
               PROVE  /\ active'[Wrapper(m)'] <= Cardinality(Counted(Wrapper(m))')
                      /\ made'[m] = 0 => active'[Wrapper(m)'] = Cardinality(Counted(Wrapper(m))')
    BY DEF NoSlotIsLost
  <2>7. CASE m = n
    <3>1. Counted(Wrapper(m))' = Counted(w)'
      BY <2>5, <2>7 DEF Counted
    <3> QED BY <2>5, <2>6, <2>7, <3>1
  <2>8. CASE m # n
    <3>1. m \in Listed /\ Wrapper(m)' = Wrapper(m) /\ made'[m] = made[m]
      BY <1>4, <2>1, <2>8 DEF Wrapper
    <3>2. PICK v : v = Wrapper(m)
      OBVIOUS
    <3>3. Counted(Wrapper(m))' = Counted(v)' /\ Wrapper(m)' = v
      BY <3>1, <3>2 DEF Counted
    <3> QED BY <1>1, <1>2, <3>1, <3>2, <3>3 DEF NoSlotIsLost
  <2> QED BY <2>7, <2>8
<1> QED BY <1>3, <1>4

\* The steps of a call that give no client and take none back.
LEMMA QuietCounts ==
  ASSUME NoSlotIsLost, CoreInv, NEW c \in Calls,
         \/ Ask(c) \/ Listen(c) \/ Wait(c) \/ Wake(c) \/ Choose(c) \/ Reply(c)
         \/ SignalFreed(c) \/ AfterTurn(c) \/ GiveUp(c) \/ Look(c)
  PROVE  NoSlotIsLost'
<1> USE DEF Goes
<1>1. UNCHANGED providers /\ active' = active
  BY DEF Ask, Listen, Wait, Wake, Choose, Reply, SignalFreed, AfterTurn, GiveUp, Look
<1>2. \A d \in Calls \ {c} : phase'[d] = phase[d] /\ holds'[d] = holds[d]
  BY DEF Ask, Listen, Wait, Wake, Choose, Reply, SignalFreed, AfterTurn, GiveUp, Look,
         Returns, caller, CoreInv, TypeOK
<1>3. (Out(c)' <=> Out(c)) /\ (Out(c) => holds'[c] = holds[c])
  BY DEF Ask, Listen, Wait, Wake, Choose, Reply, SignalFreed, AfterTurn, GiveUp, Look,
         Returns, Out, CoreInv, TypeOK
<1> QED BY <1>1, <1>2, <1>3, SameCounts

LEMMA TakingCounts ==
  ASSUME NoSlotIsLost, CoreInv, NEW c \in Calls, Take(c) \/ TakeByName(c) \/ NextCandidate(c)
  PROVE  NoSlotIsLost'
<1>1. UNCHANGED providers /\ ~Out(c)
  BY DEF Take, TakeByName, NextCandidate, Out
<1>2. \A d \in Calls \ {c} : phase'[d] = phase[d] /\ holds'[d] = holds[d]
  BY DEF Take, TakeByName, NextCandidate, Goes, Returns, CoreInv, TypeOK
<1>3. CASE Returns(c) /\ UNCHANGED active
  <2>1. ~Out(c)'
    BY <1>3 DEF Returns, Goes, Out, CoreInv, TypeOK
  <2> QED BY <1>1, <1>2, <1>3, <2>1, SameCounts
<1>4. CASE ~(Returns(c) /\ UNCHANGED active)
  <2>1. PICK w \in Wrappers : holds'[c] = w /\ active' = [active EXCEPT ![w] = @ + 1]
    <3>1. CASE Take(c)
      BY <3>1 DEF Take, CoreInv, HeldInv, HoldsAClient
    <3>2. CASE TakeByName(c)
      <4>1. Wrapper(wish[c]) \in Wrappers
        BY <1>4, <3>2, ListedAreNames, WrapperType DEF TakeByName, CoreInv
      <4> QED BY <1>4, <3>2, <4>1 DEF TakeByName, CoreInv, TypeOK
    <3>3. CASE NextCandidate(c)
      <4>1. Head(list[c]) \in Wrappers
        BY <1>4, <3>3 DEF NextCandidate, CoreInv, TypeOK
      <4> QED BY <1>4, <3>3, <4>1 DEF NextCandidate, CoreInv, TypeOK
    <3> QED BY <3>1, <3>2, <3>3
  <2>2. Out(c)'
    BY <1>4 DEF Take, TakeByName, NextCandidate, Goes, Out, CoreInv, TypeOK
  <2> QED BY <1>1, <1>2, <2>1, <2>2, OneMoreOut
<1> QED BY <1>3, <1>4

LEMMA NextCounts ==
  ASSUME CoreInv, NoSlotIsLost, [Next]_vars PROVE NoSlotIsLost'
<1>1. CASE UNCHANGED vars
  BY <1>1 DEF vars, NoSlotIsLost, Counted, Listed, Wrapper
<1>2. ASSUME NEW c \in Calls, Ask(c) \/ Step(c) \/ GiveUp(c) PROVE NoSlotIsLost'
  BY <1>2, QuietCounts, TakingCounts, ReleaseCounts DEF Step
<1>3. ASSUME NEW w \in Wrappers, CoolDown(w) PROVE NoSlotIsLost'
  BY <1>3 DEF CoolDown, providers, NoSlotIsLost, Counted, Listed, Wrapper
<1>4. ASSUME NEW n \in Names, AddProvider(n) PROVE NoSlotIsLost'
  <2>1. Listed' \subseteq Listed \cup {n}
    <3>1. order \in Seq(Names) /\ order' = Append(order, n)
      BY <1>4 DEF AddProvider, CoreInv, TypeOK
    <3>2. \A i \in 1..Len(order') : order'[i] = n \/ (i \in 1..Len(order) /\ order'[i] = order[i])
      BY <3>1, AppendProperties
    <3>3. DOMAIN order' = 1..Len(order') /\ DOMAIN order = 1..Len(order)
      BY <3>1, AppendProperties
    <3> QED BY <3>2, <3>3 DEF Listed, Range
  <2> QED BY <1>4, <2>1, ChangeCounts DEF AddProvider
<1>5. ASSUME NEW n \in Names, UpdateProvider(n) PROVE NoSlotIsLost'
  <2>1. Listed' \subseteq Listed \cup {n}
    BY <1>5 DEF UpdateProvider, Listed
  <2> QED BY <1>5, <2>1, ChangeCounts DEF UpdateProvider
<1>6. ASSUME NEW i \in DOMAIN order, RemoveProvider(i) PROVE NoSlotIsLost'
  <2>1. Listed' \subseteq Listed /\ order[i] \in Names
    BY <1>6, Removed DEF RemoveProvider, Listed, CoreInv, TypeOK
  <2> QED BY <1>6, <2>1, ChangeCounts DEF RemoveProvider
<1> QED BY <1>1, <1>2, <1>3, <1>4, <1>5, <1>6 DEF Next

-----------------------------------------------------------------------------
IInv == CoreInv /\ NoSlotIsLost /\ WaitersAreTold

\* Everything the proofs below rest on holds in every state of the pool.
THEOREM Invariance == Spec => []IInv
<1>1. Init => IInv
  <2> SUFFICES ASSUME Init PROVE IInv
    OBVIOUS
  <2>1. CoreInv /\ WaitersAreTold
    BY InitCore DEF Init, WaitersAreTold
  <2>2. \A w : Counted(w) = {}
    BY DEF Init, Counted
  <2>3. \A n \in Listed : active[Wrapper(n)] = 0
    BY <2>1, ListedAreNames, WrapperType DEF CoreInv, Init
  <2>4. NoSlotIsLost
    BY <2>2, <2>3, FS_EmptySet DEF NoSlotIsLost
  <2> QED BY <2>1, <2>4 DEF IInv
<1>2. IInv /\ [Next]_vars => IInv'
  BY NextCore, NextCounts, NextTold DEF IInv
<1> QED BY <1>1, <1>2, PTL DEF Spec

(***************************************************************************)
(* The pool keeps its type: the calls, the counts and the candidates are   *)
(* always those of providers that are or were in the pool.                 *)
(***************************************************************************)
THEOREM TypeCorrect == Spec => []TypeOK
<1>1. IInv => TypeOK
  BY DEF IInv, CoreInv
<1> QED BY <1>1, Invariance, PTL

(***************************************************************************)
(* No provider's count is above the calls that are out on it, and the      *)
(* count of one that was never replaced is exact (pool.go:434-447).        *)
(***************************************************************************)
THEOREM SlotsAreGivenBack == Spec => []NoSlotIsLost
<1>1. IInv => NoSlotIsLost
  BY DEF IInv
<1> QED BY <1>1, Invariance, PTL

(***************************************************************************)
(* No release is missed by a call that found every client busy, unless the *)
(* providers were changed while it waited (pool.go:973-996).               *)
(***************************************************************************)
THEOREM ReleasesWakeWaiters == Spec => []WaitersAreTold
<1>1. IInv => WaitersAreTold
  BY DEF IInv
<1> QED BY <1>1, Invariance, PTL
=============================================================================
