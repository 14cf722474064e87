---------------------------- MODULE ProviderPool ----------------------------
(***************************************************************************)
(* pool.Pool: the providers a service may ask, how a call gets a client of *)
(* one, waits when each is at its limit and gives the client back, the     *)
(* failover of a call from one provider to the next, and the changes of    *)
(* the providers while calls are out.                                      *)
(*                                                                         *)
(* A member of Calls is one call of the pool.  What the provider answers,  *)
(* the models of a provider and its capability are left out: a hint is the *)
(* provider it names.  The map of clients and the list of their names,     *)
(* which change together under the write lock, are the one variable order. *)
(***************************************************************************)
EXTENDS Integers, FiniteSets, Sequences, SequencesExt

CONSTANTS
  Calls,       \* calls of the pool
  Names,       \* names of providers
  Configured,  \* the providers of the configuration, in their order
  Limit,       \* MaxConcurrency of each provider
  Strategies,  \* the strategies a pool may be configured with
  Asks,        \* the routes each call may take
  None,        \* no provider, no client
  MaxChanges   \* bound: changes of the providers

Routes == {"failover", "acquire", "once", "provider"}

ASSUME PoolAssumption ==
  /\ Configured \in Seq(Names)
  /\ \A i, j \in DOMAIN Configured : Configured[i] = Configured[j] => i = j
  /\ Limit \in [Names -> Nat \ {0}]
  /\ Strategies \subseteq {"round_robin", "least_load", "failover"}
  /\ Asks \in [Calls -> SUBSET Routes]
  /\ MaxChanges \in Nat

ASSUME NamesAssumption == IsFiniteSet(Calls) /\ None \notin Names

VARIABLES
  strategy,   \* p.strategy, fixed when the pool is made
  order,      \* p.order: the names in p.clients
  made,       \* how often the provider of a name was replaced
  active,     \* activeRequests of each wrapper
  cooling,    \* wrappers whose failedUntil has not passed
  changes,    \* changes of the providers so far
  phase,      \* where each call is
  route,      \* how it asks: through failover, acquire, or at once
  wish,       \* the provider it names
  holds,      \* the wrapper whose count it raised and has not given back
  list,       \* failover: the candidates it has still to try
  told,       \* calls whose freed channel has been closed
  ended,      \* calls whose context has ended
  answered,   \* calls a provider has answered
  overtaken   \* calls that hold the freed channel of before a change

vars == <<strategy, order, made, active, cooling, changes, phase, route, wish,
          holds, list, told, ended, answered, overtaken>>
providers == <<strategy, order, made, changes>>
caller == <<route, wish, holds, list, told, ended, answered, overtaken>>

\* A wrapper: the provider of a name, and which one of that name it is.
Wrappers == Names \X (0..MaxChanges)
Wrapper(n) == <<n, made[n]>>
NoWrapper == <<None, 0>>

Phases == {"idle", "listening", "trying", "taking", "busy", "waiting",
           "choosing", "between", "calling", "releasing", "signalling",
           "after", "over"}

\* Get, Release and failoverCandidates hold the read lock here.
Reading(c) == phase[c] \in {"taking", "signalling"}

-----------------------------------------------------------------------------
Listed == Range(order)

\* healthyClients: those under their limit.  No client is ever unhealthy.
Healthy == {n \in Listed : active[Wrapper(n)] < Limit[n]}

Position(n) == CHOOSE i \in DOMAIN order : order[i] = n

\* healthy[0]
First(S) == {n \in S : \A m \in S : Position(n) <= Position(m)}

LeastLoaded(S) ==
  {n \in S : \A m \in S : active[Wrapper(n)] <= active[Wrapper(m)]}

\* The switch of Get on the strategy; round robin and random may give any.
ByStrategy(S) ==
  CASE strategy = "failover"   -> First(S)
    [] strategy = "least_load" -> LeastLoaded(S)
    [] OTHER                   -> S

\* selectWithHint: the provider named if it is healthy, or the strategy's.
Selected(c) ==
  IF wish[c] \in Healthy THEN {wish[c]} ELSE ByStrategy(Healthy)

Goes(c, p) == phase' = [phase EXCEPT ![c] = p]

\* The call returns and its variables go with it.
Returns(c) ==
  /\ Goes(c, "over")
  /\ route' = [route EXCEPT ![c] = "acquire"]
  /\ wish' = [wish EXCEPT ![c] = None]
  /\ holds' = [holds EXCEPT ![c] = NoWrapper]
  /\ list' = [list EXCEPT ![c] = << >>]
  /\ told' = told \ {c}
  /\ ended' = ended \ {c}
  /\ answered' = answered \ {c}
  /\ overtaken' = overtaken \ {c}

-----------------------------------------------------------------------------
Init ==
  /\ strategy \in Strategies
  /\ order = Configured
  /\ made = [n \in Names |-> 0]
  /\ active = [w \in Wrappers |-> 0]
  /\ cooling = {}
  /\ changes = 0
  /\ phase = [c \in Calls |-> "idle"]
  /\ route = [c \in Calls |-> "acquire"]
  /\ wish = [c \in Calls |-> None]
  /\ holds = [c \in Calls |-> NoWrapper]
  /\ list = [c \in Calls |-> << >>]
  /\ told = {}
  /\ ended = {}
  /\ answered = {}
  /\ overtaken = {}

\* usesFailover: a call that names no provider, when that is the strategy.
\* Streams and embeddings go through acquire whatever the strategy is.
Ask(c) ==
  /\ phase[c] = "idle"
  /\ \E r \in Asks[c], n \in Names \cup {None} :
       /\ r = "failover" => strategy = "failover" /\ n = None
       /\ r = "provider" => n # None
       /\ route' = [route EXCEPT ![c] = r]
       /\ wish' = [wish EXCEPT ![c] = n]
       /\ Goes(c, CASE r = "failover" -> "choosing"
                    [] r = "acquire"  -> "listening"
                    [] OTHER          -> "trying")
  /\ UNCHANGED <<providers, active, cooling, holds, list, told, ended, answered, overtaken>>

\* acquire takes the signal before each attempt.
Listen(c) ==
  /\ phase[c] = "listening"
  /\ Goes(c, "trying")
  /\ told' = told \ {c}
  /\ overtaken' = overtaken \ {c}
  /\ UNCHANGED <<providers, active, cooling, route, wish, holds, list, ended, answered>>

\* Get and GetWithHint up to the choice, under the read lock.  With every
\* client busy only acquire waits; with none at all it returns as well.
Look(c) ==
  /\ phase[c] = "trying" /\ route[c] # "provider"
  /\ \/ /\ Healthy # {}
        /\ \E n \in Selected(c) : holds' = [holds EXCEPT ![c] = Wrapper(n)]
        /\ Goes(c, "taking")
        /\ UNCHANGED <<route, wish, list, told, ended, answered, overtaken>>
     \/ /\ Healthy = {} /\ Listed # {} /\ route[c] = "acquire"
        /\ Goes(c, "busy")
        /\ UNCHANGED caller
     \/ /\ Healthy = {} /\ (Listed = {} \/ route[c] = "once")
        /\ Returns(c)
  /\ UNCHANGED <<providers, active, cooling>>

\* Its atomic add, still under the read lock but apart from the look.
Take(c) ==
  /\ phase[c] = "taking"
  /\ active' = [active EXCEPT ![holds[c]] = @ + 1]
  /\ Goes(c, "calling")
  /\ told' = told \ {c}
  /\ overtaken' = overtaken \ {c}
  /\ UNCHANGED <<providers, cooling, route, wish, holds, list, ended, answered>>

\* GetByProvider looks at no limit.
TakeByName(c) ==
  /\ phase[c] = "trying" /\ route[c] = "provider"
  /\ \/ /\ wish[c] \notin Listed
        /\ Returns(c)
        /\ UNCHANGED active
     \/ /\ wish[c] \in Listed
        /\ holds' = [holds EXCEPT ![c] = Wrapper(wish[c])]
        /\ active' = [active EXCEPT ![Wrapper(wish[c])] = @ + 1]
        /\ Goes(c, "calling")
        /\ UNCHANGED <<route, wish, list, told, ended, answered, overtaken>>
  /\ UNCHANGED <<providers, cooling>>

\* Mutant: the signal is taken on the way into the wait.
ListensWhenBusy(c) == told \ {c}

\* The signals a call goes into its wait with: the one it took has not changed.
OnWaiting(c) == told

\* acquire found every client at its limit and waits.
Wait(c) ==
  /\ phase[c] = "busy"
  /\ Goes(c, "waiting")
  /\ told' = OnWaiting(c)
  /\ UNCHANGED <<providers, active, cooling, route, wish, holds, list, ended, answered, overtaken>>

\* The select of acquire; with both ready Go takes either.
Wake(c) ==
  /\ phase[c] = "waiting"
  /\ \/ c \in told /\ Goes(c, "listening") /\ UNCHANGED caller
     \/ c \in ended /\ Returns(c)
  /\ UNCHANGED <<providers, active, cooling>>

-----------------------------------------------------------------------------
\* The order of failoverCandidates: as configured, those cooling down last.
Before(m, n) ==
  LET Cooling(k) == Wrapper(k) \in cooling IN
    \/ ~Cooling(m) /\ Cooling(n)
    \/ (Cooling(m) <=> Cooling(n)) /\ Position(m) < Position(n)

InOrder(names) == \A i, j \in DOMAIN names : i < j => Before(names[i], names[j])

\* failover takes its candidates once; with none it queues as any call does.
Choose(c) ==
  /\ phase[c] = "choosing"
  /\ \/ /\ Healthy = {}
        /\ Goes(c, "listening")
        /\ route' = [route EXCEPT ![c] = "acquire"]
        /\ UNCHANGED list
     \/ /\ Healthy # {}
        /\ \E names \in SetToSeqs(Healthy) :
             /\ InOrder(names)
             /\ list' = [list EXCEPT ![c] = [i \in DOMAIN names |-> Wrapper(names[i])]]
        /\ Goes(c, "between")
        /\ UNCHANGED route
  /\ UNCHANGED <<providers, active, cooling, wish, holds, told, ended, answered, overtaken>>

\* The loop of failover over its candidates; the limit is not looked at again.
NextCandidate(c) ==
  /\ phase[c] = "between"
  /\ \/ /\ list[c] = << >>
        /\ Returns(c)
        /\ UNCHANGED active
     \/ /\ list[c] # << >>
        /\ holds' = [holds EXCEPT ![c] = Head(list[c])]
        /\ active' = [active EXCEPT ![Head(list[c])] = @ + 1]
        /\ list' = [list EXCEPT ![c] = Tail(@)]
        /\ Goes(c, "calling")
        /\ UNCHANGED <<route, wish, told, ended, answered, overtaken>>
  /\ UNCHANGED <<providers, cooling>>

\* Mutant: a candidate that fails is not released.
ReleasesAnswered(c) ==
  /\ phase[c] = "calling"
  /\ \/ Goes(c, "after") /\ UNCHANGED answered
     \/ Goes(c, "releasing") /\ answered' = answered \cup {c}
  /\ UNCHANGED <<providers, active, cooling, route, wish, holds, list, told, ended, overtaken>>

\* The provider answers or the call of it fails, which failover alone minds.
Reply(c) ==
  /\ phase[c] = "calling"
  /\ Goes(c, "releasing")
  /\ \/ UNCHANGED answered
     \/ route[c] = "failover" /\ answered' = answered \cup {c}
  /\ UNCHANGED <<providers, active, cooling, route, wish, holds, list, told, ended, overtaken>>

\* Release gives the client back to whatever has its provider's name now.
GivenBack(c) == Wrapper(holds[c][1])

Release(c) ==
  /\ phase[c] = "releasing"
  /\ \/ /\ holds[c][1] \notin Listed
        /\ Goes(c, "after")
        /\ UNCHANGED active
     \/ /\ holds[c][1] \in Listed
        /\ active' = [active EXCEPT ![GivenBack(c)] = @ - 1]
        /\ Goes(c, "signalling")
  /\ UNCHANGED <<providers, cooling, caller>>

\* Mutant: only the calls already in their wait are woken.
Waiters == {c \in Calls : phase[c] = "waiting"}

\* The calls in acquire that hold a freed channel.
Listeners ==
  {c \in Calls : route[c] = "acquire" /\ phase[c] \in {"trying", "taking", "busy", "waiting"}}

\* signalFreed closes the channel all of them hold and makes another.
SignalFreed(c) ==
  /\ phase[c] = "signalling"
  /\ told' = told \cup Listeners
  /\ Goes(c, "after")
  /\ UNCHANGED <<providers, active, cooling, route, wish, holds, list, ended, answered, overtaken>>

\* What a candidate's turn leaves: a success ends its cooldown, a failure that
\* is not the caller's own starts one and the next is tried.
AfterTurn(c) ==
  /\ phase[c] = "after"
  /\ \/ /\ route[c] # "failover" \/ (c \in ended /\ c \notin answered)
        /\ Returns(c)
        /\ UNCHANGED cooling
     \/ /\ route[c] = "failover" /\ c \in answered
        /\ cooling' = cooling \ {holds[c]}
        /\ Returns(c)
     \/ /\ route[c] = "failover" /\ c \notin answered /\ c \notin ended
        /\ cooling' = cooling \cup {holds[c]}
        /\ holds' = [holds EXCEPT ![c] = NoWrapper]
        /\ Goes(c, "between")
        /\ UNCHANGED <<route, wish, list, told, ended, answered, overtaken>>
  /\ UNCHANGED <<providers, active>>

-----------------------------------------------------------------------------
\* The context of a call ends, which the wait of acquire and failover mind.
GiveUp(c) ==
  /\ phase[c] \notin {"idle", "over"} /\ c \notin ended
  /\ route[c] \in {"acquire", "failover"}
  /\ ended' = ended \cup {c}
  /\ UNCHANGED <<providers, active, cooling, phase, route, wish, holds, list, told, answered, overtaken>>

\* FailoverCooldown passes.
CoolDown(w) ==
  /\ w \in cooling
  /\ cooling' = cooling \ {w}
  /\ UNCHANGED <<providers, active, phase, route, wish, holds, list, told, ended, answered, overtaken>>

\* The write lock, taken for a change; it signals nobody.
Change ==
  /\ changes < MaxChanges
  /\ \A c \in Calls : ~Reading(c)
  /\ changes' = changes + 1
  /\ overtaken' = overtaken \cup Listeners
  /\ UNCHANGED <<strategy, active, cooling, phase, route, wish, holds, list, told, ended, answered>>

\* A name that was removed gets a wrapper of its own, counted from zero.
AddProvider(n) ==
  /\ n \notin Listed
  /\ Change
  /\ order' = Append(order, n)
  /\ made' = [made EXCEPT ![n] = changes']

RemoveProvider(i) ==
  /\ Change
  /\ order' = RemoveAt(order, i)
  /\ UNCHANGED made

UpdateProvider(n) ==
  /\ n \in Listed
  /\ Change
  /\ made' = [made EXCEPT ![n] = changes']
  /\ UNCHANGED order

-----------------------------------------------------------------------------
Step(c) ==
  \/ Listen(c) \/ Look(c) \/ Take(c) \/ TakeByName(c) \/ Wait(c) \/ Wake(c)
  \/ Choose(c) \/ NextCandidate(c) \/ Reply(c) \/ Release(c)
  \/ SignalFreed(c) \/ AfterTurn(c)

Next ==
  \/ \E c \in Calls : Ask(c) \/ Step(c) \/ GiveUp(c)
  \/ \E w \in Wrappers : CoolDown(w)
  \/ \E n \in Names : AddProvider(n) \/ UpdateProvider(n)
  \/ \E i \in DOMAIN order : RemoveProvider(i)

Spec == Init /\ [][Next]_vars

\* A call goes on when it can, and a client answers or times out: neither
\* the end of a context nor the caller's own pace is counted on.
Fairness == \A c \in Calls : WF_vars(Step(c))

FairSpec == Spec /\ Fairness

-----------------------------------------------------------------------------
TypeOK ==
  /\ strategy \in Strategies
  /\ order \in Seq(Names)
  /\ made \in [Names -> 0..MaxChanges]
  /\ active \in [Wrappers -> Int]
  /\ cooling \subseteq Wrappers
  /\ changes \in 0..MaxChanges
  /\ phase \in [Calls -> Phases]
  /\ route \in [Calls -> Routes]
  /\ wish \in [Calls -> Names \cup {None}]
  /\ holds \in [Calls -> Wrappers \cup {NoWrapper}]
  /\ list \in [Calls -> Seq(Wrappers)]
  /\ told \subseteq Calls /\ ended \subseteq Calls
  /\ answered \subseteq Calls /\ overtaken \subseteq Calls

\* The calls that raised the count of w and have not lowered one.
Counted(w) == {c \in Calls : holds[c] = w /\ phase[c] \in {"calling", "releasing"}}

(***************************************************************************)
(* No slot is lost, whichever way a call ends and whatever is done to the  *)
(* providers meanwhile: a provider's count is never above the calls that   *)
(* are out on it (pool.go:434-447), or it would refuse callers it has room *)
(* for until the process ends.  It is below them only after a change, when *)
(* clients of a provider that is gone are given back to its successor; the *)
(* count of a provider that was never replaced is exact.                   *)
(***************************************************************************)
NoSlotIsLost ==
  \A n \in Listed :
    LET w == Wrapper(n) IN
      /\ active[w] <= Cardinality(Counted(w))
      /\ made[n] = 0 => active[w] = Cardinality(Counted(w))

(***************************************************************************)
(* No release is missed between the attempt of a call that found every     *)
(* client busy and its wait (pool.go:973-996, "a release between a failed  *)
(* attempt and the wait still wakes it"): a call that waits has been woken *)
(* already, or there is still no room, or the one who made room is about   *)
(* to say so.  The calls that waited while the providers were changed are  *)
(* the exception, since a change wakes nobody.                             *)
(***************************************************************************)
WaitersAreTold ==
  \A c \in Calls :
    phase[c] \in {"busy", "waiting"} =>
      \/ c \in told \cup overtaken
      \/ Healthy = {}
      \/ \E d \in Calls : phase[d] = "signalling"

(***************************************************************************)
(* Every call ends, though it may have queued behind all others and failed *)
(* over through every provider, and though no context ends: the releases   *)
(* of the others wake it (pool.go:977-995, failover.go:58-91).             *)
(***************************************************************************)
CallsEnd ==
  \A c \in Calls : phase[c] # "idle" ~> (phase[c] = "over" \/ c \in overtaken)
=============================================================================
