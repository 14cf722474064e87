--------------------------- MODULE ToolTurnProofs ---------------------------
(***************************************************************************)
(* ToolTurn keeps its type, nothing overtakes a write, an answered turn    *)
(* answers every call, and the gate orders the calls as the batches do,    *)
(* for every number of calls, attempts and slots.                          *)
(***************************************************************************)
EXTENDS ToolBatches, FiniteSetTheorems, WellFoundedInduction, TLAPS

Admitted(c) == phase[c] # "none"

\* A set of numbers has a least one: what stands in for induction below.
LEMMA LeastNumber ==
  ASSUME NEW S \in SUBSET Nat, S # {}
  PROVE  \E m \in S : \A x \in S : m <= x
<1> DEFINE R == OpToRel(<, Nat)
<1>1. IsWellFoundedOn(R, Nat)
  BY NatLessThanWellFounded, Zenon
<1>2. \A m, x \in Nat : <<x, m>> \notin R => m <= x
  BY DEF OpToRel
<1> HIDE DEF R
<1>3. PICK m \in S : \A x \in S : <<x, m>> \notin R
  BY <1>1, WFMin
<1> QED BY <1>2, <1>3

\* Calls are numbered as they come; a number not yet given is untouched.
NumberedInv ==
    \A c \in Calls : /\ att[c] <= attempt
                     /\ c > emitted => att[c] = 0
                     /\ att[c] = 0 => phase[c] = "none"

\* lastExclusive is the last exclusive call of the attempt, sinceExclusive
\* the calls admitted after it.
GateInv ==
    /\ last # NoCall => kind[last] = "exclusive" /\ att[last] = attempt /\ Admitted(last)
    /\ \A c \in Calls : att[c] = attempt /\ Admitted(c) /\ c > last
                          => c \in since /\ kind[c] # "exclusive"

\* d waits for c, or for an exclusive call between them.
Covered(c, d) ==
    \/ c \in waitFor[d]
    \/ \E e \in waitFor[d] :
         kind[e] = "exclusive" /\ c < e /\ e < d /\ att[e] = att[d] /\ Admitted(e)

Ordered(c, d) ==
    /\ c < d /\ att[c] = att[d] /\ Admitted(c) /\ Admitted(d)
    /\ kind[c] = "exclusive" \/ kind[d] = "exclusive"

OrderInv == \A c, d \in Calls : Ordered(c, d) => Covered(c, d)

\* While the run goes on, a call has not started before those it waits for.
WaitedInv ==
    ~cancelled => \A d \in Calls : /\ phase[d] # "refused"
                                   /\ Started(d) => Ready(d)

\* A call of the attempt that was not admitted is a collapsed one.
ResultsInv ==
    \A c \in Calls :
      /\ Admitted(c) => /\ c \notin collapsed
                        /\ results[c] = IF phase[c] \in {"reported", "finished"} THEN 1 ELSE 0
      /\ ~Admitted(c) /\ turn \in {"streaming", "collecting"} => results[c] = 0
      /\ att[c] = attempt /\ ~Admitted(c) => c \in collapsed
      /\ c \in collapsed => att[c] = attempt

IInv ==
    /\ TypeOK /\ NumberedInv /\ GateInv /\ OrderInv /\ WaitedInv
    /\ NothingOvertakesAWrite /\ ResultsInv /\ EveryCallAnswered

-----------------------------------------------------------------------------
(***************************************************************************)
(* What each step does, as far as the invariant can see.                   *)
(***************************************************************************)
\* A turn starts with no call.
LEMMA InitInv == Init => IInv
<1> SUFFICES ASSUME Init PROVE IInv
  OBVIOUS
<1>1. TypeOK
  <2>1. /\ kind \in [Calls -> Kinds] /\ waitFor \in [Calls -> SUBSET Calls]
        /\ phase \in [Calls -> Phases]
    BY DEF Init, Kinds, Phases
  <2>2. att \in [Calls -> 0..MaxAttempts] /\ results \in [Calls -> 0..1]
    BY BoundsAssumption DEF Init
  <2>3. attempt \in 1..MaxAttempts /\ emitted \in 0..MaxCalls
    BY BoundsAssumption DEF Init
  <2> QED BY <2>1, <2>2, <2>3 DEF Init, TypeOK
<1>2. NumberedInv /\ GateInv /\ OrderInv /\ WaitedInv
  BY DEF Init, NumberedInv, GateInv, OrderInv, WaitedInv, Ordered, Admitted, Started
<1>3. NothingOvertakesAWrite /\ ResultsInv /\ EveryCallAnswered
  BY DEF Init, NothingOvertakesAWrite, ResultsInv, EveryCallAnswered, Admitted, Started
<1> QED BY <1>1, <1>2, <1>3 DEF IInv

\* The turn moves on, or a run is stopped: the calls and the gate stay.
TurnMoves == StreamEnds \/ Terminate \/ RunEnds \/ Cancel

\* The turn ends or the run is stopped under the calls: they go on as they were.
LEMMA TurnMovesInv ==
  ASSUME IInv, TurnMoves
  PROVE  IInv'
<1> USE DEF TurnMoves, StreamEnds, StreamSucceeds, StreamIsTerminal, StreamEndsTheRun,
            Terminate, RunEnds, Cancel, IInv, calls, gate
<1>1. TypeOK'
  BY DEF TypeOK
<1>2. NumberedInv' /\ GateInv'
  BY DEF NumberedInv, GateInv, Admitted
<1>3. OrderInv'
  BY DEF OrderInv, Ordered, Covered, Admitted
<1>4. WaitedInv' /\ NothingOvertakesAWrite'
  BY DEF TypeOK, WaitedInv, NothingOvertakesAWrite, Started, Ready
<1>5. ResultsInv' /\ EveryCallAnswered'
  BY DEF TypeOK, ResultsInv, EveryCallAnswered, Admitted, Of
<1> QED BY <1>1, <1>2, <1>3, <1>4, <1>5

\* A new attempt has no call and an empty gate.
LEMMA RetryInv ==
  ASSUME IInv, StreamIsRetried
  PROVE  IInv'
<1> USE DEF StreamIsRetried, IInv, calls, gate
<1>0. attempt \in Nat /\ attempt' = attempt + 1 /\ \A c \in Calls : att[c] \in Nat /\ att[c] < attempt'
  BY BoundsAssumption DEF TypeOK, NumberedInv
<1>1. TypeOK'
  BY BoundsAssumption DEF TypeOK, NoCall
<1>2. NumberedInv'
  BY <1>0 DEF NumberedInv
<1>3. GateInv'
  BY <1>0 DEF GateInv
<1>4. OrderInv'
  BY DEF OrderInv, Ordered, Covered, Admitted
<1>5. WaitedInv' /\ NothingOvertakesAWrite'
  BY DEF WaitedInv, NothingOvertakesAWrite, Started, Ready
<1>6. ResultsInv' /\ EveryCallAnswered'
  BY <1>0 DEF ResultsInv, EveryCallAnswered, Admitted, Of
<1> QED BY <1>1, <1>2, <1>3, <1>4, <1>5, <1>6

\* Collecting answers the collapsed calls.
LEMMA CollectInv ==
  ASSUME IInv, Collect
  PROVE  IInv'
<1> USE DEF Collect, IInv, calls, gate
<1>0. \A c \in Calls : results'[c] = IF c \in collapsed THEN 1 ELSE results[c]
  BY DEF TypeOK, ResultsInv, AnsweredHere, Admitted
<1>1. TypeOK'
  <2>1. results' \in [Calls -> 0..1]
    BY <1>0 DEF TypeOK
  <2> QED BY <2>1 DEF TypeOK
<1>2. NumberedInv' /\ GateInv'
  BY DEF NumberedInv, GateInv, Admitted
<1>3. OrderInv'
  BY DEF OrderInv, Ordered, Covered, Admitted
<1>4. WaitedInv' /\ NothingOvertakesAWrite'
  BY DEF WaitedInv, NothingOvertakesAWrite, Started, Ready
<1>5. ResultsInv'
  BY <1>0 DEF ResultsInv, Admitted
<1>6. EveryCallAnswered'
  <2>1. ASSUME NEW c \in Calls, att[c] = attempt PROVE results'[c] = 1
    BY <2>1, <1>0 DEF ResultsInv, WaitOver, Dispatched, Of, Admitted
  <2> QED BY <2>1 DEF EveryCallAnswered, Of
<1> QED BY <1>1, <1>2, <1>3, <1>4, <1>5, <1>6

-----------------------------------------------------------------------------
(***************************************************************************)
(* The stream admits or collapses a call.                                  *)
(***************************************************************************)
\* The call that is emitted is new and the later ones stay untouched.
LEMMA EmitNumbers ==
  ASSUME IInv, NEW k \in Kinds, Emit(k)
  PROVE  /\ emitted + 1 \in Calls /\ att[emitted + 1] = 0
         /\ phase[emitted + 1] = "none"
         /\ \A c \in Calls : c >= emitted + 1 => att[c] = 0
         /\ att' = [att EXCEPT ![emitted + 1] = attempt] /\ attempt \in Nat \ {0}
         /\ kind' = [kind EXCEPT ![emitted + 1] = k]
         /\ emitted' = emitted + 1 /\ attempt' = attempt
<1>1. emitted \in 0..MaxCalls /\ emitted < MaxCalls /\ emitted + 1 \in Calls
  BY BoundsAssumption DEF IInv, TypeOK, Emit, Calls
<1>2. attempt \in Nat \ {0}
  BY BoundsAssumption DEF IInv, TypeOK
<1>3. \A c \in Calls : c \in Nat /\ (c >= emitted + 1 => c > emitted)
  BY <1>1 DEF Calls
<1> QED BY <1>1, <1>2, <1>3 DEF IInv, NumberedInv, Emit

\* A collapsed call leaves the gate and the goroutines alone.
LEMMA CollapseInv ==
  ASSUME IInv, Emit("repeat"), phase' = phase, waitFor' = waitFor,
         last' = last, since' = since, collapsed' = collapsed \cup {emitted + 1}
  PROVE  IInv'
<1> DEFINE n == emitted + 1
<1>1. "repeat" \in Kinds
  BY DEF Kinds
<1>2. /\ n \in Calls /\ att[n] = 0 /\ phase[n] = "none"
      /\ \A c \in Calls : c >= n => att[c] = 0
      /\ att' = [att EXCEPT ![n] = attempt] /\ attempt \in Nat \ {0}
      /\ kind' = [kind EXCEPT ![n] = "repeat"] /\ emitted' = n /\ attempt' = attempt
  BY <1>1, EmitNumbers
<1>3. /\ holding' = holding /\ results' = results /\ turn' = turn /\ turn = "streaming"
      /\ cancelled' = cancelled /\ crashed' = crashed
  BY DEF Emit
<1>4. \A c \in Calls : c \in Nat /\ att[c] \in Nat
  BY BoundsAssumption DEF IInv, TypeOK, Calls
<1>5. /\ att \in [Calls -> 0..MaxAttempts] /\ kind \in [Calls -> Kinds]
      /\ emitted \in 0..MaxCalls
  BY DEF IInv, TypeOK
<1> HIDE DEF n
<1>6. \A c \in Calls : /\ att'[c] = IF c = n THEN attempt ELSE att[c]
                       /\ kind'[c] = IF c = n THEN "repeat" ELSE kind[c]
                       /\ Admitted(c) => c # n
                       /\ Admitted(c)' <=> Admitted(c)
  BY <1>2, <1>5 DEF Admitted
<1>7. TypeOK'
  <2>1. att' \in [Calls -> 0..MaxAttempts] /\ kind' \in [Calls -> Kinds]
    BY <1>1, <1>2, <1>5 DEF IInv, TypeOK
  <2>2. emitted' \in 0..MaxCalls
    BY <1>2, BoundsAssumption DEF Calls
  <2> QED BY <1>2, <1>3, <2>1, <2>2 DEF IInv, TypeOK, n
<1>8. NumberedInv'
  <2> SUFFICES ASSUME NEW c \in Calls
               PROVE  /\ att'[c] <= attempt' /\ (c > emitted' => att'[c] = 0)
                      /\ att'[c] = 0 => phase'[c] = "none"
    BY DEF NumberedInv
  <2>1. CASE c = n
    BY <2>1, <1>2, <1>4, <1>6
  <2>2. CASE c # n
    BY <2>2, <1>2, <1>4, <1>6 DEF IInv, NumberedInv
  <2> QED BY <2>1, <2>2
<1>9. GateInv'
  BY <1>2, <1>6 DEF IInv, GateInv, TypeOK, Admitted
<1>10. OrderInv'
  BY <1>6 DEF IInv, OrderInv, Ordered, Covered, TypeOK
<1>11. WaitedInv' /\ NothingOvertakesAWrite'
  BY <1>3, <1>6 DEF IInv, WaitedInv, NothingOvertakesAWrite, Started, Ready, Admitted
<1>12. results[n] = 0
  BY <1>2, <1>3 DEF IInv, ResultsInv, Admitted
<1>13. ResultsInv' /\ EveryCallAnswered'
  BY <1>2, <1>3, <1>6, <1>12 DEF IInv, ResultsInv, EveryCallAnswered, n
<1> QED BY <1>7, <1>8, <1>9, <1>10, <1>11, <1>13 DEF IInv

\* An admitted call waits for the calls before it that must be over first.
LEMMA AdmitInv ==
  ASSUME IInv, NEW k \in Kinds, k # "repeat", Emit(k)
  PROVE  IInv'
<1>1. PICK n \in Calls : n = emitted + 1
  BY EmitNumbers
<1>2. /\ n \in Calls /\ att[n] = 0 /\ phase[n] = "none"
      /\ \A c \in Calls : c >= n => att[c] = 0
      /\ att' = [att EXCEPT ![n] = attempt] /\ attempt \in Nat \ {0}
      /\ kind' = [kind EXCEPT ![n] = k] /\ emitted' = n /\ attempt' = attempt
  BY <1>1, EmitNumbers
<1>3. /\ holding' = holding /\ results' = results /\ turn' = turn /\ turn = "streaming"
      /\ cancelled' = cancelled /\ crashed' = crashed /\ collapsed' = collapsed
  BY DEF Emit
<1>4. /\ waitFor' = [waitFor EXCEPT ![n] = WaitSet(k)]
      /\ phase' = [phase EXCEPT ![n] = "waiting"]
      /\ IF k = "exclusive" THEN last' = n /\ since' = {}
                            ELSE since' = since \cup {n} /\ last' = last
  BY <1>1 DEF Emit
<1>5. \A c \in Calls : c \in Nat /\ att[c] \in Nat
  BY BoundsAssumption DEF IInv, TypeOK, Calls
<1>6. TypeOK
  BY DEF IInv
<1>7. WaitSet(k) \subseteq Calls
  BY <1>6 DEF TypeOK, WaitSet, NoCall
<1>8. \A c \in Calls : /\ att'[c] = IF c = n THEN attempt ELSE att[c]
                       /\ kind'[c] = IF c = n THEN k ELSE kind[c]
                       /\ phase'[c] = IF c = n THEN "waiting" ELSE phase[c]
                       /\ waitFor'[c] = IF c = n THEN WaitSet(k) ELSE waitFor[c]
                       /\ Admitted(c) => c # n /\ c < n /\ att[c] # 0
                       /\ Admitted(c)' <=> Admitted(c) \/ c = n
  <2> TAKE c \in Calls
  <2>1. Admitted(c) => c < n
    BY <1>2, <1>5 DEF IInv, NumberedInv, Admitted, Calls
  <2> QED BY <2>1, <1>2, <1>4, <1>5, <1>6 DEF IInv, NumberedInv, Admitted, TypeOK
<1>9. TypeOK'
  <2>1. att' \in [Calls -> 0..MaxAttempts] /\ kind' \in [Calls -> Kinds]
    BY <1>2, <1>6 DEF TypeOK
  <2>2. waitFor' \in [Calls -> SUBSET Calls] /\ phase' \in [Calls -> Phases]
    BY <1>4, <1>6, <1>7 DEF TypeOK, Phases
  <2>3. emitted' \in 0..MaxCalls
    BY <1>2, BoundsAssumption DEF Calls
  <2>4. last' \in Calls \cup {NoCall} /\ since' \subseteq Calls
    BY <1>2, <1>4, <1>6 DEF TypeOK
  <2> QED BY <1>2, <1>3, <1>6, <2>1, <2>2, <2>3, <2>4 DEF TypeOK
<1>10. NumberedInv'
  <2> SUFFICES ASSUME NEW c \in Calls
               PROVE  /\ att'[c] <= attempt' /\ (c > emitted' => att'[c] = 0)
                      /\ att'[c] = 0 => phase'[c] = "none"
    BY DEF NumberedInv
  <2>1. CASE c = n
    BY <2>1, <1>2, <1>5, <1>8
  <2>2. CASE c # n
    BY <2>2, <1>2, <1>5, <1>8 DEF IInv, NumberedInv
  <2> QED BY <2>1, <2>2
<1>11. last # NoCall => last \in Calls /\ last < n /\ last # n
  BY <1>5, <1>6, <1>8 DEF IInv, GateInv, TypeOK
<1>12. GateInv'
  <2>1. last' # NoCall => kind'[last'] = "exclusive" /\ att'[last'] = attempt' /\ phase'[last'] # "none"
    BY <1>2, <1>4, <1>8, <1>11 DEF IInv, GateInv, Admitted
  <2>2. ASSUME NEW c \in Calls, att'[c] = attempt', Admitted(c)', c > last'
        PROVE  c \in since' /\ kind'[c] # "exclusive"
    <3>1. CASE k = "exclusive"
      BY <2>2, <3>1, <1>2, <1>4, <1>5, <1>8
    <3>2. CASE k # "exclusive"
      BY <2>2, <3>2, <1>2, <1>4, <1>5, <1>8 DEF IInv, GateInv
    <3> QED BY <3>1, <3>2
  <2> QED BY <2>1, <2>2 DEF GateInv, Admitted
<1>13. ASSUME NEW c \in Calls, Ordered(c, n)'
       PROVE  Covered(c, n)'
  <2>1. /\ c < n /\ att[c] = attempt /\ Admitted(c)
        /\ kind[c] = "exclusive" \/ k = "exclusive"
    BY <1>13, <1>2, <1>5, <1>8 DEF Ordered
  <2>2. CASE last # NoCall /\ c < last
    <3>1. /\ last \in WaitSet(k) /\ kind'[last] = "exclusive" /\ att'[last] = att'[n]
          /\ phase'[last] # "none" /\ last < n /\ last \in Calls
      BY <2>2, <1>2, <1>8, <1>11 DEF IInv, GateInv, WaitSet, Admitted
    <3> QED BY <2>2, <3>1, <1>2, <1>8 DEF Covered, Admitted
  <2>3. CASE c = last
    BY <2>3, <1>2, <1>5, <1>8 DEF Covered, WaitSet, NoCall, Calls
  <2>4. CASE c > last
    BY <2>1, <2>4, <1>2, <1>8 DEF IInv, GateInv, Covered, WaitSet
  <2>5. c > last \/ c = last \/ (last # NoCall /\ c < last)
    BY <1>5, <1>6 DEF TypeOK, NoCall, Calls
  <2> QED BY <2>2, <2>3, <2>4, <2>5
<1>14. OrderInv'
  <2> SUFFICES ASSUME NEW c \in Calls, NEW d \in Calls, Ordered(c, d)'
               PROVE  Covered(c, d)'
    BY DEF OrderInv
  <2>1. CASE d = n
    BY <2>1, <1>13
  <2>2. CASE d # n
    <3>1. c < d /\ Admitted(d) /\ d < n /\ c # n
      BY <2>2, <1>2, <1>5, <1>8 DEF Ordered
    <3>2. Ordered(c, d)
      BY <2>2, <3>1, <1>8 DEF Ordered
    <3>3. Covered(c, d)
      BY <3>2 DEF IInv, OrderInv
    <3>4. \A e \in waitFor[d] : e \in Calls
      BY <1>6 DEF TypeOK
    <3> QED BY <2>2, <3>1, <3>3, <3>4, <1>8 DEF Covered
  <2> QED BY <2>1, <2>2
<1>15. WaitedInv'
  <2> SUFFICES ASSUME ~cancelled', NEW d \in Calls
               PROVE  phase'[d] # "refused" /\ (Started(d)' => Ready(d)')
    BY DEF WaitedInv
  <2>1. phase[d] # "refused" /\ (Started(d) => Ready(d))
    BY <1>3 DEF IInv, WaitedInv
  <2>2. \A e \in waitFor[d] : e \in Calls
    BY <1>6 DEF TypeOK
  <2> QED BY <2>1, <2>2, <1>2, <1>8 DEF Started, Ready
<1>16. NothingOvertakesAWrite'
  <2> SUFFICES ASSUME ~cancelled', NEW c \in Calls, NEW d \in Calls,
                      c < d, att'[c] = att'[d], phase'[c] # "none", Started(d)',
                      kind'[c] = "exclusive" \/ kind'[d] = "exclusive"
               PROVE  phase'[c] = "finished"
    BY DEF NothingOvertakesAWrite
  <2>1. d # n /\ Started(d) /\ Admitted(d) /\ c # n
    BY <1>2, <1>5, <1>8 DEF Started, Admitted
  <2> QED BY <2>1, <1>3, <1>8 DEF IInv, NothingOvertakesAWrite, Started
<1>17. ResultsInv'
  <2> SUFFICES ASSUME NEW c \in Calls
               PROVE  /\ Admitted(c)' => /\ c \notin collapsed'
                                         /\ results'[c] = IF phase'[c] \in {"reported", "finished"} THEN 1 ELSE 0
                      /\ ~Admitted(c)' /\ turn' \in {"streaming", "collecting"} => results'[c] = 0
                      /\ att'[c] = attempt' /\ ~Admitted(c)' => c \in collapsed'
                      /\ c \in collapsed' => att'[c] = attempt'
    BY DEF ResultsInv, Admitted
  <2>1. CASE c = n
    BY <2>1, <1>2, <1>3, <1>8 DEF IInv, ResultsInv, Admitted
  <2>2. CASE c # n
    BY <2>2, <1>2, <1>3, <1>8 DEF IInv, ResultsInv
  <2> QED BY <2>1, <2>2
<1>18. EveryCallAnswered'
  BY <1>3 DEF EveryCallAnswered
<1> QED BY <1>9, <1>10, <1>12, <1>14, <1>15, <1>16, <1>17, <1>18 DEF IInv

-----------------------------------------------------------------------------
(***************************************************************************)
(* The goroutine of a call.                                                *)
(***************************************************************************)
\* The phases change one at a time and a call that was admitted stays so.
LEMMA StepInv ==
  ASSUME IInv, NEW c \in Calls, NEW p \in Phases \ {"none"}, Admitted(c),
         phase' = [phase EXCEPT ![c] = p], UNCHANGED <<loop, kind, att, waitFor, last, since, collapsed>>,
         holding' \subseteq Calls, crashed' \in BOOLEAN,
         results' = [results EXCEPT ![c] = IF p \in {"reported", "finished"} THEN 1 ELSE 0],
         phase[c] # "finished", phase[c] = "reported" => p = "finished",
         p = "refused" => cancelled,
         ~cancelled /\ p \in {"running", "reported", "finished"} => Ready(c) \/ Started(c)
  PROVE  IInv'
<1>1. TypeOK /\ TypeOK' 
  <2>1. results' \in [Calls -> 0..1] /\ phase' \in [Calls -> Phases]
    BY DEF IInv, TypeOK
  <2> QED BY <2>1 DEF IInv, TypeOK, loop
<1>2. \A d \in Calls : /\ phase'[d] = IF d = c THEN p ELSE phase[d]
                       /\ phase[d] = "finished" => phase'[d] = "finished"
                       /\ Admitted(d)' <=> Admitted(d)
                       /\ waitFor[d] \subseteq Calls
  BY <1>1 DEF TypeOK, Admitted
<1>3. NumberedInv' /\ GateInv'
  BY <1>1, <1>2 DEF IInv, NumberedInv, GateInv, TypeOK, loop, Admitted
<1>4. OrderInv'
  BY <1>2 DEF IInv, OrderInv, Ordered, Covered
<1>5. ASSUME ~cancelled, NEW d \in Calls, Started(d)'
      PROVE  Ready(d)
  BY <1>2, <1>5 DEF IInv, WaitedInv, Started
<1>6. WaitedInv'
  <2>1. ASSUME ~cancelled', NEW d \in Calls
        PROVE  phase'[d] # "refused" /\ (Started(d)' => Ready(d)')
    BY <2>1, <1>2, <1>5 DEF IInv, WaitedInv, Ready, loop
  <2> QED BY <2>1 DEF WaitedInv
<1>7. NothingOvertakesAWrite'
  <2> SUFFICES ASSUME ~cancelled', NEW b \in Calls, NEW d \in Calls,
                      b < d, att'[b] = att'[d], phase'[b] # "none", Started(d)',
                      kind'[b] = "exclusive" \/ kind'[d] = "exclusive"
               PROVE  phase'[b] = "finished"
    BY DEF NothingOvertakesAWrite
  <2>1. ~cancelled /\ Admitted(b) /\ Admitted(d) /\ Ready(d)
    BY <1>2, <1>5 DEF loop, Started, Admitted
  <2>2. Covered(b, d)
    BY <2>1 DEF IInv, OrderInv, Ordered
  <2>3. CASE b \in waitFor[d]
    BY <2>1, <2>3, <1>2 DEF Ready
  <2>4. ASSUME NEW e \in waitFor[d], kind[e] = "exclusive", b < e, e < d,
               att[e] = att[d], Admitted(e)
        PROVE  phase[b] = "finished"
    <3>1. phase[e] = "finished" /\ e \in Calls /\ Started(e)
      BY <2>1, <1>2 DEF Ready, Started
    <3> QED BY <2>1, <2>4, <3>1 DEF IInv, NothingOvertakesAWrite, Admitted
  <2> QED BY <2>2, <2>3, <2>4, <1>2 DEF Covered
<1>8. ResultsInv'
  <2>1. \A d \in Calls : results'[d] = IF d = c THEN IF p \in {"reported", "finished"} THEN 1 ELSE 0
                                       ELSE results[d]
    BY <1>1 DEF TypeOK
  <2> QED BY <2>1, <1>2 DEF IInv, ResultsInv, loop
<1>9. EveryCallAnswered'
  <2>1. ASSUME turn = "answered", c \in Of(attempt)
        PROVE  p = "finished" /\ results'[c] = 1
    BY <2>1, <1>1 DEF IInv, EveryCallAnswered, ResultsInv, TypeOK
  <2> QED BY <2>1, <1>1 DEF IInv, EveryCallAnswered, Of, loop, TypeOK
<1> QED BY <1>1, <1>3, <1>4, <1>6, <1>7, <1>8, <1>9 DEF IInv

\* A call begins when the calls it waits for are over.
LEMMA BeginInv ==
  ASSUME IInv, NEW c \in Calls, Begin(c)
  PROVE  IInv'
<1>1. holding' \subseteq Calls
  BY DEF IInv, TypeOK, Begin
<1>2. results' = [results EXCEPT ![c] = 0]
  <2>1. results[c] = 0
    BY DEF IInv, ResultsInv, Begin, Admitted
  <2> QED BY <2>1 DEF IInv, TypeOK, Begin
<1>3. "running" \in Phases \ {"none"} /\ Admitted(c)
  BY DEF Begin, Phases, Admitted
<1> QED BY <1>1, <1>2, <1>3, StepInv DEF Begin, Emits

\* A call is refused when the run is over.
LEMMA RefuseInv ==
  ASSUME IInv, NEW c \in Calls, Refuse(c)
  PROVE  IInv'
<1>1. holding' \subseteq Calls /\ crashed' \in BOOLEAN
  BY DEF IInv, TypeOK, Refuse, gate
<1>2. results' = [results EXCEPT ![c] = 0]
  <2>1. results[c] = 0
    BY DEF IInv, ResultsInv, Refuse, Admitted
  <2> QED BY <2>1 DEF IInv, TypeOK, Refuse
<1>3. "refused" \in Phases \ {"none"} /\ Admitted(c)
  BY DEF Refuse, Phases, Admitted
<1> QED BY <1>1, <1>2, <1>3, StepInv DEF Refuse, gate

\* A call reports once.
LEMMA ReportInv ==
  ASSUME IInv, NEW c \in Calls, Report(c)
  PROVE  IInv'
<1>1. holding' \subseteq Calls
  BY DEF IInv, TypeOK, Report, gate
<1>2. results' = [results EXCEPT ![c] = 1]
  <2>1. results[c] = 0
    BY DEF IInv, ResultsInv, Report, Admitted
  <2> QED BY <2>1 DEF IInv, TypeOK, Report
<1>3. "reported" \in Phases \ {"none"} /\ Admitted(c)
  BY DEF Report, Phases, Admitted
<1>4. ~cancelled => Started(c)
  BY DEF IInv, WaitedInv, Report, Started
<1> QED BY <1>1, <1>2, <1>3, <1>4, StepInv DEF Report, Emits, gate

\* A ticket is finished after its call has reported.
LEMMA FinishInv ==
  ASSUME IInv, NEW c \in Calls, Finish(c)
  PROVE  IInv'
<1>1. holding' \subseteq Calls /\ crashed' \in BOOLEAN
  BY DEF IInv, TypeOK, Finish, ReleaseSlot
<1>2. results' = [results EXCEPT ![c] = 1]
  <2>1. results[c] = 1
    BY DEF IInv, ResultsInv, Finish, Admitted
  <2> QED BY <2>1 DEF IInv, TypeOK, Finish
<1>3. "finished" \in Phases \ {"none"} /\ Admitted(c)
  BY DEF Finish, Phases, Admitted
<1>4. Started(c)
  BY DEF Finish, Started
<1> QED BY <1>1, <1>2, <1>3, <1>4, StepInv DEF Finish

-----------------------------------------------------------------------------
(***************************************************************************)
(* The theorems.                                                           *)
(***************************************************************************)
LEMMA NextInv == IInv /\ [Next]_vars => IInv'
<1> SUFFICES ASSUME IInv, [Next]_vars PROVE IInv'
  OBVIOUS
<1>1. ASSUME NEW k \in Kinds, Emit(k) PROVE IInv'
  <2>1. CASE k # "repeat"
    BY <1>1, <2>1, AdmitInv
  <2>2. CASE k = "repeat"
    BY <1>1, <2>2, CollapseInv DEF Emit
  <2> QED BY <2>1, <2>2
<1>2. ASSUME NEW c \in Calls, CallStep(c) PROVE IInv'
  BY <1>2, BeginInv, RefuseInv, ReportInv, FinishInv DEF CallStep
<1>3. CASE UNCHANGED vars
  BY <1>3 DEF vars, loop, calls, gate, IInv, TypeOK, NumberedInv, GateInv, OrderInv,
     Ordered, Covered, WaitedInv, NothingOvertakesAWrite, Started, Ready, ResultsInv,
     EveryCallAnswered, Admitted, Of
<1> QED BY <1>1, <1>2, <1>3, RetryInv, CollectInv, TurnMovesInv DEF Next, TurnMoves

\* The induction: the strengthened invariant holds of every behaviour.
THEOREM Invariance == Spec => []IInv
<1>1. Init => IInv
  BY InitInv
<1>2. IInv /\ [Next]_vars => IInv'
  BY NextInv
<1> QED BY <1>1, <1>2, PTL DEF Spec

\* Every variable keeps its type; in particular no call is answered twice.
THEOREM TypeCorrect == Spec => []TypeOK
<1>1. IInv => TypeOK
  BY DEF IInv
<1> QED BY <1>1, Invariance, PTL

\* In a run that is not stopped, of two calls of an attempt of which one is
\* exclusive the later starts only after the earlier is over: the gate is
\* correct for any number of calls in any order of kinds.
THEOREM WritesAreNotOvertaken == Spec => []NothingOvertakesAWrite
<1>1. IInv => NothingOvertakesAWrite
  BY DEF IInv
<1> QED BY <1>1, Invariance, PTL

\* When a turn is answered, each call of its attempt has exactly one result.
THEOREM CallsAreAnswered == Spec => []EveryCallAnswered
<1>1. IInv => EveryCallAnswered
  BY DEF IInv
<1> QED BY <1>1, Invariance, PTL

-----------------------------------------------------------------------------
(***************************************************************************)
(* The batches.  partitionToolCalls is a loop over the calls; what it has  *)
(* made of the first m of them is stated for every set of calls D and      *)
(* every declaration k, and is carried on from one call to the next.       *)
(***************************************************************************)
\* An exclusive call of D lies in the stretch from c to d.
Between(c, d, D, k) == \E e \in D : c <= e /\ e <= d /\ k[e] = "exclusive"

\* AddCall, with the declarations written out.
Added(B, c, k) ==
    IF B # << >> /\ B[Len(B)].safe /\ k[c] # "exclusive"
    THEN [B EXCEPT ![Len(B)].members = @ \cup {c}]
    ELSE Append(B, [safe |-> k[c] # "exclusive", members |-> {c}])

\* f has the batches after each of the first m calls.
Walks(f, m, D, k) ==
    f = [i \in 0..m |-> IF i = 0 THEN << >>
                        ELSE IF i \in D THEN Added(f[i - 1], i, k) ELSE f[i - 1]]

\* A batch has calls of D, all safe or all exclusive, and every call is in one.
Cover(B, D, k) ==
    /\ B \in Seq(Batch)
    /\ \A i \in 1..Len(B) : /\ B[i].members \subseteq D /\ B[i].members # {}
                            /\ \A c \in B[i].members : k[c] = "exclusive" <=> ~B[i].safe
    /\ \A c \in D : \E i \in 1..Len(B) : c \in B[i].members

\* The batches follow the order of the calls, and two calls are in different
\* batches when an exclusive call separates them.
InOrder(B, D, k) ==
    \A i, j \in 1..Len(B) : \A c \in B[i].members, d \in B[j].members :
      c <= d => i <= j /\ (i < j <=> c < d /\ Between(c, d, D, k))

Batches(m) ==
    \A D \in SUBSET Calls, k \in [Calls -> Kinds] :
      /\ \E f : Walks(f, m, D, k)
      /\ \A f : Walks(f, m, D, k) =>
                  Cover(f[m], D \cap (1..m), k) /\ InOrder(f[m], D \cap (1..m), k)

\* A call that comes after those of D joins the last batch or opens one.
LEMMA AddedAgrees ==
  ASSUME NEW D \in SUBSET Calls, NEW k \in [Calls -> Kinds], NEW n \in Calls,
         \A c \in D : c < n, NEW B, Cover(B, D, k), InOrder(B, D, k)
  PROVE  /\ Cover(Added(B, n, k), D \cup {n}, k)
         /\ InOrder(Added(B, n, k), D \cup {n}, k)
<1> DEFINE E == D \cup {n}
<1>0. /\ B \in Seq(Batch) /\ Len(B) \in Nat /\ n \in Nat /\ \A c \in D : c \in Nat
      /\ n \notin D /\ E \in SUBSET Calls
  BY DEF Cover, Calls
<1>1. \A c, d \in D : Between(c, d, E, k) <=> Between(c, d, D, k)
  BY <1>0 DEF Between
<1>2. CASE B # << >> /\ B[Len(B)].safe /\ k[n] # "exclusive"
  <2> DEFINE z == Len(B)
             C == [B EXCEPT ![z].members = @ \cup {n}]
  <2>1. Added(B, n, k) = C
    BY <1>2 DEF Added
  <2>2. z \in 1..Len(B)
    BY <1>0, <1>2
  <2>3. /\ C \in Seq(Batch) /\ Len(C) = z
        /\ \A i \in 1..z : /\ C[i].safe = B[i].safe
                           /\ C[i].members = IF i = z THEN B[i].members \cup {n}
                                             ELSE B[i].members
    <3>1. \A i \in 1..z : B[i] \in Batch
      BY <1>0
    <3>0. B \in [1..z -> Batch]
      BY <1>0
    <3>2. C = [i \in 1..z |-> IF i = z THEN [B[z] EXCEPT !.members = @ \cup {n}] ELSE B[i]]
      BY <3>0
    <3>3. [B[z] EXCEPT !.members = @ \cup {n}] \in Batch
      BY <2>2, <3>1 DEF Batch
    <3>4. C \in [1..z -> Batch]
      BY <3>1, <3>2, <3>3
    <3>5. C \in Seq(Batch) /\ Len(C) = z
      BY <1>0, <3>4
    <3> QED BY <2>2, <3>1, <3>2, <3>5 DEF Batch
  <2> HIDE DEF C
  <2>4. Cover(C, E, k)
    <3>1. ASSUME NEW i \in 1..z
          PROVE  /\ C[i].members \subseteq E /\ C[i].members # {}
                 /\ \A c \in C[i].members : k[c] = "exclusive" <=> ~C[i].safe
      <4>1. /\ B[i].members \subseteq D /\ B[i].members # {}
            /\ \A c \in B[i].members : k[c] = "exclusive" <=> ~B[i].safe
        BY DEF Cover
      <4> QED BY <4>1, <1>2, <2>3
    <3>2. ASSUME NEW c \in E PROVE \E i \in 1..z : c \in C[i].members
      <4>1. CASE c = n
        BY <2>2, <2>3, <4>1
      <4>2. CASE c \in D
        BY <2>3, <4>2 DEF Cover
      <4> QED BY <4>1, <4>2
    <3> QED BY <2>3, <3>1, <3>2 DEF Cover
  <2>5. ASSUME NEW i \in 1..z, NEW c \in B[i].members
        PROVE  i < z <=> Between(c, n, E, k)
    <3>1. c \in D
      BY <2>5 DEF Cover
    <3>2. ASSUME i < z PROVE Between(c, n, E, k)
      <4>1. PICK d \in B[z].members : TRUE
        BY <2>2 DEF Cover
      <4>2. d \in D /\ d < n
        BY <2>2, <4>1 DEF Cover
      <4>3. c < d /\ Between(c, d, D, k)
        BY <1>0, <2>2, <2>5, <3>1, <3>2, <4>1, <4>2 DEF InOrder
      <4> QED BY <1>0, <4>2, <4>3 DEF Between
    <3>3. ASSUME i = z, NEW e \in E, c <= e, e <= n, k[e] = "exclusive"
          PROVE  FALSE
      <4>1. e \in D
        BY <1>2, <3>3
      <4>2. PICK j \in 1..z : e \in B[j].members
        BY <4>1 DEF Cover
      <4>3. z <= j
        BY <2>2, <2>5, <3>3, <4>2 DEF InOrder
      <4>4. j = z
        BY <1>0, <4>2, <4>3
      <4> QED BY <1>2, <2>2, <3>3, <4>2, <4>4 DEF Cover
    <3> QED BY <1>0, <3>2, <3>3 DEF Between
  <2>6. InOrder(C, E, k)
    <3> SUFFICES ASSUME NEW i \in 1..z, NEW j \in 1..z, NEW c \in C[i].members,
                        NEW d \in C[j].members, c <= d
                 PROVE  i <= j /\ (i < j <=> c < d /\ Between(c, d, E, k))
      BY <2>3 DEF InOrder
    <3>0. \A a \in 1..z : /\ B[a].members \subseteq D
                          /\ C[a].members = IF a = z THEN B[a].members \cup {n}
                                            ELSE B[a].members
      BY <2>3 DEF Cover
    <3>1. CASE c # n /\ d # n
      <4>1. c \in B[i].members /\ d \in B[j].members /\ c \in D /\ d \in D
        BY <3>0, <3>1
      <4>2. i <= j /\ (i < j <=> c < d /\ Between(c, d, D, k))
        BY <4>1 DEF InOrder
      <4>3. Between(c, d, E, k) <=> Between(c, d, D, k)
        BY <1>1, <4>1
      <4> QED BY <4>2, <4>3
    <3>2. CASE d = n /\ c # n
      <4>1. c \in B[i].members /\ c \in D /\ j = z
        BY <1>0, <3>0, <3>2
      <4>2. i < z <=> Between(c, n, E, k)
        BY <2>5, <4>1
      <4>3. c < d /\ i <= j
        BY <1>0, <3>2, <4>1
      <4> QED BY <3>2, <4>1, <4>2, <4>3
    <3>3. CASE c = n
      <4>1. \A a \in 1..z : \A x \in B[a].members : x \in D /\ x < n
        BY DEF Cover
      <4>2. i = z
        BY <1>0, <2>3, <3>3, <4>1
      <4>3. d = n
        <5>1. d \in B[j].members \/ d = n
          BY <2>3
        <5>2. d \in D => d < n /\ d \in Nat
          BY <1>0
        <5>3. d \notin D
          BY <1>0, <3>3, <5>2
        <5> QED BY <4>1, <5>1, <5>3
      <4>4. j = z
        BY <1>0, <2>3, <4>1, <4>3
      <4> QED BY <1>0, <3>3, <4>2, <4>3, <4>4
    <3> QED BY <3>1, <3>2, <3>3
  <2> QED BY <2>1, <2>4, <2>6
<1>3. CASE ~(B # << >> /\ B[Len(B)].safe /\ k[n] # "exclusive")
  <2> DEFINE z == Len(B) + 1
             new == [safe |-> k[n] # "exclusive", members |-> {n}]
             C == Append(B, new)
  <2>1. Added(B, n, k) = C
    BY <1>3 DEF Added
  <2>2. new \in Batch /\ new.members = {n} /\ (new.safe <=> k[n] # "exclusive")
    BY DEF Batch
  <2> HIDE DEF new
  <2>3. /\ C \in Seq(Batch) /\ Len(C) = z /\ C[z] = new
        /\ \A i \in 1..Len(B) : C[i] = B[i]
    BY <1>0, <2>2
  <2> HIDE DEF C
  <2>4. Cover(C, E, k)
    <3>1. ASSUME NEW i \in 1..Len(C)
          PROVE  /\ C[i].members \subseteq E /\ C[i].members # {}
                 /\ \A c \in C[i].members : k[c] = "exclusive" <=> ~C[i].safe
      <4>1. CASE i = z
        BY <2>2, <2>3, <4>1
      <4>2. CASE i \in 1..Len(B)
        BY <2>3, <4>2 DEF Cover
      <4> QED BY <1>0, <2>3, <4>1, <4>2
    <3>2. ASSUME NEW c \in E PROVE \E i \in 1..Len(C) : c \in C[i].members
      <4>1. CASE c = n
        BY <1>0, <2>2, <2>3, <4>1
      <4>2. CASE c \in D
        BY <1>0, <2>3, <4>2 DEF Cover
      <4> QED BY <4>1, <4>2
    <3> QED BY <2>3, <3>1, <3>2 DEF Cover
  <2>5. ASSUME NEW i \in 1..Len(B), NEW c \in B[i].members
        PROVE  Between(c, n, E, k)
    <3>1. c \in D /\ c < n
      BY <2>5 DEF Cover
    <3>2. CASE k[n] = "exclusive"
      BY <1>0, <3>1, <3>2 DEF Between
    <3>3. CASE k[n] # "exclusive"
      <4>1. Len(B) \in 1..Len(B) /\ ~B[Len(B)].safe
        BY <1>0, <1>3, <2>5, <3>3
      <4>2. PICK d \in B[Len(B)].members : d \in D /\ k[d] = "exclusive"
        BY <4>1 DEF Cover
      <4>3. c <= d \/ d <= c
        BY <1>0, <3>1, <4>2
      <4>4. CASE c <= d
        BY <1>0, <4>2, <4>4 DEF Between
      <4>5. CASE d <= c
        <5>1. Len(B) <= i
          BY <2>5, <4>1, <4>2, <4>5 DEF InOrder
        <5>2. i = Len(B)
          BY <1>0, <5>1
        <5>3. k[c] = "exclusive"
          BY <2>5, <4>1, <5>2 DEF Cover
        <5> QED BY <1>0, <3>1, <5>3 DEF Between
      <4> QED BY <4>3, <4>4, <4>5
    <3> QED BY <3>2, <3>3
  <2>6. InOrder(C, E, k)
    <3> SUFFICES ASSUME NEW i \in 1..z, NEW j \in 1..z, NEW c \in C[i].members,
                        NEW d \in C[j].members, c <= d
                 PROVE  i <= j /\ (i < j <=> c < d /\ Between(c, d, E, k))
      BY <2>3 DEF InOrder
    <3>0. (i = z \/ i \in 1..Len(B)) /\ (j = z \/ j \in 1..Len(B))
      BY <1>0
    <3>1. CASE i = z
      <4>1. c = n
        BY <2>2, <2>3, <3>1
      <4>2. j = z
        <5>1. ASSUME j \in 1..Len(B) PROVE FALSE
          <6>1. d \in D
            BY <2>3, <5>1 DEF Cover
          <6> QED BY <1>0, <4>1, <6>1
        <5> QED BY <3>0, <5>1
      <4>3. d = n
        BY <2>2, <2>3, <4>2
      <4> QED BY <1>0, <3>1, <4>1, <4>2, <4>3
    <3>2. CASE i \in 1..Len(B) /\ j = z
      <4>1. c \in B[i].members /\ c \in D /\ d = n
        BY <2>2, <2>3, <3>2 DEF Cover
      <4>2. i < j /\ i <= j
        BY <1>0, <3>2
      <4>3. Between(c, n, E, k)
        BY <2>5, <3>2, <4>1
      <4>4. c < d
        BY <4>1
      <4> QED BY <4>1, <4>2, <4>3, <4>4
    <3>3. CASE i \in 1..Len(B) /\ j \in 1..Len(B)
      <4>1. c \in B[i].members /\ d \in B[j].members /\ c \in D /\ d \in D
        BY <2>3, <3>3 DEF Cover
      <4>2. i <= j /\ (i < j <=> c < d /\ Between(c, d, D, k))
        BY <3>3, <4>1 DEF InOrder
      <4>3. Between(c, d, E, k) <=> Between(c, d, D, k)
        BY <1>1, <4>1
      <4> QED BY <4>2, <4>3
    <3> QED BY <3>0, <3>1, <3>2, <3>3
  <2> QED BY <2>1, <2>4, <2>6
<1> QED BY <1>2, <1>3

\* What holds after m calls holds after the next.
LEMMA BatchesGrow ==
  ASSUME NEW m \in Nat, m + 1 \in Calls, Batches(m)
  PROVE  Batches(m + 1)
<1> SUFFICES ASSUME NEW D \in SUBSET Calls, NEW k \in [Calls -> Kinds]
             PROVE  /\ \E f : Walks(f, m + 1, D, k)
                    /\ \A f : Walks(f, m + 1, D, k) =>
                         /\ Cover(f[m + 1], D \cap (1..(m + 1)), k)
                         /\ InOrder(f[m + 1], D \cap (1..(m + 1)), k)
  BY DEF Batches
<1> DEFINE Body(f, i) == IF i = 0 THEN << >>
                         ELSE IF i \in D THEN Added(f[i - 1], i, k) ELSE f[i - 1]
<1>1. \E f : Walks(f, m + 1, D, k)
  <2>1. PICK f : Walks(f, m, D, k)
    BY DEF Batches
  <2>2. f = [i \in 0..m |-> Body(f, i)]
    BY <2>1 DEF Walks
  <2> HIDE DEF Body
  <2> DEFINE g == [i \in 0..(m + 1) |-> IF i = m + 1 THEN Body(f, i) ELSE f[i]]
  <2>3. \A i \in 0..(m + 1) : g[i] = Body(f, i)
    BY <2>2
  <2>4. \A i \in 0..(m + 1) : Body(f, i) = Body(g, i)
    <3>1. \A i \in 1..(m + 1) : g[i - 1] = f[i - 1]
      OBVIOUS
    <3> HIDE DEF g
    <3> QED BY <3>1 DEF Body
  <2>5. g = [i \in 0..(m + 1) |-> Body(g, i)]
    <3>1. g = [i \in 0..(m + 1) |-> g[i]]
      OBVIOUS
    <3> HIDE DEF g
    <3> QED BY <3>1, <2>3, <2>4
  <2>6. Walks(g, m + 1, D, k)
    BY <2>5 DEF Walks, Body
  <2> QED BY <2>6
<1>2. ASSUME NEW f, Walks(f, m + 1, D, k)
      PROVE  /\ Cover(f[m + 1], D \cap (1..(m + 1)), k)
             /\ InOrder(f[m + 1], D \cap (1..(m + 1)), k)
  <2>1. f = [i \in 0..(m + 1) |-> Body(f, i)]
    BY <1>2 DEF Walks
  <2> HIDE DEF Body
  <2> DEFINE h == [i \in 0..m |-> f[i]]
  <2>2. \A i \in 0..m : Body(f, i) = Body(h, i)
    <3>1. \A i \in 1..m : h[i - 1] = f[i - 1]
      OBVIOUS
    <3> HIDE DEF h
    <3> QED BY <3>1 DEF Body
  <2>3. h = [i \in 0..m |-> Body(h, i)]
    <3>1. \A i \in 0..m : f[i] = Body(f, i)
      BY <2>1
    <3>2. \A i \in 0..m : h[i] = Body(h, i)
      BY <2>2, <3>1
    <3>3. h = [i \in 0..m |-> h[i]]
      OBVIOUS
    <3> HIDE DEF h
    <3> QED BY <3>2, <3>3
  <2>4. Walks(h, m, D, k)
    BY <2>3 DEF Walks, Body
  <2>5. h[m] = f[m]
    OBVIOUS
  <2> HIDE DEF h
  <2>6. Cover(f[m], D \cap (1..m), k) /\ InOrder(f[m], D \cap (1..m), k)
    BY <2>4, <2>5 DEF Batches
  <2>7. f[m + 1] = IF m + 1 \in D THEN Added(f[m], m + 1, k) ELSE f[m]
    BY <2>1 DEF Body
  <2>8. CASE m + 1 \in D
    <3>1. /\ D \cap (1..(m + 1)) = (D \cap (1..m)) \cup {m + 1}
          /\ D \cap (1..m) \in SUBSET Calls /\ \A c \in D \cap (1..m) : c < m + 1
      BY <2>8
    <3>2. /\ Cover(Added(f[m], m + 1, k), (D \cap (1..m)) \cup {m + 1}, k)
          /\ InOrder(Added(f[m], m + 1, k), (D \cap (1..m)) \cup {m + 1}, k)
      BY <2>6, <3>1, AddedAgrees
    <3> QED BY <2>7, <2>8, <3>1, <3>2
  <2>9. CASE m + 1 \notin D
    <3>1. D \cap (1..(m + 1)) = D \cap (1..m)
      BY <2>9
    <3> QED BY <2>6, <2>7, <2>9, <3>1
  <2> QED BY <2>8, <2>9
<1> QED BY <1>1, <1>2

\* No call makes no batch.
LEMMA BatchesBegin == Batches(0)
<1> SUFFICES ASSUME NEW D \in SUBSET Calls, NEW k \in [Calls -> Kinds]
             PROVE  /\ \E f : Walks(f, 0, D, k)
                    /\ \A f : Walks(f, 0, D, k) =>
                         Cover(f[0], D \cap (1..0), k) /\ InOrder(f[0], D \cap (1..0), k)
  BY DEF Batches
<1> DEFINE g == [i \in 0..0 |-> << >>]
<1>1. Walks(g, 0, D, k)
  BY DEF Walks
<1>2. ASSUME NEW f, Walks(f, 0, D, k)
      PROVE  Cover(f[0], D \cap (1..0), k) /\ InOrder(f[0], D \cap (1..0), k)
  <2>1. f[0] = << >>
    BY <1>2 DEF Walks
  <2> QED BY <2>1 DEF Cover, InOrder
<1> HIDE DEF g
<1> QED BY <1>1, <1>2

\* The loop is right for any number of calls: it is for none, and there is no
\* least number for which it is not.
LEMMA BatchesAlways == \A m \in 0..MaxCalls : Batches(m)
<1> SUFFICES ASSUME NEW w \in 0..MaxCalls, ~Batches(w) PROVE FALSE
  OBVIOUS
<1> DEFINE Wrong == {m \in 0..MaxCalls : ~Batches(m)}
<1>1. Wrong \in SUBSET Nat /\ Wrong # {}
  BY BoundsAssumption
<1>2. PICK m \in Wrong : \A x \in Wrong : m <= x
  BY <1>1, LeastNumber
<1>3. m # 0
  BY <1>2, BatchesBegin
<1>4. m - 1 \in Nat /\ m - 1 \in 0..MaxCalls /\ (m - 1) + 1 = m /\ m \in Calls /\ ~(m <= m - 1)
  BY <1>2, <1>3, BoundsAssumption DEF Calls
<1>5. Batches(m - 1)
  BY <1>2, <1>4
<1>6. Batches((m - 1) + 1)
  BY <1>4, <1>5, BatchesGrow
<1> QED BY <1>2, <1>4, <1>6

\* What partitionToolCalls makes of the calls of the attempt.
LEMMA Partition ==
  ASSUME IInv
  PROVE  /\ Cover(partitionToolCalls, Dispatched(attempt), kind)
         /\ InOrder(partitionToolCalls, Dispatched(attempt), kind)
<1> DEFINE D == Dispatched(attempt)
<1>1. D \in SUBSET Calls /\ D \cap (1..emitted) = D
  <2>1. \A c \in D : c \in Calls /\ c <= emitted /\ c >= 1
    BY BoundsAssumption DEF IInv, TypeOK, NumberedInv, Dispatched, Of, Calls
  <2>2. emitted \in Nat
    BY BoundsAssumption DEF IInv, TypeOK
  <2> QED BY <2>1, <2>2 DEF Calls
<1>2. kind \in [Calls -> Kinds] /\ Batches(emitted)
  BY BatchesAlways DEF IInv, TypeOK
<1>3. PICK f : Walks(f, emitted, D, kind)
  BY <1>1, <1>2 DEF Batches
<1> HIDE DEF D
<1>4. Walks(batchesAfter, emitted, D, kind)
  BY <1>3 DEF Walks, Added, batchesAfter, AddCall, Joins, IsSafe, D
<1>5. emitted \in Nat
  BY BoundsAssumption DEF IInv, TypeOK
<1>6. Cover(batchesAfter[emitted], D, kind) /\ InOrder(batchesAfter[emitted], D, kind)
  BY <1>1, <1>2, <1>4 DEF Batches
<1> QED BY <1>6 DEF partitionToolCalls, D

-----------------------------------------------------------------------------
(***************************************************************************)
(* The gate.  A ticket waits for a few done channels; with what these wait *)
(* for, that is every call before an exclusive one in between.             *)
(***************************************************************************)
Separated(c, d) == Between(c, d, Dispatched(attempt), kind)

\* No ticket waits for more than it must, and with those it waits for it waits
\* for all it must.
WaitsFor ==
    /\ \A c \in Calls : ~Admitted(c) => waitFor[c] = {}
    /\ since \subseteq Dispatched(attempt)
    /\ \A c \in Dispatched(attempt) : \A d \in waitFor[c] :
         d \in Dispatched(attempt) /\ d < c /\ Separated(d, c)
    /\ \A c, d \in Dispatched(attempt) :
         d < c /\ Separated(d, c) => d \in Predecessors(c)

\* The calls the gate has seen are those it admitted.
LEMMA DispatchedIs ==
  IInv => \A c \in Calls : c \in Dispatched(attempt) <=> att[c] = attempt /\ Admitted(c)
BY DEF IInv, ResultsInv, Dispatched, Of

\* A turn starts with a gate that has seen no call.
LEMMA WaitsForInit == Init => WaitsFor
BY DEF Init, WaitsFor, Dispatched, Of, Admitted

\* The gate and the declarations are left alone.
LEMMA WaitsForKept ==
  ASSUME IInv, WaitsFor, UNCHANGED <<attempt, kind, att, waitFor, since, collapsed>>,
         \A c \in Calls : Admitted(c)' <=> Admitted(c)
  PROVE  WaitsFor'
BY DEF WaitsFor, Separated, Between, Dispatched, Of, Predecessors, Closed

\* A new attempt has a gate that has seen no call.
LEMMA WaitsForRetry ==
  ASSUME IInv, WaitsFor, StreamIsRetried
  PROVE  WaitsFor'
<1>1. \A c \in Calls : att[c] # attempt'
  BY BoundsAssumption DEF IInv, TypeOK, NumberedInv, StreamIsRetried
<1>2. Dispatched(attempt)' = {}
  BY <1>1 DEF Dispatched, Of, StreamIsRetried, calls
<1> QED BY <1>2 DEF WaitsFor, StreamIsRetried, calls, Admitted

\* What waits for what grows by the new call's: who was waited for, directly or
\* not, still is.
LEMMA PredecessorsGrow ==
  ASSUME IInv, NEW n \in Calls, waitFor[n] = {}, NEW W,
         waitFor' = [waitFor EXCEPT ![n] = W], NEW c \in Calls
  PROVE  Predecessors(c) \subseteq Predecessors(c)'
<1>1. \A e \in Calls : waitFor[e] \subseteq waitFor'[e]
  BY DEF IInv, TypeOK
<1>2. ASSUME NEW S \in SUBSET Calls, Closed(S)', waitFor'[c] \subseteq S
      PROVE  Closed(S) /\ waitFor[c] \subseteq S
  BY <1>1, <1>2 DEF Closed
<1> QED BY <1>2 DEF Predecessors

\* What a call waits for, and what that waits for, it waits for.
LEMMA PredecessorsClosed ==
  TypeOK => \A c \in Calls : \A d \in waitFor[c] :
              d \in Predecessors(c) /\ Predecessors(d) \subseteq Predecessors(c)
<1> SUFFICES ASSUME TypeOK, NEW c \in Calls, NEW d \in waitFor[c]
             PROVE  d \in Predecessors(c) /\ Predecessors(d) \subseteq Predecessors(c)
  OBVIOUS
<1>1. d \in Calls
  BY DEF TypeOK
<1>2. ASSUME NEW S \in SUBSET Calls, Closed(S), waitFor[c] \subseteq S
      PROVE  d \in S /\ waitFor[d] \subseteq S
  BY <1>2 DEF Closed
<1> QED BY <1>1, <1>2 DEF Predecessors

\* A call that is admitted waits for all that must be over first, and no more.
LEMMA WaitsForEmit ==
  ASSUME IInv, WaitsFor, NEW k \in Kinds, Emit(k)
  PROVE  WaitsFor'
<1>1. PICK n \in Calls : n = emitted + 1
  BY EmitNumbers
<1>2. /\ att[n] = 0 /\ phase[n] = "none"
      /\ \A c \in Calls : c >= n => att[c] = 0
      /\ att' = [att EXCEPT ![n] = attempt] /\ attempt \in Nat \ {0}
      /\ kind' = [kind EXCEPT ![n] = k] /\ attempt' = attempt
  BY <1>1, EmitNumbers
<1>3. TypeOK /\ \A c \in Calls : c \in Nat
  BY DEF IInv, Calls
<1>4. IInv'
  BY AdmitInv, CollapseInv DEF Emit
<1>5. \A c \in Calls : /\ att'[c] = IF c = n THEN attempt ELSE att[c]
                       /\ kind'[c] = IF c = n THEN k ELSE kind[c]
  BY <1>2, <1>3 DEF TypeOK
<1>6. /\ \A c \in Calls : c \in Dispatched(attempt) <=> att[c] = attempt /\ phase[c] # "none"
      /\ \A c \in Calls : c \in Dispatched(attempt)' <=> att'[c] = attempt' /\ phase'[c] # "none"
      /\ Dispatched(attempt) \subseteq Calls /\ Dispatched(attempt)' \subseteq Calls
  <2>1. IInv' => (\A c \in Calls : c \in Dispatched(attempt) <=> att[c] = attempt /\ Admitted(c))'
    BY DispatchedIs, PTL
  <2>2. Dispatched(attempt) \subseteq Calls /\ Dispatched(attempt)' \subseteq Calls
    BY DEF Dispatched, Of
  <2> QED BY <1>4, <2>1, <2>2, DispatchedIs DEF Admitted
<1>7. \A c \in Dispatched(attempt) : c < n /\ c # n
  BY <1>2, <1>3, <1>6
<1>8. waitFor[n] = {}
  BY <1>2 DEF WaitsFor, Admitted
<1>9. CASE k = "repeat" /\ UNCHANGED <<waitFor, phase, last, since>>
  <2>1. Dispatched(attempt)' = Dispatched(attempt)
    BY <1>2, <1>5, <1>6, <1>9
  <2>2. \A c, d \in Dispatched(attempt) : Separated(c, d)' <=> Separated(c, d)
    BY <1>5, <1>6, <1>7, <2>1 DEF Separated, Between
  <2>3. \A c \in Calls : Predecessors(c)' = Predecessors(c)
    BY <1>9 DEF Predecessors, Closed
  <2> QED BY <1>6, <1>9, <2>1, <2>2, <2>3 DEF WaitsFor, Admitted
<1>10. CASE /\ k # "repeat" /\ waitFor' = [waitFor EXCEPT ![n] = WaitSet(k)]
            /\ phase' = [phase EXCEPT ![n] = "waiting"]
            /\ IF k = "exclusive" THEN since' = {} ELSE since' = since \cup {n}
  <2>1. \A c \in Calls : /\ phase'[c] = IF c = n THEN "waiting" ELSE phase[c]
                         /\ waitFor'[c] = IF c = n THEN WaitSet(k) ELSE waitFor[c]
    BY <1>3, <1>10 DEF TypeOK
  <2>2. Dispatched(attempt)' = Dispatched(attempt) \cup {n}
    BY <1>2, <1>5, <1>6, <2>1
  <2>3. \A c, d \in Dispatched(attempt) : Separated(c, d)' <=> Separated(c, d)
    BY <1>3, <1>5, <1>6, <1>7, <2>2 DEF Separated, Between
  <2>4. \A c \in Calls : Predecessors(c) \subseteq Predecessors(c)'
    BY <1>8, <1>10, PredecessorsGrow
  <2>5. last # NoCall => last \in Dispatched(attempt) /\ kind[last] = "exclusive"
    BY <1>3, <1>6 DEF IInv, GateInv, TypeOK, Admitted
  <2>6. \A c \in Dispatched(attempt) : c > last => c \in since /\ kind[c] # "exclusive"
    BY <1>6 DEF IInv, GateInv, Admitted
  <2>7. \A d \in waitFor'[n] : d \in Predecessors(n)' /\ Predecessors(d)' \subseteq Predecessors(n)'
    <3>1. TypeOK' => (\A c \in Calls : \A d \in waitFor[c] :
                        d \in Predecessors(c) /\ Predecessors(d) \subseteq Predecessors(c))'
      BY PredecessorsClosed, PTL
    <3> QED BY <1>4, <3>1 DEF IInv
  <2>8. \A c \in Calls : ~Admitted(c)' => waitFor'[c] = {}
    BY <2>1 DEF WaitsFor, Admitted
  <2>9. since' \subseteq Dispatched(attempt)'
    BY <1>10, <2>2 DEF WaitsFor
  <2>10. ASSUME NEW c \in Dispatched(attempt)', NEW d \in waitFor'[c]
         PROVE  d \in Dispatched(attempt)' /\ d < c /\ Separated(d, c)'
    <3>1. CASE c # n
      <4>1. c \in Dispatched(attempt) /\ d \in waitFor[c]
        BY <1>6, <2>1, <2>2, <2>10, <3>1
      <4>2. d \in Dispatched(attempt) /\ d < c /\ Separated(d, c)
        BY <4>1 DEF WaitsFor
      <4> QED BY <2>2, <2>3, <4>1, <4>2
    <3>2. CASE c = n
      <4>1. d \in Dispatched(attempt) /\ (k # "exclusive" => kind[d] = "exclusive")
        BY <2>1, <2>5, <2>10, <3>2 DEF WaitSet, WaitsFor, NoCall
      <4>2. d < n /\ d # n /\ d \in Calls
        BY <1>6, <1>7, <4>1
      <4>3. Separated(d, n)'
        <5>1. CASE k = "exclusive"
          BY <1>3, <1>5, <2>2, <4>2, <5>1 DEF Separated, Between
        <5>2. CASE k # "exclusive"
          BY <1>3, <1>5, <2>2, <4>1, <4>2, <5>2 DEF Separated, Between
        <5> QED BY <5>1, <5>2
      <4> QED BY <2>2, <3>2, <4>1, <4>2, <4>3
    <3> QED BY <3>1, <3>2
  <2>11. ASSUME NEW c \in Dispatched(attempt)', NEW d \in Dispatched(attempt)',
                d < c, Separated(d, c)'
         PROVE  d \in Predecessors(c)'
    <3>1. d # n
      <4>1. c < n \/ c = n
        BY <1>7, <2>2
      <4> QED BY <1>3, <1>6, <2>11, <4>1
    <3>2. d \in Dispatched(attempt) /\ d \in Calls
      BY <1>6, <2>2, <2>11, <3>1
    <3>3. CASE c # n
      <4>1. c \in Dispatched(attempt) /\ c \in Calls
        BY <1>6, <2>2, <2>11, <3>3
      <4>2. d \in Predecessors(c)
        BY <2>3, <2>11, <3>2, <4>1 DEF WaitsFor
      <4> QED BY <2>4, <4>1, <4>2
    <3>4. CASE c = n
      <4>1. waitFor'[n] = WaitSet(k)
        BY <2>1
      <4>2. d <= last \/ (k = "exclusive" /\ d \in since)
        <5>1. CASE k = "exclusive"
          BY <1>3, <2>6, <3>2, <5>1 DEF TypeOK, NoCall, Calls
        <5>2. CASE k # "exclusive"
          <6>1. PICK e \in Dispatched(attempt)' : d <= e /\ kind'[e] = "exclusive"
            BY <2>11 DEF Separated, Between
          <6>2. e \in Dispatched(attempt) /\ kind[e] = "exclusive" /\ e \in Calls
            BY <1>5, <1>6, <2>2, <5>2, <6>1
          <6>3. ~(e > last)
            BY <2>6, <6>2
          <6> QED BY <1>3, <3>2, <6>1, <6>2, <6>3 DEF TypeOK, NoCall, Calls
        <5> QED BY <5>1, <5>2
      <4>3. CASE k = "exclusive" /\ d \in since
        BY <2>7, <3>4, <4>1, <4>3 DEF WaitSet
      <4>4. CASE d <= last
        <5>1. last # NoCall /\ last \in Calls /\ d \in Nat /\ last \in Nat
          BY <1>3, <3>2, <4>4 DEF TypeOK, NoCall, Calls
        <5>2. PICK x \in Calls : x = last
          BY <5>1
        <5>3. x \in waitFor'[n]
          BY <4>1, <5>1, <5>2 DEF WaitSet
        <5>4. CASE d = x
          BY <2>7, <3>4, <5>3, <5>4
        <5>5. CASE d < x
          <6>1. x \in Dispatched(attempt) /\ Separated(d, x)
            BY <2>5, <5>1, <5>2, <5>5 DEF Separated, Between
          <6>2. d \in Predecessors(x)
            BY <3>2, <5>5, <6>1 DEF WaitsFor
          <6>3. d \in Predecessors(x)'
            BY <2>4, <6>2
          <6> QED BY <2>7, <3>4, <5>3, <6>3
        <5> QED BY <4>4, <5>1, <5>2, <5>4, <5>5
      <4> QED BY <4>2, <4>3, <4>4
    <3> QED BY <3>3, <3>4
  <2> QED BY <2>8, <2>9, <2>10, <2>11 DEF WaitsFor
<1> QED BY <1>1, <1>9, <1>10 DEF Emit

\* Only the stream adds calls to the gate, or makes a new one.
LEMMA WaitsForStep == IInv /\ WaitsFor /\ [Next]_vars => WaitsFor'
<1> SUFFICES ASSUME IInv, WaitsFor, [Next]_vars PROVE WaitsFor'
  OBVIOUS
<1>1. ASSUME UNCHANGED <<attempt, kind, att, waitFor, phase, since, collapsed>>
      PROVE  WaitsFor'
  <2>1. \A c \in Calls : Admitted(c)' <=> Admitted(c)
    BY <1>1 DEF Admitted
  <2> QED BY <1>1, <2>1, WaitsForKept
<1>2. CASE StreamEnds \/ Terminate \/ RunEnds \/ Cancel \/ Collect \/ UNCHANGED vars
  BY <1>1, <1>2 DEF StreamEnds, StreamSucceeds, StreamIsTerminal, StreamEndsTheRun,
     Terminate, RunEnds, Cancel, Collect, calls, gate, vars, loop
<1>3. ASSUME NEW c \in Calls, CallStep(c) PROVE WaitsFor'
  <2>1. UNCHANGED <<attempt, kind, att, waitFor, since, collapsed>>
    BY <1>3 DEF CallStep, Begin, Refuse, Report, Finish, loop, gate
  <2>2. phase[c] # "none" /\ \E p \in Phases \ {"none"} : phase' = [phase EXCEPT ![c] = p]
    BY <1>3 DEF CallStep, Begin, Refuse, Report, Finish, Phases
  <2>3. \A d \in Calls : Admitted(d)' <=> Admitted(d)
    BY <2>2 DEF Admitted, IInv, TypeOK
  <2> QED BY <2>1, <2>3, WaitsForKept
<1> QED BY <1>2, <1>3, WaitsForEmit, WaitsForRetry DEF Next

\* The calls a call waits for in the end are those before an exclusive one.
LEMMA GateOrder ==
  ASSUME IInv, WaitsFor, NEW c \in Dispatched(attempt), NEW d \in Dispatched(attempt)
  PROVE  d \in Predecessors(c) <=> d < c /\ Separated(d, c)
<1> DEFINE S == {x \in Dispatched(attempt) : x < c /\ Separated(x, c)}
<1>1. Dispatched(attempt) \subseteq Calls /\ \A x \in Calls : x \in Nat
  BY DEF Dispatched, Of, Calls
<1>2. S \in SUBSET Calls /\ waitFor[c] \subseteq S
  BY <1>1 DEF WaitsFor
<1>3. ASSUME NEW e \in S, NEW x \in waitFor[e]
      PROVE  x \in S
  <2>1. x \in Dispatched(attempt) /\ x < e /\ Separated(x, e)
    BY <1>3 DEF WaitsFor
  <2>2. x < c /\ e < c
    BY <1>1, <1>3, <2>1
  <2>3. PICK y \in Dispatched(attempt) : x <= y /\ y <= e /\ kind[y] = "exclusive"
    BY <2>1 DEF Separated, Between
  <2>4. y <= c
    BY <1>1, <1>3, <2>2, <2>3
  <2> QED BY <2>1, <2>2, <2>3, <2>4 DEF Separated, Between
<1>4. Closed(S)
  BY <1>3 DEF Closed
<1> HIDE DEF S
<1>5. d \in Predecessors(c) => d \in S
  BY <1>2, <1>4 DEF Predecessors
<1>6. d < c /\ Separated(d, c) => d \in Predecessors(c)
  BY DEF WaitsFor
<1> QED BY <1>5, <1>6 DEF S

\* The gate holds a call back for exactly the calls of the batches before its
\* own: the order does not depend on which of the two executors ran the turn.
THEOREM GateAndBatchesAgree == Spec => []GateIsThePartition
<1>1. ASSUME IInv, WaitsFor,
             NEW c \in Dispatched(attempt), NEW d \in Dispatched(attempt)
      PROVE  d \in Predecessors(c) <=> BatchOf(d) < BatchOf(c)
  <2> DEFINE B == partitionToolCalls
  <2>1. /\ Cover(B, Dispatched(attempt), kind) /\ InOrder(B, Dispatched(attempt), kind)
        /\ DOMAIN B = 1..Len(B) /\ Len(B) \in Nat
    BY <1>1, Partition DEF Cover
  <2>2. \A x \in Dispatched(attempt) : x \in Nat
    BY DEF Dispatched, Of, Calls
  <2>3. \A x \in Dispatched(attempt) : BatchOf(x) \in 1..Len(B) /\ x \in B[BatchOf(x)].members
    BY <2>1 DEF BatchOf, Cover
  <2> HIDE DEF B
  <2>4. CASE d <= c
    <3>1. BatchOf(d) < BatchOf(c) <=> d < c /\ Separated(d, c)
      BY <2>1, <2>3, <2>4 DEF InOrder, Separated
    <3> QED BY <3>1, <1>1, GateOrder
  <2>5. CASE c < d
    <3>1. BatchOf(c) <= BatchOf(d)
      BY <2>1, <2>2, <2>3, <2>5 DEF InOrder
    <3>2. ~(BatchOf(d) < BatchOf(c)) /\ ~(d < c)
      BY <2>2, <2>3, <2>5, <3>1
    <3> QED BY <3>2, <1>1, GateOrder
  <2> QED BY <2>2, <2>4, <2>5
<1>2. IInv /\ WaitsFor => GateIsThePartition
  BY <1>1 DEF GateIsThePartition
<1> QED BY <1>2, InitInv, NextInv, WaitsForInit, WaitsForStep, PTL DEF Spec

-----------------------------------------------------------------------------
(***************************************************************************)
(* The gate has no deadlock: tickets wait for earlier ones only, and those *)
(* that hold a slot are on their way to give it back.                      *)
(***************************************************************************)
\* The goroutine of c can take its next step, without a cancel to help it.
GoesOn(c) ==
    \/ phase[c] \in {"running", "refused", "reported"}
    \/ /\ phase[c] = "waiting" /\ Ready(c)
       /\ kind[c] = "sub" => SlotFree(att[c])

\* Where a call waits, one of its attempt can go on.
NoDeadlock ==
    \A c \in Calls : phase[c] = "waiting" => \E d \in Calls : att[d] = att[c] /\ GoesOn(d)

WaitsBefore ==
    /\ since \subseteq Dispatched(attempt)
    /\ \A c \in Calls : \A d \in waitFor[c] : d < c /\ att[d] = att[c] /\ Admitted(d)

SlotsComeBack == \A c \in holding : phase[c] \in {"running", "reported"}

LiveInv == WaitsBefore /\ SlotsComeBack

\* No ticket has been made.
LEMMA LiveInit == Init => LiveInv
BY DEF Init, LiveInv, WaitsBefore, SlotsComeBack

\* A new ticket waits for what the gate has seen, an old one for what it did.
LEMMA LiveEmit ==
  ASSUME IInv, LiveInv, WaitsFor', NEW k \in Kinds, Emit(k)
  PROVE  LiveInv'
<1>1. PICK n \in Calls : n = emitted + 1
  BY EmitNumbers
<1>2. /\ att[n] = 0 /\ phase[n] = "none" /\ \A c \in Calls : c >= n => att[c] = 0
      /\ att' = [att EXCEPT ![n] = attempt] /\ attempt \in Nat \ {0}
  BY <1>1, EmitNumbers
<1>3. TypeOK /\ (\A c \in Calls : c \in Nat)
  BY DEF IInv, Calls
<1>4. \/ UNCHANGED <<waitFor, phase>>
      \/ /\ waitFor' = [waitFor EXCEPT ![n] = WaitSet(k)]
         /\ phase' = [phase EXCEPT ![n] = "waiting"]
  BY <1>1 DEF Emit
<1>5. \A c \in Calls : /\ Admitted(c) => c # n /\ c < n /\ Admitted(c)'
                       /\ c # n => att'[c] = att[c] /\ waitFor'[c] = waitFor[c]
                       /\ waitFor[c] \subseteq Calls
  BY <1>2, <1>3, <1>4 DEF TypeOK, IInv, NumberedInv, Admitted
<1>6. \A d \in WaitSet(k) : d \in Calls /\ att[d] = attempt /\ Admitted(d)
  BY <1>3, DispatchedIs DEF WaitSet, LiveInv, WaitsBefore, IInv, GateInv, TypeOK, NoCall
<1>7. ASSUME NEW c \in Calls, NEW d \in waitFor'[c]
      PROVE  d < c /\ att'[d] = att'[c] /\ Admitted(d)'
  <2>1. CASE d \in waitFor[c]
    <3>1. d \in Calls /\ d < c /\ att[d] = att[c] /\ Admitted(d)
      BY <1>5, <2>1 DEF LiveInv, WaitsBefore
    <3>2. c # n
      BY <1>2, <1>3, <1>5, <3>1 DEF IInv, NumberedInv, Admitted
    <3> QED BY <1>5, <3>1, <3>2
  <2>2. CASE c = n /\ d \in WaitSet(k)
    BY <1>2, <1>3, <1>5, <1>6, <2>2 DEF TypeOK
  <2> QED BY <1>3, <1>4, <1>7, <2>1, <2>2 DEF TypeOK
<1>8. SlotsComeBack'
  BY <1>2, <1>3, <1>4 DEF LiveInv, SlotsComeBack, Emit, TypeOK
<1> QED BY <1>7, <1>8 DEF LiveInv, WaitsBefore, WaitsFor

\* Only Begin takes a slot, and the ticket keeps it until Finish.
LEMMA LiveStep == IInv /\ WaitsFor /\ LiveInv /\ [Next]_vars => LiveInv'
<1> SUFFICES ASSUME IInv, WaitsFor, LiveInv, [Next]_vars PROVE LiveInv'
  OBVIOUS
<1>w. WaitsFor'
  BY WaitsForStep
<1>1. ASSUME UNCHANGED <<att, waitFor, phase, holding>> PROVE LiveInv'
  BY <1>1, <1>w DEF LiveInv, WaitsBefore, WaitsFor, SlotsComeBack, Admitted
<1>2. CASE StreamIsRetried \/ StreamEnds \/ Terminate \/ RunEnds \/ Cancel \/ Collect
           \/ UNCHANGED vars
  BY <1>1, <1>2 DEF StreamIsRetried, StreamEnds, StreamSucceeds, StreamIsTerminal,
     StreamEndsTheRun, Terminate, RunEnds, Cancel, Collect, calls, gate, vars
<1>3. ASSUME NEW k \in Kinds, Emit(k) PROVE LiveInv'
  BY <1>3, <1>w, LiveEmit
<1>4. ASSUME NEW c \in Calls, CallStep(c) PROVE LiveInv'
  <2>1. UNCHANGED <<att, waitFor>>
    BY <1>4 DEF CallStep, Begin, Refuse, Report, Finish
  <2>2. PICK p \in Phases \ {"none"} : phase' = [phase EXCEPT ![c] = p]
    BY <1>4 DEF CallStep, Begin, Refuse, Report, Finish, Phases
  <2>3. phase[c] # "none" /\ TypeOK
    BY <1>4 DEF CallStep, Begin, Refuse, Report, Finish, IInv
  <2>4. \A d \in Calls : Admitted(d)' <=> Admitted(d)
    BY <2>2, <2>3 DEF Admitted, TypeOK
  <2>5. \A e \in Calls : waitFor[e] \subseteq Calls
    BY <2>3 DEF TypeOK
  <2>6. WaitsBefore'
    BY <1>w, <2>1, <2>4, <2>5 DEF LiveInv, WaitsBefore, WaitsFor
  <2>7. SlotsComeBack'
    BY <1>4, <2>3 DEF CallStep, Begin, Refuse, Report, Finish, ReleaseSlot, gate, LiveInv,
       SlotsComeBack, TypeOK
  <2> QED BY <2>6, <2>7 DEF LiveInv
<1> QED BY <1>2, <1>3, <1>4 DEF Next

\* Wherever a call waits for others or for a slot, in the current attempt or
\* in one that was given up, some call of the attempt can go on: the tickets of
\* a gate never wait for each other, whatever their kinds and however few slots
\* there are.  It is what CallsEnd owes to the gate; that what can go on does
\* is the fairness of the goroutines.
THEOREM TicketsNeverDeadlock == Spec => []NoDeadlock
<1>1. ASSUME IInv, LiveInv, NEW c \in Calls, phase[c] = "waiting"
      PROVE  \E d \in Calls : att[d] = att[c] /\ GoesOn(d)
  <2> DEFINE Open == {d \in Calls : att[d] = att[c] /\ Admitted(d) /\ phase[d] # "finished"}
  <2>1. Open \in SUBSET Nat /\ c \in Open
    BY <1>1 DEF Calls, Admitted
  <2>2. PICK d \in Open : \A x \in Open : d <= x
    BY <2>1, LeastNumber
  <2>3. d \in Calls /\ att[d] = att[c] /\ Admitted(d) /\ phase[d] # "finished"
    BY <2>2
  <2>4. Ready(d)
    <3>1. ASSUME NEW x \in waitFor[d], phase[x] # "finished" PROVE FALSE
      <4>1. x < d /\ att[x] = att[d] /\ Admitted(x) /\ x \in Calls
        BY <1>1, <2>3, <3>1 DEF LiveInv, WaitsBefore, IInv, TypeOK
      <4>2. d <= x
        BY <2>2, <2>3, <3>1, <4>1
      <4> QED BY <2>3, <4>1, <4>2 DEF Calls
    <3> QED BY <3>1 DEF Ready
  <2>5. phase[d] \in {"waiting", "running", "refused", "reported"}
    BY <1>1, <2>3 DEF IInv, TypeOK, Phases, Admitted
  <2>6. CASE SlotFree(att[d])
    BY <2>3, <2>4, <2>5, <2>6 DEF GoesOn
  <2>7. CASE ~SlotFree(att[d])
    <3> DEFINE Held == {x \in holding : att[x] = att[d]}
    <3>1. Held # {}
      BY <2>7, FS_EmptySet, BoundsAssumption DEF SlotFree
    <3>2. PICK x \in Held : TRUE
      BY <3>1
    <3>3. x \in Calls /\ att[x] = att[c] /\ phase[x] \in {"running", "reported"}
      BY <1>1, <2>3, <3>2 DEF LiveInv, SlotsComeBack, IInv, TypeOK
    <3> QED BY <3>3 DEF GoesOn
  <2> QED BY <2>6, <2>7
<1>2. IInv /\ LiveInv => NoDeadlock
  BY <1>1 DEF NoDeadlock
<1> QED BY <1>2, InitInv, NextInv, WaitsForInit, WaitsForStep, LiveInit, LiveStep, PTL
        DEF Spec
=============================================================================
