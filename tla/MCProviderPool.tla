--------------------------- MODULE MCProviderPool ---------------------------
(* Small instances of ProviderPool.                                        *)
EXTENDS ProviderPool

CONSTANTS c1, c2, c3, p1, p2

ConfiguredDef == <<p1>>
\* One call of each kind; the first two may queue.
AsksDef == (c1 :> {"failover"}) @@ (c2 :> {"acquire", "once"}) @@ (c3 :> {"provider"})
OneSlotEach == [n \in Names |-> 1]
=============================================================================
