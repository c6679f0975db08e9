------------------------- MODULE MCAutomationEngine -------------------------
(* Small published graphs for TLC; each .cfg chooses one of them.          *)
EXTENDS AutomationEngine, TLC

CONSTANTS e1, e2, n0, n1, m0, m1

Symmetry == Permutations(Leases) \cup Permutations(Procs)

Targets(t) == [b \in Branches |-> IF b \in DOMAIN t THEN t[b] ELSE None]

RootOnly == e1 :> None

\* source -> delay
DelayKind == n0 :> "source" @@ n1 :> "delay"
ChainEdge == n0 :> Targets("next" :> n1) @@ n1 :> Targets(<<>>)
OneSource == e1 :> n0

\* a parent whose second node calls a child that is one source node
CallParent == e1 :> None @@ e2 :> <<e1, n1>>
CallSource == e1 :> n0 @@ e2 :> m0
AwaitKind == n0 :> "source" @@ n1 :> "await" @@ m0 :> "source"
=============================================================================
