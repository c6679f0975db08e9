--------------------- MODULE MCAutomationEngineLiveness ---------------------
(* The graphs of MCAutomationEngine under the fair specification.          *)
EXTENDS MCAutomationEngine, AutomationEngineLiveness

\* source -> await child: the child is source -> delay
WaitingChildKind == AwaitKind @@ m1 :> "delay"
WaitingChildEdge == (n0 :> Targets("next" :> n1) @@ n1 :> Targets(<<>>)
                     @@ m0 :> Targets("next" :> m1) @@ m1 :> Targets(<<>>))
=============================================================================
