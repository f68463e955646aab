--------------------------- MODULE MCPlanExecution ---------------------------
(* PlanExecution on small instances: calls under the plan policy "always"  *)
(* and under "never".  Calls return and hosts stop storing plans, so the   *)
(* runs do not check deadlock.                                             *)
EXTENDS PlanExecution, TLC

CONSTANTS e1, e2, e3

MixedPolicies == (e1 :> Bodies) @@ (e2 :> Bodies) @@ (e3 :> {})
AlwaysPolicies == [e \in Gates |-> Bodies]
=============================================================================
