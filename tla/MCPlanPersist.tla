---------------------------- MODULE MCPlanPersist ----------------------------
(* PlanPersist on a small instance.  Callers stop calling, so the run does *)
(* not check deadlock.                                                     *)
EXTENDS PlanPersist
=============================================================================
