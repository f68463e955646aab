----------------------------- MODULE MCEvalRun ------------------------------
(* EvalRun on small instances.  A run returns, so the runs do not check    *)
(* deadlock.                                                               *)
EXTENDS EvalRun
=============================================================================
