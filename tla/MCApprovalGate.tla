--------------------------- MODULE MCApprovalGate ---------------------------
(* ApprovalGate on small instances.  Hosts, sweeps and gates may all be     *)
(* done, so the run does not check deadlock.                               *)
EXTENDS ApprovalGate
=============================================================================
