------------------------------ MODULE MCNursery ------------------------------
(* Nursery with three tasks.  A nursery whose waiters are never cancelled  *)
(* waits for ever, so the runs do not check deadlock.                      *)
EXTENDS Nursery
=============================================================================
