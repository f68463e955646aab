--------------------------- MODULE MCSequencedBus ---------------------------
(* SequencedBus with two emitters.  All events are emitted and the client  *)
(* stays away in the end, so the run does not check deadlock.              *)
EXTENDS SequencedBus
=============================================================================
