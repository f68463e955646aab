---------------------------- MODULE PlanExecution ----------------------------
(***************************************************************************)
(* The life of one stored plan: storePlan (PlanRegistry::propose) and      *)
(* executePlan calls, each of which evaluates the approval policy, may     *)
(* auto-approve, goes through the plan gate and runs PlanExecutor::execute *)
(* over a HydratingDispatcher.  The plan lives under one KV key that every *)
(* step reads or overwrites as a whole; there is no lock and no            *)
(* compare-and-set.                                                        *)
(*                                                                         *)
(* The gate of a call is used through ApprovalContract, which ApprovalGate *)
(* implements; the call is the gate.  approved_by is the approver of the   *)
(* code; the model records which call wrote the approval, so that a        *)
(* dispatch can be traced to a consent.                                    *)
(***************************************************************************)
EXTENDS ApprovalContract, PlanLifecycle, Naturals

CONSTANTS Requires,    \* Requires[e]: bodies for which the policy of e asks for approval
          Serialised,  \* the host runs one plan operation at a time
          KvMayFail,   \* a KV read or write may return an error
          MaxRestarts  \* bound on process restarts

ASSUME RequiresAssumption == Requires \in [Gates -> SUBSET Bodies]
ASSUME SwitchesAssumption ==
  Serialised \in BOOLEAN /\ KvMayFail \in BOOLEAN /\ MaxRestarts \in Nat

VARIABLES kv,          \* the record under the plan's key
          stored,      \* proposals stored so far
          epc,         \* epc[e]: where executePlan call e is
          snap,        \* snap[e]: the plan value call e holds in memory
          card,        \* card[e]: the body in the ApprovalRequest of e
          auto,        \* calls that approved by policy (approve_for_execution)
          dispatched,  \* calls that reached the action dispatcher (history)
          restarts     \* process restarts so far

vars == <<phase, verdict, kv, stored, epc, snap, card, auto, dispatched, restarts>>

Busy == {"auto_load", "auto_put", "gate_load", "gate", "approve_put", "exec_load", "start_put",
         "dispatch", "complete_put", "fail_put"}
Ended == {"not_found", "kv_error", "sink_error", "invalid_state", "refused",
          "executed", "failed", "dead"}

TypeOK ==
  /\ phase \in [Gates -> {"new", "open", "passed", "refused", "abandoned"}]
  /\ verdict \in [Gates -> Decisions \cup {"none", "cancelled", "host_shutdown"}]
  /\ kv \in Plans(Gates) \cup {Absent}
  /\ stored \subseteq Bodies
  /\ epc \in [Gates -> {"idle"} \cup Busy \cup Ended]
  /\ snap \in [Gates -> Plans(Gates) \cup {Absent}]
  /\ card \in [Gates -> Bodies \cup {"no_body"}]
  /\ auto \subseteq Gates /\ dispatched \subseteq Gates
  /\ restarts \in 0..MaxRestarts

PlanInit ==
  /\ Init
  /\ kv = Absent /\ stored = {}
  /\ epc = [e \in Gates |-> "idle"]
  /\ snap = [e \in Gates |-> Absent]
  /\ card = [e \in Gates |-> "no_body"]
  /\ auto = {} /\ dispatched = {} /\ restarts = 0

Quiet == \A e \in Gates : epc[e] \notin Busy
Goto(e, pc) == epc' = [epc EXCEPT ![e] = pc]

\* A KV call of e that returns an error: executePlan returns it.
KvError(e) ==
  /\ KvMayFail
  /\ Goto(e, "kv_error")
  /\ UNCHANGED <<contractVars, restarts, kv, stored, snap, card, auto, dispatched>>

-----------------------------------------------------------------------------
\* storePlan: a proposal that passes the schema is stored as a Draft under the
\* plan id, whatever was there.  A proposal that does not is never written.
StorePlan(b) ==
  /\ b \notin stored
  /\ Serialised => Quiet
  /\ kv' = CreatePlan(b)
  /\ stored' = stored \cup {b}
  /\ UNCHANGED <<contractVars, restarts, epc, snap, card, auto, dispatched>>

\* A variant that approves every Draft by itself.
ExecutePlanUnasked(e) ==
  /\ epc[e] = "idle"
  /\ Serialised => Quiet
  /\ snap' = [snap EXCEPT ![e] = kv]
  /\ Goto(e, CASE kv = Absent -> "not_found" [] kv.status = "draft" -> "auto_load" [] OTHER -> "gate_load")
  /\ UNCHANGED <<contractVars, restarts, kv, stored, card, auto, dispatched>>

\* executePlan: load, and ask the policy about the plan just loaded.
ExecutePlan(e) ==
  /\ epc[e] = "idle"
  /\ Serialised => Quiet
  /\ \/ /\ snap' = [snap EXCEPT ![e] = kv]
        /\ Goto(e, CASE kv = Absent -> "not_found"
                     [] kv.status = "draft" /\ kv.body \notin Requires[e] -> "auto_load"
                     [] OTHER -> "gate_load")
        /\ UNCHANGED <<contractVars, restarts, kv, stored, card, auto, dispatched>>
     \/ KvError(e)

\* approve_for_execution: loads again; a plan that is no longer a Draft is
\* left alone.
AutoLoad(e) ==
  /\ epc[e] = "auto_load"
  /\ \/ /\ snap' = [snap EXCEPT ![e] = kv]
        /\ Goto(e, CASE kv = Absent -> "not_found"
                     [] CanApprove(kv) -> "auto_put"
                     [] OTHER -> "gate_load")
        /\ UNCHANGED <<contractVars, restarts, kv, stored, card, auto, dispatched>>
     \/ KvError(e)

\* ... and stores the approval; executePlan then emits the status change and
\* gives up if the sink drops it.
AutoPut(e) ==
  /\ epc[e] = "auto_put"
  /\ \/ /\ kv' = Approve(snap[e], e)
        /\ auto' = auto \cup {e}
        /\ \E pc \in {"gate_load", "sink_error"} : Goto(e, pc)
        /\ UNCHANGED <<contractVars, restarts, stored, snap, card, dispatched>>
     \/ KvError(e)

\* GatedPlanExecutor::execute: a plan that is not a Draft skips the gate (H6),
\* a Draft is put on a card and registered.
GateLoad(e) ==
  /\ epc[e] = "gate_load"
  /\ \/ /\ kv.status # "draft"
        /\ Goto(e, IF kv = Absent THEN "not_found" ELSE "exec_load")
        /\ UNCHANGED <<contractVars, restarts, kv, stored, snap, card, auto, dispatched>>
     \/ /\ kv.status = "draft"
        /\ snap' = [snap EXCEPT ![e] = kv]
        /\ card' = [card EXCEPT ![e] = kv.body]
        /\ Open(e)
        /\ Goto(e, "gate")
        /\ UNCHANGED <<kv, stored, auto, dispatched, restarts>>
     \/ KvError(e)

\* The host answers, or the gate expires its entry.
GateSettles(e) ==
  /\ Settle(e)
  /\ UNCHANGED <<kv, stored, epc, snap, card, auto, dispatched, restarts>>

\* A variant that goes on whatever the host said.
GateReturnsDeaf(e) ==
  /\ epc[e] = "gate"
  /\ Pass(e) \/ Refuse(e)
  /\ Goto(e, "approve_put")
  /\ UNCHANGED <<kv, stored, snap, card, auto, dispatched, restarts>>

\* The gate is over: on approve the call goes on to store the approval; on
\* reject, revise, cancellation or a closed sink it returns and leaves the
\* plan alone.
GateReturns(e) ==
  /\ epc[e] = "gate"
  /\ \/ Pass(e) /\ Goto(e, "approve_put")
     \/ Refuse(e) /\ Goto(e, "refused")
  /\ UNCHANGED <<kv, stored, snap, card, auto, dispatched, restarts>>

\* The plan loaded before the await is approved and stored.
ApprovePut(e) ==
  /\ epc[e] = "approve_put"
  /\ \/ /\ kv' = Approve(snap[e], e)
        /\ Goto(e, "exec_load")
        /\ UNCHANGED <<contractVars, restarts, stored, snap, card, auto, dispatched>>
     \/ KvError(e)

\* A variant without the status check.
ExecLoadUnchecked(e) ==
  /\ epc[e] = "exec_load"
  /\ snap' = [snap EXCEPT ![e] = kv]
  /\ Goto(e, "start_put")
  /\ UNCHANGED <<contractVars, restarts, kv, stored, card, auto, dispatched>>

\* PlanExecutor::execute: load and check the status.
ExecLoad(e) ==
  /\ epc[e] = "exec_load"
  /\ \/ /\ snap' = [snap EXCEPT ![e] = kv]
        /\ Goto(e, CASE kv = Absent -> "not_found"
                     [] CanStart(kv) -> "start_put"
                     [] OTHER -> "invalid_state")
        /\ UNCHANGED <<contractVars, restarts, kv, stored, card, auto, dispatched>>
     \/ KvError(e)

\* A variant that starts in memory only.
StartPutNotStored(e) ==
  /\ epc[e] = "start_put"
  /\ snap' = [snap EXCEPT ![e] = Start(@)]
  /\ Goto(e, "dispatch")
  /\ UNCHANGED <<contractVars, restarts, kv, stored, card, auto, dispatched>>

\* ... store it as Executing,
StartPut(e) ==
  /\ epc[e] = "start_put"
  /\ \/ /\ snap' = [snap EXCEPT ![e] = Start(@)]
        /\ kv' = Start(snap[e])
        /\ Goto(e, "dispatch")
        /\ UNCHANGED <<contractVars, restarts, stored, card, auto, dispatched>>
     \/ KvError(e)

\* A variant that returns on a missing reference without failing the plan.
DispatchReturnsEarly(e) ==
  /\ epc[e] = "dispatch"
  /\ \/ Goto(e, "failed") /\ UNCHANGED dispatched
     \/ Goto(e, "complete_put") /\ dispatched' = dispatched \cup {e}
  /\ UNCHANGED <<contractVars, restarts, kv, stored, snap, card, auto>>

\* ... dispatch: the references are resolved first, and one that is missing
\* fails the plan before the action dispatcher is reached,
Dispatch(e) ==
  /\ epc[e] = "dispatch"
  /\ \/ Goto(e, "fail_put") /\ UNCHANGED dispatched
     \/ /\ dispatched' = dispatched \cup {e}
        /\ \E pc \in {"complete_put", "fail_put"} : Goto(e, pc)
  /\ UNCHANGED <<contractVars, restarts, kv, stored, snap, card, auto>>

\* A variant that completes the plan whatever the dispatcher returned.
FinishPutCompletes(e) ==
  /\ epc[e] \in {"complete_put", "fail_put"}
  /\ kv' = Complete(snap[e])
  /\ Goto(e, IF epc[e] = "complete_put" THEN "executed" ELSE "failed")
  /\ UNCHANGED <<contractVars, restarts, stored, snap, card, auto, dispatched>>

\* ... and store the outcome.
FinishPut(e) ==
  /\ epc[e] \in {"complete_put", "fail_put"}
  /\ \/ /\ kv' = IF epc[e] = "complete_put" THEN Complete(snap[e]) ELSE Fail(snap[e])
        /\ Goto(e, IF epc[e] = "complete_put" THEN "executed" ELSE "failed")
        /\ UNCHANGED <<contractVars, restarts, stored, snap, card, auto, dispatched>>
     \/ KvError(e)

\* A restart loses the calls; the plan record stays as the last put left it.
Crash ==
  /\ restarts < MaxRestarts
  /\ restarts' = restarts + 1
  /\ Restart
  /\ epc' = [e \in Gates |-> IF epc[e] \in Busy THEN "dead" ELSE epc[e]]
  /\ UNCHANGED <<kv, stored, snap, card, auto, dispatched>>

-----------------------------------------------------------------------------
CallStep(e) ==
  \/ AutoLoad(e) \/ AutoPut(e) \/ GateLoad(e) \/ GateReturns(e) \/ ApprovePut(e)
  \/ ExecLoad(e) \/ StartPut(e) \/ Dispatch(e) \/ FinishPut(e)

PlanNext ==
  \/ \E b \in Bodies : StorePlan(b)
  \/ \E e \in Gates : ExecutePlan(e) \/ CallStep(e) \/ GateSettles(e)
  \/ Crash

PlanSpec == PlanInit /\ [][PlanNext]_vars

\* Calls that can run get polled, and the KV answers; nothing obliges the host
\* to settle a gate.
FairPlanSpec == PlanSpec /\ \A e \in Gates : WF_vars(CallStep(e))

-----------------------------------------------------------------------------
(* Properties                                                              *)

\* Somebody answered for this plan: its proposal was on the card of a gate that
\* a host approved, or a call whose policy is not "always" approved it.
Consented(p) ==
  \/ p.approved_by \in Gates /\ phase[p.approved_by] = "passed" /\ card[p.approved_by] = p.body
  \/ p.approved_by \in auto /\ Requires[p.approved_by] # Bodies

\* Whatever reaches the action dispatcher has been consented to.  Concurrent
\* calls, replaced proposals, failing KV and restarts do not change that.
ConsentedDispatch == \A e \in dispatched : Consented(snap[e])

\* The same of the stored record: no sequence of overwrites leaves a plan
\* beyond Draft that nobody consented to.
ConsentedRecord == kv.status \notin {"absent", "draft"} => Consented(kv)

\* One proposal reaches the action dispatcher at most once, whatever fails in
\* between, as long as the host runs one plan operation at a time.
DispatchedOnce ==
  \A e1, e2 \in dispatched : snap[e1].body = snap[e2].body => e1 = e2

\* P1 and P2 of the stored plan: as long as the proposal is the same its status
\* only moves forward, and Executed and Failed are absorbing.
StatusForward ==
  [][kv'.body = kv.body =>
       /\ Rank(kv'.status) >= Rank(kv.status)
       /\ kv.status \in Terminal => kv' = kv]_vars

\* "Successful execution transitions to Executed", "Failed execution
\* transitions to Failed": what a call returned is what the record says.
OutcomeOnRecord ==
  \A e \in Gates : epc[e] \in Terminal /\ kv.body = snap[e].body => kv.status = epc[e]

\* A plan that is Executing reaches a terminal status, unless a restart or a
\* KV error ended the call that runs it.
ExecutingFinishes ==
  kv.status = "executing" ~>
    \/ kv.status # "executing"
    \/ \E e \in Gates : snap[e].body = kv.body /\ epc[e] \in {"dead", "kv_error"}

-----------------------------------------------------------------------------
(* Inductive strengthenings                                                *)

\* Where a call is determines what its copy of the plan and its gate are.
CallInv(e) ==
  /\ epc[e] \in {"idle", "auto_load", "auto_put", "gate_load"} => phase[e] = "new"
  /\ epc[e] \in {"auto_load", "auto_put"} => Requires[e] # Bodies
  /\ epc[e] = "auto_put" => CanApprove(snap[e])
  /\ epc[e] \in {"gate", "approve_put"} => CanApprove(snap[e]) /\ card[e] = snap[e].body
  /\ epc[e] = "gate" => phase[e] = "open"
  /\ epc[e] = "approve_put" => phase[e] = "passed"
  /\ epc[e] = "start_put" => CanStart(snap[e])
  /\ epc[e] \in {"dispatch", "complete_put", "fail_put"} => CanComplete(snap[e])
  /\ e \in dispatched => /\ snap[e].status = "executing"
                         /\ epc[e] \in {"complete_put", "fail_put"} \cup Ended
  /\ snap[e].status \notin {"absent", "draft"} => Consented(snap[e])

ConsentInv == (\A e \in Gates : CallInv(e)) /\ ConsentedRecord

\* With one operation at a time the copy a call holds past its last load is the
\* record, and a dispatched proposal never looks Approved again.
SerialInv ==
  /\ kv.body \in stored \cup {"no_body"}
  /\ \A e \in Gates :
       /\ snap[e].body \in stored \cup {"no_body"}
       /\ epc[e] = "gate_load" => kv.status # "absent"
       /\ epc[e] \in {"auto_put", "gate", "approve_put", "start_put", "dispatch",
                      "complete_put", "fail_put"} => kv = snap[e]
       /\ e \in dispatched /\ kv.body = snap[e].body =>
             kv.status \in {"executing"} \cup Terminal
       /\ epc[e] = "dispatch" => \A f \in dispatched : snap[f].body # snap[e].body
       /\ \A f \in Gates : epc[e] \in Busy /\ epc[f] \in Busy => e = f
=============================================================================
