------------------------- MODULE PlanExecutionProofs -------------------------
(***************************************************************************)
(* Proofs about PlanExecution for every set of calls, proposals and        *)
(* policies, with or without KV errors and for any number of restarts:     *)
(* what is dispatched was consented to (concurrent calls included), and,   *)
(* when the host runs one plan operation at a time, the stored plan obeys  *)
(* P1 and P2 and a proposal is dispatched at most once.                    *)
(***************************************************************************)
EXTENDS PlanExecution, TLAPS

Record == Plans(Gates) \cup {Absent}

-----------------------------------------------------------------------------
(* The transitions of a plan value                                         *)

\* A stored proposal is a Draft with its own body (create_plan).
LEMMA CreateFacts ==
  ASSUME NEW b \in Bodies
  PROVE  /\ CreatePlan(b) \in Record
         /\ CreatePlan(b).status = "draft" /\ CreatePlan(b).body = b
BY DEF CreatePlan, Record, Plans

\* approve keeps the body and records the approver (Plan::approve).
LEMMA ApproveFacts ==
  ASSUME NEW p \in Record, CanApprove(p), NEW e \in Gates
  PROVE  /\ Approve(p, e) \in Record
         /\ Approve(p, e).status = "approved" /\ Approve(p, e).body = p.body
         /\ Approve(p, e).approved_by = e
<1>1. PICK b \in Bodies : p = CreatePlan(b)
  BY DEF Record, Plans, CanApprove, Absent
<1>2. Approve(p, e) = [status |-> "approved", body |-> b, approved_by |-> e,
                       outcome |-> NoOutcome]
  BY <1>1 DEF Approve, With, CreatePlan
<1>3. QED
  BY <1>1, <1>2 DEF Record, Plans, CreatePlan

\* start keeps the body and the approver (Plan::start).
LEMMA StartFacts ==
  ASSUME NEW p \in Record, CanStart(p)
  PROVE  /\ Start(p) \in Record
         /\ Start(p).status = "executing" /\ Start(p).body = p.body
         /\ Start(p).approved_by = p.approved_by
BY DEF Start, With, Record, Plans, CanStart, CreatePlan, Absent, NoOutcome

\* complete and fail keep the body and the approver (Plan::complete, Plan::fail).
LEMMA FinishFacts ==
  ASSUME NEW p \in Record, CanComplete(p)
  PROVE  /\ Complete(p) \in Record /\ Fail(p) \in Record
         /\ Complete(p).status = "executed" /\ Fail(p).status = "failed"
         /\ Complete(p).body = p.body /\ Fail(p).body = p.body
         /\ Complete(p).approved_by = p.approved_by /\ Fail(p).approved_by = p.approved_by
BY DEF Complete, With, Fail, Record, Plans, CanComplete, CreatePlan, Absent, NoOutcome

\* The fields of any value under the plan's key.
LEMMA RecordFacts ==
  ASSUME NEW p \in Record
  PROVE  /\ p.status \in Statuses \cup {"absent"}
         /\ p.body \in Bodies \cup {"no_body"}
         /\ p.status \notin {"absent", "draft"} => p.approved_by \in Gates
         /\ p.status # "absent" => p.body \in Bodies
         /\ p.status = "absent" <=> p = Absent
BY DEF Record, Plans, Statuses, CreatePlan, Absent, NoOutcome

-----------------------------------------------------------------------------
(* Types and consent, for any interleaving of the calls                    *)

ConsentIInv == TypeOK /\ ConsentInv

\* Every step of the plan operations preserves types and consent.
LEMMA ConsentStep == ConsentIInv /\ [PlanNext]_vars => ConsentIInv'
<1> SUFFICES ASSUME ConsentIInv, [PlanNext]_vars PROVE ConsentIInv'
  OBVIOUS
<1> USE RequiresAssumption, SwitchesAssumption
<1> USE DEF ConsentIInv, TypeOK, ConsentInv, CallInv, ConsentedRecord, Consented, Record,
            Busy, Ended, Goto, KvError, contractVars, CanApprove, CanStart, CanComplete
<1>1. ASSUME NEW b \in Bodies, StorePlan(b) PROVE ConsentIInv'
  BY <1>1, CreateFacts DEF StorePlan
<1>2. ASSUME NEW e \in Gates, ExecutePlan(e) PROVE ConsentIInv'
  BY <1>2, RecordFacts DEF ExecutePlan, Absent
<1>3. ASSUME NEW e \in Gates, AutoLoad(e) PROVE ConsentIInv'
  BY <1>3, RecordFacts DEF AutoLoad, Absent
<1>4. ASSUME NEW e \in Gates, AutoPut(e) PROVE ConsentIInv'
  BY <1>4, RecordFacts, ApproveFacts DEF AutoPut
<1>5. ASSUME NEW e \in Gates, GateLoad(e) PROVE ConsentIInv'
  BY <1>5, RecordFacts DEF GateLoad, Open, Absent
<1>6. ASSUME NEW e \in Gates, GateSettles(e) PROVE ConsentIInv'
  BY <1>6 DEF GateSettles, Settle
<1>7. ASSUME NEW e \in Gates, GateReturns(e) PROVE ConsentIInv'
  BY <1>7 DEF GateReturns, Pass, Refuse
<1>8. ASSUME NEW e \in Gates, ApprovePut(e) PROVE ConsentIInv'
  BY <1>8, RecordFacts, ApproveFacts DEF ApprovePut
<1>9. ASSUME NEW e \in Gates, ExecLoad(e) PROVE ConsentIInv'
  BY <1>9, RecordFacts DEF ExecLoad, Absent
<1>10. ASSUME NEW e \in Gates, StartPut(e) PROVE ConsentIInv'
  BY <1>10, RecordFacts, StartFacts DEF StartPut
<1>11. ASSUME NEW e \in Gates, Dispatch(e) PROVE ConsentIInv'
  BY <1>11 DEF Dispatch
<1>12. ASSUME NEW e \in Gates, FinishPut(e) PROVE ConsentIInv'
  BY <1>12, RecordFacts, FinishFacts DEF FinishPut
<1>13. ASSUME Crash PROVE ConsentIInv'
  BY <1>13 DEF Crash, Restart
<1>14. ASSUME UNCHANGED vars PROVE ConsentIInv'
  BY <1>14 DEF vars
<1>15. QED
  <2> HIDE DEF ConsentIInv
  <2> QED
    BY <1>1, <1>2, <1>3, <1>4, <1>5, <1>6, <1>7, <1>8, <1>9, <1>10, <1>11, <1>12, <1>13,
       <1>14 DEF PlanNext, CallStep

\* Types and consent hold in every state of the plan operations.
THEOREM ConsentInvariant == PlanSpec => []ConsentIInv
<1>1. PlanInit => ConsentIInv
  BY RequiresAssumption, SwitchesAssumption
  DEF PlanInit, Init, ConsentIInv, TypeOK, ConsentInv, CallInv, ConsentedRecord, Record, Absent
<1>2. QED
  BY <1>1, ConsentStep, PTL DEF PlanSpec

\* The variables of the plan operations are well typed; in particular approved_by
\* (P4) and the outcome (P5) are set exactly where the status says.
THEOREM TypeCorrect == PlanSpec => []TypeOK
BY ConsentInvariant, PTL DEF ConsentIInv

\* Nothing reaches the action dispatcher (HydratingDispatcher::dispatch) that no
\* host and no policy consented to.
THEOREM DispatchConsented == PlanSpec => []ConsentedDispatch
<1>1. ConsentIInv => ConsentedDispatch
  BY DEF ConsentIInv, TypeOK, ConsentInv, CallInv, ConsentedDispatch
<1>2. QED
  BY <1>1, ConsentInvariant, PTL

\* No overwrite of the record leaves it beyond Draft without consent.
THEOREM RecordConsented == PlanSpec => []ConsentedRecord
BY ConsentInvariant, PTL DEF ConsentIInv, ConsentInv

-----------------------------------------------------------------------------
(* One plan operation at a time                                            *)

SerialIInv == ConsentIInv /\ SerialInv /\ DispatchedOnce

\* Serialised steps keep the copies of the calls in line with the record.
LEMMA SerialStep ==
  ASSUME Serialised, SerialIInv, [PlanNext]_vars
  PROVE  SerialIInv'
<1>0. ConsentIInv'
  BY ConsentStep DEF SerialIInv
<1> USE RequiresAssumption, SwitchesAssumption, BodiesAssumption, <1>0
<1> USE DEF SerialIInv, SerialInv, DispatchedOnce, ConsentIInv, TypeOK, ConsentInv, CallInv,
            Record, Busy, Ended, Terminal, Goto, KvError, contractVars, Quiet,
            CanApprove, CanStart, CanComplete
<1>1. ASSUME NEW b \in Bodies, StorePlan(b) PROVE SerialIInv'
  BY <1>1, CreateFacts DEF StorePlan
<1>2. ASSUME NEW e \in Gates, ExecutePlan(e) PROVE SerialIInv'
  BY <1>2, RecordFacts DEF ExecutePlan, Absent
<1>3. ASSUME NEW e \in Gates, AutoLoad(e) PROVE SerialIInv'
  BY <1>3, RecordFacts DEF AutoLoad, Absent
<1>4. ASSUME NEW e \in Gates, AutoPut(e) PROVE SerialIInv'
  BY <1>4, RecordFacts, ApproveFacts DEF AutoPut
<1>5. ASSUME NEW e \in Gates, GateLoad(e) PROVE SerialIInv'
  BY <1>5, RecordFacts DEF GateLoad, Open, Absent
<1>6. ASSUME NEW e \in Gates, GateSettles(e) PROVE SerialIInv'
  BY <1>6 DEF GateSettles, Settle
<1>7. ASSUME NEW e \in Gates, GateReturns(e) PROVE SerialIInv'
  BY <1>7 DEF GateReturns, Pass, Refuse
<1>8. ASSUME NEW e \in Gates, ApprovePut(e) PROVE SerialIInv'
  BY <1>8, RecordFacts, ApproveFacts DEF ApprovePut
<1>9. ASSUME NEW e \in Gates, ExecLoad(e) PROVE SerialIInv'
  <2>1. CASE KvError(e)
    BY <1>9, <2>1 DEF ExecLoad
  <2>2. CASE ~KvError(e)
    <3>1. /\ snap' = [snap EXCEPT ![e] = kv] /\ epc[e] = "exec_load"
          /\ epc' \in {[epc EXCEPT ![e] = pc] : pc \in {"not_found", "start_put", "invalid_state"}}
          /\ UNCHANGED <<kv, stored, dispatched>>
      BY <1>9, <2>2 DEF ExecLoad
    <3>2. e \notin dispatched
      BY <3>1
    <3>3. SerialInv'
      BY <3>1, <3>2
    <3>4. DispatchedOnce'
      BY <3>1, <3>2
    <3>5. QED
      BY <3>3, <3>4
  <2>3. QED
    BY <2>1, <2>2
<1>10. ASSUME NEW e \in Gates, StartPut(e) PROVE SerialIInv'
  <2>1. CASE KvError(e)
    BY SMTT(30), <1>10, <2>1
  <2>2. CASE ~KvError(e)
    <3>1. /\ snap' = [snap EXCEPT ![e] = Start(snap[e])] /\ kv' = Start(snap[e])
          /\ epc' = [epc EXCEPT ![e] = "dispatch"] /\ epc[e] = "start_put"
          /\ UNCHANGED <<stored, dispatched>>
      BY <1>10, <2>2 DEF StartPut
    <3>2. /\ snap[e] \in Record /\ CanStart(snap[e]) /\ e \notin dispatched /\ kv = snap[e]
      BY <3>1
    <3>3. /\ Start(snap[e]).body = snap[e].body /\ Start(snap[e]).status = "executing"
      BY <3>2, StartFacts
    <3>4. \A f \in dispatched : f # e /\ snap'[f] = snap[f] /\ snap[f].body # snap[e].body
      BY <3>1, <3>2
    <3>5. SerialInv'
      BY <3>1, <3>2, <3>3, <3>4
    <3>6. DispatchedOnce'
      BY <3>1, <3>4
    <3>7. QED
      BY <3>5, <3>6
  <2>3. QED
    BY <2>1, <2>2
<1>11. ASSUME NEW e \in Gates, Dispatch(e) PROVE SerialIInv'
  BY SMTT(30), <1>11 DEF Dispatch
<1>12. ASSUME NEW e \in Gates, FinishPut(e) PROVE SerialIInv'
  BY SMTT(30), <1>12, RecordFacts, FinishFacts DEF FinishPut
<1>13. ASSUME Crash PROVE SerialIInv'
  BY SMTT(30), <1>13 DEF Crash, Restart
<1>14. ASSUME UNCHANGED vars PROVE SerialIInv'
  BY <1>14 DEF vars
<1>15. QED
  <2> HIDE DEF SerialIInv
  <2> QED
    BY <1>1, <1>2, <1>3, <1>4, <1>5, <1>6, <1>7, <1>8, <1>9, <1>10, <1>11, <1>12, <1>13,
       <1>14 DEF PlanNext, CallStep

\* The serialised strengthening holds in every state.
THEOREM SerialInvariant ==
  ASSUME Serialised
  PROVE  PlanSpec => []SerialIInv
<1>1. PlanInit => SerialIInv
  <2>1. PlanInit => ConsentIInv
    BY RequiresAssumption, SwitchesAssumption
    DEF PlanInit, Init, ConsentIInv, TypeOK, ConsentInv, CallInv, ConsentedRecord, Record, Absent
  <2>2. QED
    BY <2>1 DEF PlanInit, SerialIInv, SerialInv, DispatchedOnce, Busy, Absent
<1>2. SerialIInv /\ [PlanNext]_vars => SerialIInv'
  BY SerialStep
<1>3. QED
  BY <1>1, <1>2, PTL DEF PlanSpec

\* A proposal reaches the action dispatcher at most once, over any number of
\* calls, KV errors and restarts, when plan operations do not overlap.
THEOREM AtMostOneDispatch ==
  ASSUME Serialised
  PROVE  PlanSpec => []DispatchedOnce
BY SerialInvariant, PTL DEF SerialIInv

Forward == kv'.body = kv.body =>
             /\ Rank(kv'.status) >= Rank(kv.status)
             /\ kv.status \in Terminal => kv' = kv

\* Every step moves the stored record forward.
LEMMA ForwardStep ==
  ASSUME Serialised, SerialIInv, [PlanNext]_vars
  PROVE  Forward
<1> USE RequiresAssumption, BodiesAssumption
      DEF Forward, SerialIInv, SerialInv, ConsentIInv, TypeOK, ConsentInv, CallInv, Record,
          Goto, KvError, contractVars, CanApprove, CanStart, CanComplete, Rank, Terminal
<1>1. ASSUME NEW b \in Bodies, StorePlan(b) PROVE Forward
  BY <1>1, CreateFacts, RecordFacts DEF StorePlan
<1>2. ASSUME NEW e \in Gates, AutoPut(e) PROVE Forward
  BY <1>2, ApproveFacts DEF AutoPut
<1>3. ASSUME NEW e \in Gates, ApprovePut(e) PROVE Forward
  BY <1>3, ApproveFacts DEF ApprovePut
<1>4. ASSUME NEW e \in Gates, StartPut(e) PROVE Forward
  BY <1>4, StartFacts DEF StartPut
<1>5. ASSUME NEW e \in Gates, FinishPut(e) PROVE Forward
  BY <1>5, FinishFacts DEF FinishPut
<1>6. ASSUME kv' = kv PROVE Forward
  BY <1>6, RecordFacts DEF Statuses
<1>7. QED
  <2> HIDE DEF Forward, KvError, Goto, SerialInv, ConsentInv, TypeOK
  <2> QED
    BY <1>1, <1>2, <1>3, <1>4, <1>5, <1>6 DEF PlanNext, CallStep, ExecutePlan, AutoLoad,
         GateLoad, GateSettles, GateReturns, ExecLoad, Dispatch, Crash, KvError, vars

\* P1 and P2 of the stored record, when plan operations do not overlap.
THEOREM RecordMovesForward ==
  ASSUME Serialised
  PROVE  PlanSpec => StatusForward
<1>1. SerialIInv /\ [PlanNext]_vars => [Forward]_vars
  BY ForwardStep
<1>2. QED
  BY <1>1, SerialInvariant, PTL DEF PlanSpec, StatusForward, Forward

\* What executePlan returned is what the record says as long as it holds that
\* proposal, when plan operations do not overlap.
THEOREM OutcomeStays ==
  ASSUME Serialised
  PROVE  PlanSpec => []OutcomeOnRecord
<1>1. PlanInit => OutcomeOnRecord
  BY DEF PlanInit, OutcomeOnRecord, Terminal
<1>2. SerialIInv /\ OutcomeOnRecord /\ [PlanNext]_vars => OutcomeOnRecord'
  <2> SUFFICES ASSUME SerialIInv, OutcomeOnRecord, [PlanNext]_vars,
                      NEW e \in Gates, epc'[e] \in Terminal, kv'.body = snap'[e].body
               PROVE  kv'.status = epc'[e]
    BY DEF OutcomeOnRecord
  <2>1. CASE epc[e] \in Terminal
    <3>1. epc'[e] = epc[e] /\ snap'[e] = snap[e]
      BY SMTT(30), <2>1 DEF SerialIInv, ConsentIInv, TypeOK, PlanNext, CallStep, StorePlan, ExecutePlan, AutoLoad, AutoPut, GateLoad,
         GateSettles, GateReturns, ApprovePut, ExecLoad, StartPut, Dispatch, FinishPut, Crash, KvError,
         Goto, Busy, Terminal, vars
    <3>2. snap[e].body \in stored \cup {"no_body"}
      BY DEF SerialIInv, SerialInv
    <3>3. kv'.body = kv.body
      <4>1. ASSUME NEW b \in Bodies, StorePlan(b) PROVE FALSE
        BY <3>1, <3>2, <4>1, BodiesAssumption DEF StorePlan, CreatePlan
      <4>2. ASSUME NEW f \in Gates, AutoPut(f) \/ ApprovePut(f) \/ StartPut(f) \/ FinishPut(f), kv' # kv
            PROVE  kv'.body = kv.body
        <5>1. kv = snap[f]
          BY <4>2 DEF SerialIInv, SerialInv, AutoPut, ApprovePut, StartPut, FinishPut
        <5>2. QED
          BY <4>2, <5>1 DEF AutoPut, ApprovePut, StartPut, FinishPut, KvError, Approve, Start, Complete, Fail, With
      <4>3. kv' = kv \/ (\E b \in Bodies : StorePlan(b))
              \/ (\E f \in Gates : AutoPut(f) \/ ApprovePut(f) \/ StartPut(f) \/ FinishPut(f))
        BY DEF PlanNext, CallStep, ExecutePlan, AutoLoad, GateLoad, GateSettles, GateReturns,
           ExecLoad, Dispatch, Crash, KvError, vars
      <4>4. QED
        BY <4>1, <4>2, <4>3
    <3>4. kv.status = epc[e]
      BY <2>1, <3>1, <3>3 DEF OutcomeOnRecord
    <3>5. kv' = kv
      BY <2>1, <3>3, <3>4, ForwardStep DEF Forward
    <3>6. QED
      BY <3>1, <3>4, <3>5
  <2>2. CASE epc[e] \notin Terminal
    <3>1. FinishPut(e) /\ epc'[e] # "kv_error"
      BY <2>2 DEF SerialIInv, ConsentIInv, TypeOK, PlanNext, CallStep, StorePlan, ExecutePlan, AutoLoad, AutoPut, GateLoad,
         GateSettles, GateReturns, ApprovePut, ExecLoad, StartPut, Dispatch, FinishPut, Crash, KvError,
         Goto, Busy, Terminal, vars
    <3>2. /\ kv' = IF epc[e] = "complete_put" THEN Complete(snap[e]) ELSE Fail(snap[e])
          /\ epc'[e] = IF epc[e] = "complete_put" THEN "executed" ELSE "failed"
      BY <3>1 DEF FinishPut, KvError, Goto, SerialIInv, ConsentIInv, TypeOK
    <3>3. QED
      BY <3>2 DEF Complete, Fail, With
  <2>3. QED
    BY <2>1, <2>2
<1>3. QED
  BY <1>1, <1>2, SerialInvariant, PTL DEF PlanSpec

-----------------------------------------------------------------------------
(* Why a record is left Executing                                          *)

\* A record that says Executing belongs to a call that holds the same proposal
\* and still has its outcome to store, or that lost it: the process died or the
\* put failed (the `?` of the final store.put in executePlan).
ExecutingOwned ==
  kv.status = "executing" =>
    \E e \in Gates : /\ snap[e].body = kv.body
                     /\ epc[e] \in {"dispatch", "complete_put", "fail_put", "dead", "kv_error"}

\* Only start's put makes the record Executing, and the call that made it so keeps
\* its copy until it overwrites the record or ends without doing so.
LEMMA OwnedStep ==
  ASSUME ConsentIInv, ExecutingOwned, [PlanNext]_vars
  PROVE  ExecutingOwned'
<1> USE DEF ExecutingOwned, ConsentIInv, TypeOK, ConsentInv, CallInv, Record, Goto, KvError,
            contractVars, CanApprove, CanStart, CanComplete
<1>1. ASSUME NEW b \in Bodies, StorePlan(b) PROVE ExecutingOwned'
  BY <1>1, CreateFacts DEF StorePlan
<1>2. ASSUME NEW e \in Gates, AutoPut(e) PROVE ExecutingOwned'
  BY <1>2, ApproveFacts DEF AutoPut
<1>3. ASSUME NEW e \in Gates, ApprovePut(e) PROVE ExecutingOwned'
  BY <1>3, ApproveFacts DEF ApprovePut
<1>4. ASSUME NEW e \in Gates, StartPut(e) PROVE ExecutingOwned'
  BY <1>4 DEF StartPut
<1>5. ASSUME NEW e \in Gates, FinishPut(e) PROVE ExecutingOwned'
  BY <1>5, FinishFacts DEF FinishPut
<1>6. ASSUME NEW e \in Gates, ExecutePlan(e) \/ AutoLoad(e) \/ GateLoad(e) \/ ExecLoad(e)
      PROVE  ExecutingOwned'
  BY <1>6 DEF ExecutePlan, AutoLoad, GateLoad, ExecLoad
<1>7. ASSUME NEW e \in Gates, GateSettles(e) \/ GateReturns(e) \/ Dispatch(e)
      PROVE  ExecutingOwned'
  BY SMTT(30), <1>7 DEF GateSettles, GateReturns, Dispatch
<1>8. ASSUME Crash PROVE ExecutingOwned'
  BY <1>8 DEF Crash, Busy, Ended
<1>9. ASSUME UNCHANGED vars PROVE ExecutingOwned'
  BY <1>9 DEF vars
<1>10. QED
  <2> HIDE DEF ExecutingOwned, ConsentIInv
  <2> QED
    BY <1>1, <1>2, <1>3, <1>4, <1>5, <1>6, <1>7, <1>8, <1>9 DEF PlanNext, CallStep

\* Calls that overlap included, a plan is stuck in Executing only after a crash or
\* a KV error: as long as the record says Executing, the call that dispatched this
\* proposal is still on its way to the final put or ended dead or in kv_error.
THEOREM ExecutingHasOwner == PlanSpec => []ExecutingOwned
<1>1. PlanInit => ExecutingOwned
  BY DEF PlanInit, ExecutingOwned, Absent
<1>2. ConsentIInv /\ ExecutingOwned /\ [PlanNext]_vars => ExecutingOwned'
  BY OwnedStep
<1>3. QED
  BY <1>1, <1>2, ConsentInvariant, PTL DEF PlanSpec
=============================================================================
