----------------------------- MODULE PlanPersist -----------------------------
(***************************************************************************)
(* The plan persistence helpers of agent-fw-plan: PlanStore and the        *)
(* *_in_kv functions, each of which loads a plan, applies one transition   *)
(* and puts it back, the recovery of complete_or_recover_in_kv and the     *)
(* observer of the *_observed variants.  One plan id; every caller has a   *)
(* PlanStore with the default prefix.                                      *)
(***************************************************************************)
EXTENDS PlanLifecycle, Integers, Sequences

CONSTANTS Callers,
          Serialised,        \* one helper runs at a time
          KvMayFail, TtlMayFire,
          MaxCalls           \* bound on the calls of the helpers

ASSUME CallersAssumption ==
  MaxCalls \in Nat /\ {Serialised, KvMayFail, TtlMayFire} \subseteq BOOLEAN

VARIABLES kv,     \* the record under plan_key(PLAN_PREFIX, id)
          call,   \* call[c]: the helper that c runs, or how its last one ended
          calls,  \* helpers called so far
          log     \* transitions reported to the observer

vars == <<kv, call, calls, log>>

Ops == {"approve", "start", "complete", "fail"}
From(op) == CASE op = "approve" -> "draft" [] op = "start" -> "approved" [] OTHER -> "executing"
Apply(op, p, user) == CASE op = "approve" -> Approve(p, user) [] op = "start" -> Start(p)
                        [] op = "complete" -> Complete(p) [] op = "fail" -> Fail(p)

\* Where a helper is, what it does, whether a failure is to be recovered, the
\* plan it loaded and the KV errors it has met (history).
Helper(stage, op, recovery, snap, faults) ==
  [stage |-> stage, op |-> op, recovery |-> recovery, snap |-> snap, faults |-> faults]

NoCall == Helper("ok", "approve", "off", Absent, 0)
Running == {"load", "put", "notify"}
Results == {"ok", "not_found", "invalid_transition", "kv_error"}

TypeOK ==
  /\ kv \in Plans(Callers) \cup {Absent}
  /\ call \in [Callers -> [stage : Running \cup Results, op : Ops,
                           recovery : {"off", "armed", "recovering"},
                           snap : Plans(Callers) \cup {Absent}, faults : 0..2]]
  /\ calls \in 0..MaxCalls
  /\ log \in Seq(Statuses \X Statuses)

Init ==
  /\ kv = Absent
  /\ call = [c \in Callers |-> NoCall]
  /\ calls = 0 /\ log = <<>>

Idle(c) == call[c].stage \in Results
Turn(c) == Idle(c) /\ (Serialised => \A d \in Callers : Idle(d))

\* PlanStore::persist of a new plan.
Persist(c, b) ==
  /\ Turn(c)
  /\ kv = Absent /\ calls = 0
  /\ kv' = CreatePlan(b)
  /\ UNCHANGED <<call, calls, log>>

\* PlanStore::approve, start, complete, fail and complete_or_recover.
Begin(c, op, recovery) ==
  /\ Turn(c)
  /\ recovery = "armed" => op = "complete"
  /\ calls < MaxCalls
  /\ calls' = calls + 1
  /\ call' = [call EXCEPT ![c] = Helper("load", op, recovery, Absent, 0)]
  /\ UNCHANGED <<kv, log>>

\* A variant that gives up when the completion fails.
StopWithoutRecovery(c, result, faults) ==
  /\ call' = [call EXCEPT ![c] = Helper(result, @.op, "recovering", @.snap, @.faults + faults)]
  /\ UNCHANGED <<kv, calls, log>>

\* A helper fails; complete_or_recover_in_kv then tries fail_plan_in_kv.
Stop(c, result, faults) ==
  /\ call' = [call EXCEPT ![c] =
       IF @.recovery = "armed"
       THEN Helper("load", "fail", "recovering", @.snap, @.faults + faults)
       ELSE Helper(result, @.op, @.recovery, @.snap, @.faults + faults)]
  /\ UNCHANGED <<kv, calls, log>>

\* A variant without the check of the transition.
LoadUnchecked(c) ==
  /\ call[c].stage = "load"
  /\ kv # Absent
  /\ call' = [call EXCEPT ![c] = Helper("put", @.op, @.recovery, kv, @.faults)]
  /\ UNCHANGED <<kv, calls, log>>

\* load_required, and the check of the transition.
Load(c) ==
  /\ call[c].stage = "load"
  /\ \/ KvMayFail /\ Stop(c, "kv_error", 1)
     \/ kv = Absent /\ Stop(c, "not_found", 0)
     \/ kv # Absent /\ kv.status # From(call[c].op) /\ Stop(c, "invalid_transition", 0)
     \/ /\ kv.status = From(call[c].op)
        /\ call' = [call EXCEPT ![c] = Helper("put", @.op, @.recovery, kv, @.faults)]
        /\ UNCHANGED <<kv, calls, log>>

\* persist_plan of the new value.
Put(c) ==
  /\ call[c].stage = "put"
  /\ \/ KvMayFail /\ Stop(c, "kv_error", 1)
     \/ /\ kv' = Apply(call[c].op, call[c].snap, c)
        /\ call' = [call EXCEPT ![c].stage = "notify"]
        /\ UNCHANGED <<calls, log>>

\* A variant that reports the completion the caller asked for.
NotifyRequested(c) ==
  /\ call[c].stage = "notify"
  /\ log' = Append(log, <<From(call[c].op), IF call[c].recovery = "off"
                                            THEN Apply(call[c].op, call[c].snap, c).status
                                            ELSE "executed">>)
  /\ call' = [call EXCEPT ![c].stage = "ok"]
  /\ UNCHANGED <<kv, calls>>

\* The observer is told after the put, and the helper returns Ok.
Notify(c) ==
  /\ call[c].stage = "notify"
  /\ log' = Append(log, <<From(call[c].op), Apply(call[c].op, call[c].snap, c).status>>)
  /\ call' = [call EXCEPT ![c].stage = "ok"]
  /\ UNCHANGED <<kv, calls>>

\* PLAN_TTL passes.
Expire ==
  /\ TtlMayFire
  /\ kv # Absent
  /\ kv' = Absent
  /\ UNCHANGED <<call, calls, log>>

Next ==
  \/ \E c \in Callers :
       \/ \E b \in Bodies : Persist(c, b)
       \/ \E op \in Ops, recovery \in {"off", "armed"} : Begin(c, op, recovery)
       \/ Load(c) \/ Put(c) \/ Notify(c)
  \/ Expire

Spec == Init /\ [][Next]_vars

-----------------------------------------------------------------------------
(* Properties                                                              *)

\* "Transitions only advance forward in the state machine" (L3), of the stored
\* record.
StatusMonotone ==
  [][kv'.body = kv.body =>
       /\ Rank(kv'.status) >= Rank(kv.status)
       /\ kv.status \in Terminal => kv' = kv]_vars

\* The observer sees one walk through the state machine that ends where the
\* record is: each report starts where the last one ended, also when a
\* completion was recovered into a failure.
ObserverFollowsRecord ==
  /\ \A i \in 1..(Len(log) - 1) : log[i][2] = log[i + 1][1]
  /\ (\A c \in Callers : Idle(c)) /\ kv # Absent /\ log # <<>> =>
        log[Len(log)][2] = kv.status

\* "Err if both complete AND fail transitions failed": when
\* complete_or_recover_in_kv returns and leaves the plan Executing, it has met
\* two KV errors.
RecoveryNeedsTwoFaults ==
  [][\A c \in Callers :
       /\ call[c].stage \in Running /\ call'[c].stage \in Results \ {"ok"}
       /\ call'[c].recovery = "recovering" /\ kv'.status = "executing"
       => call'[c].faults = 2]_vars
=============================================================================
