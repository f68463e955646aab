---------------------------- MODULE PlanLifecycle ----------------------------
(***************************************************************************)
(* The plan state machine of agent-fw-plan: a plan value and its           *)
(* transitions.  A plan is its status, the proposal it carries (one body   *)
(* per propose call), who approved it and its terminal outcome; titles,    *)
(* actions and timestamps are abstracted into the body.                    *)
(***************************************************************************)
CONSTANT Bodies   \* proposals

ASSUME BodiesAssumption == "no_body" \notin Bodies

Statuses == {"draft", "approved", "executing", "executed", "failed"}
Terminal == {"executed", "failed"}

Nobody == "nobody"
NoOutcome == "no_outcome"

\* No record under the plan's key.
Absent == [status |-> "absent", body |-> "no_body", approved_by |-> Nobody,
           outcome |-> NoOutcome]

\* create_plan
CreatePlan(b) == [status |-> "draft", body |-> b, approved_by |-> Nobody,
                  outcome |-> NoOutcome]

CanApprove(p)  == p.status = "draft"
CanStart(p)    == p.status = "approved"
CanComplete(p) == p.status = "executing"

\* A plan with the given status, approver and outcome and the body of p.
With(p, status, user, outcome) ==
  [status |-> status, body |-> p.body, approved_by |-> user, outcome |-> outcome]

Approve(p, user) == With(p, "approved", user, p.outcome)
Start(p)         == With(p, "executing", p.approved_by, p.outcome)

Complete(p)      == With(p, "executed", p.approved_by, "executed")
Fail(p)          == With(p, "failed", p.approved_by, "failed")

\* The plans that the transitions build out of a draft: approved_by is set by
\* approve (P4) and the outcome is there exactly in a terminal status (P5).
Plans(users) ==
  {CreatePlan(b) : b \in Bodies}
    \cup [status : {"approved", "executing"}, body : Bodies, approved_by : users,
          outcome : {NoOutcome}]
    \cup [status : {"executed"}, body : Bodies, approved_by : users, outcome : {"executed"}]
    \cup [status : {"failed"}, body : Bodies, approved_by : users, outcome : {"failed"}]

\* The order of the DAG of P1.
Rank(status) == CASE status = "draft" -> 0
                  [] status = "approved" -> 1
                  [] status = "executing" -> 2
                  [] OTHER -> 3
=============================================================================
