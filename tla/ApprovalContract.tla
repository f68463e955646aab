-------------------------- MODULE ApprovalContract --------------------------
(***************************************************************************)
(* What the approval protocol promises to the code behind a gate and to    *)
(* the host, without stores, messages or audit records: an id is opened by *)
(* its gate, settled at most once by a decision or an expiry, and its gate *)
(* then passes (only on approve) or refuses.  A restart abandons the gates *)
(* that are open.                                                          *)
(***************************************************************************)
CONSTANTS Gates, Decisions

VARIABLES phase,   \* phase[g]: new, open, passed, refused or abandoned
          verdict  \* verdict[g]: the decision or expiry reason, once settled

Open(g) ==
  /\ phase[g] = "new"
  /\ phase' = [phase EXCEPT ![g] = "open"]
  /\ UNCHANGED verdict

Settle(g) ==
  /\ phase[g] = "open"
  /\ verdict[g] = "none"
  /\ \E v \in Decisions \cup {"cancelled", "host_shutdown"} :
       verdict' = [verdict EXCEPT ![g] = v]
  /\ UNCHANGED phase

Pass(g) ==
  /\ phase[g] = "open"
  /\ verdict[g] = "approve"
  /\ phase' = [phase EXCEPT ![g] = "passed"]
  /\ UNCHANGED verdict

Refuse(g) ==
  /\ phase[g] = "open"
  /\ verdict[g] # "none"
  /\ phase' = [phase EXCEPT ![g] = "refused"]
  /\ UNCHANGED verdict

Restart ==
  /\ phase' = [g \in Gates |-> IF phase[g] = "open" THEN "abandoned" ELSE phase[g]]
  /\ UNCHANGED verdict

Init == phase = [g \in Gates |-> "new"] /\ verdict = [g \in Gates |-> "none"]

Next ==
  \/ \E g \in Gates : Open(g) \/ Settle(g) \/ Pass(g) \/ Refuse(g)
  \/ Restart

contractVars == <<phase, verdict>>

Spec == Init /\ [][Next]_contractVars
=============================================================================
