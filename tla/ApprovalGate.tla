---------------------------- MODULE ApprovalGate ----------------------------
(***************************************************************************)
(* The pre-dispatch approval protocol.  A gate (the tool gate              *)
(* ApprovalHandler::handle or the plan gate GatedPlanExecutor::execute)    *)
(* registers a request under a fresh id, announces it on the event sink    *)
(* and suspends; a host call (Runtime::respond_to_approval) resolves it; a *)
(* cancelled request, or a sink that drops the announcement, expires it.   *)
(* KvPendingApprovalStore keeps the awaiters in memory (the source of      *)
(* truth) and writes every transition through to a KV audit record, best   *)
(* effort.  A restart loses the memory, keeps the audit, and may be        *)
(* followed by sweep_orphans_on_startup.                                   *)
(*                                                                         *)
(* A step is what runs between two awaits, or one section under the        *)
(* store's mutex.  Every gate allocates one fresh uuid, so a gate and its  *)
(* ApprovalId are the same value.                                          *)
(***************************************************************************)
EXTENDS Naturals

CONSTANTS Gates,         \* gate invocations, one fresh ApprovalId each
          Calls,         \* respond_to_approval calls
          Decisions,     \* ApprovalOutcome: approve, reject, revise
          GuardedEmits,  \* guarded emits before the await: tool gate 1, plan gate 2
          MaxCrashes     \* bound on process restarts

ASSUME GuardedEmitsAssumption == GuardedEmits \in Nat \ {0}
ASSUME DecisionsAssumption ==
  /\ "approve" \in Decisions
  /\ Decisions \cap {"none", "pending", "restart", "cancelled", "host_shutdown"} = {}
ASSUME MaxCrashesAssumption == MaxCrashes \in Nat

GateReasons == {"cancelled", "host_shutdown"}   \* ExpireReason used by the gates
None == "none"
Verdicts == Decisions \cup GateReasons \cup {None}
AuditStates == Verdicts \cup {"pending", "restart"}

VARIABLES
  gpc,        \* gpc[g]: where gate g is
  emitted,    \* emitted[g]: guarded emits that succeeded
  reason,     \* reason[g]: ExpireReason the gate passes to expire
  gprior,     \* gprior[g]: expire's snapshot found the body
  cancelled,  \* gates whose cancellation token has fired
  pending,    \* InMemoryPendingApprovalStore: ids with a live sender
  resolved,   \* InMemoryPendingApprovalStore: ids already settled
  verdict,    \* verdict[g]: what moved g from pending to resolved (history)
  oneshot,    \* oneshot[g]: decision sent to the awaiter
  audit,      \* audit[g]: StoredApprovalStatus in KV
  lost,       \* ids with a failed Resolved or Expired write (history)
  announced,  \* ids whose approval_required event the host received
  cpc,        \* cpc[c]: where host call c is
  cid,        \* cid[c]: the id it answers
  cdec,       \* cdec[c]: its decision
  cprior,     \* cprior[c]: resolve's snapshot found the body
  crashes,    \* restarts so far
  todo,       \* sweep candidates not yet examined
  sweepAt     \* candidates read as Pending and about to be written

memVars   == <<pending, resolved, verdict, oneshot>>
auditVars == <<audit, lost>>
callVars  == <<cpc, cid, cdec, cprior>>
sweepVars == <<todo, sweepAt>>
vars == <<gpc, emitted, reason, gprior, cancelled, memVars, auditVars,
          announced, callVars, crashes, sweepVars>>

Returned == {"approved", "declined", "cancelled", "closed"}
Running  == {"audit", "emit", "waiting", "expire", "expire_lock", "expire_audit"}
GatePc   == {"idle", "dead"} \cup Running \cup Returned
InFlight == {"resolve", "send", "record"}
CallPc   == {"idle", "ok", "already_resolved", "not_found", "lost", "unacked"}
              \cup InFlight

TypeOK ==
  /\ gpc \in [Gates -> GatePc]
  /\ emitted \in [Gates -> 0..GuardedEmits]
  /\ reason \in [Gates -> GateReasons \cup {None}]
  /\ gprior \in [Gates -> BOOLEAN]
  /\ cancelled \subseteq Gates
  /\ pending \subseteq Gates /\ resolved \subseteq Gates
  /\ verdict \in [Gates -> Verdicts]
  /\ oneshot \in [Gates -> Decisions \cup {None}]
  /\ audit \in [Gates -> AuditStates]
  /\ lost \subseteq Gates /\ announced \subseteq Gates
  /\ cpc \in [Calls -> CallPc]
  /\ cid \in [Calls -> Gates \cup {None}]
  /\ cdec \in [Calls -> Decisions \cup {None}]
  /\ cprior \in [Calls -> BOOLEAN]
  /\ crashes \in 0..MaxCrashes
  /\ todo \subseteq Gates /\ sweepAt \subseteq Gates

Init ==
  /\ gpc = [g \in Gates |-> "idle"]
  /\ emitted = [g \in Gates |-> 0]
  /\ reason = [g \in Gates |-> None]
  /\ gprior = [g \in Gates |-> FALSE]
  /\ cancelled = {}
  /\ pending = {} /\ resolved = {}
  /\ verdict = [g \in Gates |-> None]
  /\ oneshot = [g \in Gates |-> None]
  /\ audit = [g \in Gates |-> None]
  /\ lost = {} /\ announced = {}
  /\ cpc = [c \in Calls |-> "idle"]
  /\ cid = [c \in Calls |-> None]
  /\ cdec = [c \in Calls |-> None]
  /\ cprior = [c \in Calls |-> FALSE]
  /\ crashes = 0
  /\ todo = {} /\ sweepAt = {}

-----------------------------------------------------------------------------
(* The store                                                               *)

\* write_stored: the put succeeds, or fails and is only logged.
WriteStored(g, status) ==
  \/ audit' = [audit EXCEPT ![g] = status] /\ lost' = lost
  \/ audit' = audit /\ lost' = IF status = "pending" THEN lost ELSE lost \cup {g}

\* The section under the mutex shared by resolve and expire, entered only
\* when the id is pending: remove the sender, remember the id as resolved.
Settle(g, v) ==
  /\ pending' = pending \ {g}
  /\ resolved' = resolved \cup {g}
  /\ verdict' = [verdict EXCEPT ![g] = v]

-----------------------------------------------------------------------------
(* The gate                                                                *)

\* Variant: the event goes out before the awaiter is in the store.
RegisterAfterEmit(g) ==
  /\ gpc[g] = "idle"
  /\ announced' = announced \cup {g}
  /\ gpc' = [gpc EXCEPT ![g] = "audit"]
  /\ UNCHANGED <<emitted, reason, gprior, cancelled, memVars, auditVars,
                 callVars, crashes, sweepVars>>

\* register, first half: the awaiter goes into memory.
Register(g) ==
  /\ gpc[g] = "idle"
  /\ g \notin pending \cup resolved
  /\ pending' = pending \cup {g}
  /\ gpc' = [gpc EXCEPT ![g] = "audit"]
  /\ UNCHANGED <<emitted, reason, gprior, cancelled, resolved, verdict, oneshot,
                 auditVars, announced, callVars, crashes, sweepVars>>

\* register, second half: the body is written through as Pending.
RecordPending(g) ==
  /\ gpc[g] = "audit"
  /\ WriteStored(g, "pending")
  /\ gpc' = [gpc EXCEPT ![g] = "emit"]
  /\ UNCHANGED <<emitted, reason, gprior, cancelled, memVars, announced,
                 callVars, crashes, sweepVars>>

\* A guarded emit the sink accepts: the first announces the id to the host,
\* the last one leads to the await.
EmitAccepted(g) ==
  /\ gpc[g] = "emit"
  /\ announced' = announced \cup {g}
  /\ emitted' = [emitted EXCEPT ![g] = @ + 1]
  /\ gpc' = [gpc EXCEPT ![g] = IF emitted[g] + 1 = GuardedEmits
                                 THEN "waiting" ELSE "emit"]
  /\ UNCHANGED <<reason, gprior, cancelled, memVars, auditVars, callVars,
                 crashes, sweepVars>>

\* Variant: the gate returns without expiring its entry.
EmitDroppedWithoutExpire(g) ==
  /\ gpc[g] = "emit"
  /\ gpc' = [gpc EXCEPT ![g] = "closed"]
  /\ UNCHANGED <<emitted, reason, gprior, cancelled, memVars, auditVars,
                 announced, callVars, crashes, sweepVars>>

\* A guarded emit that returns false: the stream is closed or its buffer full.
EmitDropped(g) ==
  /\ gpc[g] = "emit"
  /\ reason' = [reason EXCEPT ![g] = "host_shutdown"]
  /\ gpc' = [gpc EXCEPT ![g] = "expire"]
  /\ UNCHANGED <<emitted, gprior, cancelled, memVars, auditVars, announced,
                 callVars, crashes, sweepVars>>

\* Variant: any answer lets the call through.
DecideIgnoresOutcome(g) ==
  /\ gpc[g] = "waiting"
  /\ oneshot[g] # None
  /\ gpc' = [gpc EXCEPT ![g] = "approved"]
  /\ UNCHANGED <<emitted, reason, gprior, cancelled, memVars, auditVars,
                 announced, callVars, crashes, sweepVars>>

\* select!: the awaiter is ready with a decision.
Decide(g) ==
  /\ gpc[g] = "waiting"
  /\ oneshot[g] # None
  /\ gpc' = [gpc EXCEPT ![g] = IF oneshot[g] = "approve" THEN "approved"
                                                          ELSE "declined"]
  /\ UNCHANGED <<emitted, reason, gprior, cancelled, memVars, auditVars,
                 announced, callVars, crashes, sweepVars>>

\* Variant: cancellation returns without expiring the entry.
CancelWithoutExpire(g) ==
  /\ gpc[g] = "waiting"
  /\ g \in cancelled
  /\ gpc' = [gpc EXCEPT ![g] = "cancelled"]
  /\ UNCHANGED <<emitted, reason, gprior, cancelled, memVars, auditVars,
                 announced, callVars, crashes, sweepVars>>

\* select!: the cancellation branch, which may win even when a decision is
\* already there (the select is not biased).
CancelBranch(g) ==
  /\ gpc[g] = "waiting"
  /\ g \in cancelled
  /\ reason' = [reason EXCEPT ![g] = "cancelled"]
  /\ gpc' = [gpc EXCEPT ![g] = "expire"]
  /\ UNCHANGED <<emitted, gprior, cancelled, memVars, auditVars, announced,
                 callVars, crashes, sweepVars>>

\* What the gate returns once expire is over, whatever expire answered.
ExpiredAs(g) == IF reason[g] = "cancelled" THEN "cancelled" ELSE "closed"

\* expire: snapshot of the body.
ExpireSnapshot(g) ==
  /\ gpc[g] = "expire"
  /\ gprior' = [gprior EXCEPT ![g] = g \in pending]
  /\ gpc' = [gpc EXCEPT ![g] = "expire_lock"]
  /\ UNCHANGED <<emitted, reason, cancelled, memVars, auditVars, announced,
                 callVars, crashes, sweepVars>>

\* expire: the id is still pending and this call settles it.  The message
\* goes to an awaiter nobody polls any more.
ExpireWins(g) ==
  /\ gpc[g] = "expire_lock"
  /\ g \notin resolved /\ g \in pending
  /\ Settle(g, reason[g])
  /\ gpc' = [gpc EXCEPT ![g] = "expire_audit"]
  /\ UNCHANGED <<emitted, reason, gprior, cancelled, oneshot, auditVars,
                 announced, callVars, crashes, sweepVars>>

\* Variant: the losing expire still writes its record.
ExpireLosesButRecords(g) ==
  /\ gpc[g] = "expire_lock"
  /\ g \in resolved \/ g \notin pending
  /\ gpc' = [gpc EXCEPT ![g] = "expire_audit"]
  /\ UNCHANGED <<emitted, reason, gprior, cancelled, memVars, auditVars,
                 announced, callVars, crashes, sweepVars>>

\* expire: AlreadyResolved (a host call was first) or NotFound, both ignored.
ExpireLoses(g) ==
  /\ gpc[g] = "expire_lock"
  /\ g \in resolved \/ g \notin pending
  /\ gpc' = [gpc EXCEPT ![g] = ExpiredAs(g)]
  /\ UNCHANGED <<emitted, reason, gprior, cancelled, memVars, auditVars,
                 announced, callVars, crashes, sweepVars>>

\* expire: write Expired through when the snapshot found a body.
RecordExpired(g) ==
  /\ gpc[g] = "expire_audit"
  /\ IF gprior[g] THEN WriteStored(g, reason[g]) ELSE UNCHANGED auditVars
  /\ gpc' = [gpc EXCEPT ![g] = ExpiredAs(g)]
  /\ UNCHANGED <<emitted, reason, gprior, cancelled, memVars, announced,
                 callVars, crashes, sweepVars>>

\* The request token fires (the host cancels the stream or a parent does).
CancelRequest(g) ==
  /\ g \notin cancelled
  /\ gpc[g] \in {"idle"} \cup Running
  /\ cancelled' = cancelled \cup {g}
  /\ UNCHANGED <<gpc, emitted, reason, gprior, memVars, auditVars, announced,
                 callVars, crashes, sweepVars>>

-----------------------------------------------------------------------------
(* The host                                                                *)

\* respond_to_approval up to the snapshot in resolve.  The host knows an id
\* only from its event.
Respond(c, g, d) ==
  /\ cpc[c] = "idle"
  /\ g \in announced
  /\ cid' = [cid EXCEPT ![c] = g]
  /\ cdec' = [cdec EXCEPT ![c] = d]
  /\ cprior' = [cprior EXCEPT ![c] = g \in pending]
  /\ cpc' = [cpc EXCEPT ![c] = "resolve"]
  /\ UNCHANGED <<gpc, emitted, reason, gprior, cancelled, memVars, auditVars,
                 announced, crashes, sweepVars>>

\* Variant: resolve does not look whether the id is still pending.
ResolveUnchecked(c) ==
  /\ cpc[c] = "resolve"
  /\ Settle(cid[c], cdec[c])
  /\ cpc' = [cpc EXCEPT ![c] = "send"]
  /\ UNCHANGED <<gpc, emitted, reason, gprior, cancelled, oneshot, auditVars,
                 announced, cid, cdec, cprior, crashes, sweepVars>>

\* resolve: this call settles the id.
ResolveWins(c) ==
  /\ cpc[c] = "resolve"
  /\ cid[c] \notin resolved /\ cid[c] \in pending
  /\ Settle(cid[c], cdec[c])
  /\ cpc' = [cpc EXCEPT ![c] = "send"]
  /\ UNCHANGED <<gpc, emitted, reason, gprior, cancelled, oneshot, auditVars,
                 announced, cid, cdec, cprior, crashes, sweepVars>>

\* resolve: AlreadyResolved, or NotFound.
ResolveRefused(c) ==
  /\ cpc[c] = "resolve"
  /\ cid[c] \in resolved \/ cid[c] \notin pending
  /\ cpc' = [cpc EXCEPT ![c] = IF cid[c] \in resolved THEN "already_resolved"
                                                       ELSE "not_found"]
  /\ UNCHANGED <<gpc, emitted, reason, gprior, cancelled, memVars, auditVars,
                 announced, cid, cdec, cprior, crashes, sweepVars>>

\* Variant: the sender is dropped from the map but never used.
SendForgotten(c) ==
  /\ cpc[c] = "send"
  /\ cpc' = [cpc EXCEPT ![c] = "record"]
  /\ UNCHANGED <<gpc, emitted, reason, gprior, cancelled, memVars, auditVars,
                 announced, cid, cdec, cprior, crashes, sweepVars>>

\* resolve: wake the awaiter, after the mutex is released.
Send(c) ==
  /\ cpc[c] = "send"
  /\ oneshot' = [oneshot EXCEPT ![cid[c]] = cdec[c]]
  /\ cpc' = [cpc EXCEPT ![c] = "record"]
  /\ UNCHANGED <<gpc, emitted, reason, gprior, cancelled, pending, resolved,
                 verdict, auditVars, announced, cid, cdec, cprior, crashes,
                 sweepVars>>

\* resolve: write Resolved through when the snapshot found a body.
RecordResolved(c) ==
  /\ cpc[c] = "record"
  /\ IF cprior[c] THEN WriteStored(cid[c], cdec[c]) ELSE UNCHANGED auditVars
  /\ cpc' = [cpc EXCEPT ![c] = "ok"]
  /\ UNCHANGED <<gpc, emitted, reason, gprior, cancelled, memVars, announced,
                 cid, cdec, cprior, crashes, sweepVars>>

-----------------------------------------------------------------------------
(* Restart and sweep                                                       *)

\* The process dies: tasks, awaiters and calls in flight are gone; the audit
\* records and the host's ledger of announced ids remain.
Crash ==
  /\ crashes < MaxCrashes
  /\ crashes' = crashes + 1
  /\ gpc' = [g \in Gates |-> IF gpc[g] \in Running THEN "dead" ELSE gpc[g]]
  /\ cpc' = [c \in Calls |-> CASE cpc[c] = "resolve" -> "lost"
                               [] cpc[c] \in {"send", "record"} -> "unacked"
                               [] OTHER -> cpc[c]]
  /\ pending' = {} /\ resolved' = {}
  /\ oneshot' = [g \in Gates |-> None]
  /\ todo' = announced /\ sweepAt' = {}
  /\ UNCHANGED <<emitted, reason, gprior, cancelled, verdict, auditVars,
                 announced, cid, cdec, cprior>>

\* Variant: the status test is inverted.
SweepReadInverted(g) ==
  /\ sweepAt = {}
  /\ g \in todo
  /\ IF audit[g] # "pending" THEN sweepAt' = {g} /\ todo' = todo
                             ELSE sweepAt' = {} /\ todo' = todo \ {g}
  /\ UNCHANGED <<gpc, emitted, reason, gprior, cancelled, memVars, auditVars,
                 announced, callVars, crashes>>

\* Variant: every candidate is expired, settled or not.
SweepReadUnchecked(g) ==
  /\ sweepAt = {}
  /\ g \in todo
  /\ sweepAt' = {g}
  /\ UNCHANGED <<gpc, emitted, reason, gprior, cancelled, memVars, auditVars,
                 announced, callVars, crashes, todo>>

\* sweep_orphans_on_startup reads the next candidate; one that is not
\* Pending is skipped.  A read that fails ends the sweep with an error: the
\* candidates left then stay in todo.
SweepRead(g) ==
  /\ sweepAt = {}
  /\ g \in todo
  /\ IF audit[g] = "pending" THEN sweepAt' = {g} /\ todo' = todo
                             ELSE sweepAt' = {} /\ todo' = todo \ {g}
  /\ UNCHANGED <<gpc, emitted, reason, gprior, cancelled, memVars, auditVars,
                 announced, callVars, crashes>>

\* ... and writes Expired(Restart).  A write that fails is logged and ignored.
SweepWrite(g) ==
  /\ g \in sweepAt
  /\ WriteStored(g, "restart")
  /\ sweepAt' = {} /\ todo' = todo \ {g}
  /\ UNCHANGED <<gpc, emitted, reason, gprior, cancelled, memVars, announced,
                 callVars, crashes>>

-----------------------------------------------------------------------------
GateStep(g) ==
  \/ RecordPending(g) \/ EmitAccepted(g) \/ EmitDropped(g)
  \/ Decide(g) \/ CancelBranch(g)
  \/ ExpireSnapshot(g) \/ ExpireWins(g) \/ ExpireLoses(g) \/ RecordExpired(g)

CallStep(c) == ResolveWins(c) \/ ResolveRefused(c) \/ Send(c) \/ RecordResolved(c)

SweepStep == \E g \in Gates : SweepRead(g) \/ SweepWrite(g)

Next ==
  \/ \E g \in Gates : Register(g) \/ GateStep(g) \/ CancelRequest(g)
  \/ \E c \in Calls : CallStep(c) \/ (\E g \in Gates, d \in Decisions : Respond(c, g, d))
  \/ Crash
  \/ SweepStep

Spec == Init /\ [][Next]_vars

\* Tasks that are runnable get polled and KV calls return; nothing obliges a
\* host to answer or to cancel, or the process to live.
Fairness ==
  /\ \A g \in Gates : WF_vars(GateStep(g))
  /\ \A c \in Calls : WF_vars(CallStep(c))

FairSpec == Spec /\ Fairness

-----------------------------------------------------------------------------
(* Properties                                                              *)

Won(c) == cpc[c] \in {"send", "record", "ok", "unacked"}

\* H1 ("no DashMap leak"): however a gate returns - decision, cancellation, or
\* a sink that dropped one of its guarded emits - its entry has left the map
\* of pending awaiters.
GateReleasesEntry == \A g \in Gates : gpc[g] \in Returned => g \notin pending

\* H4: the id of a live gate the host has heard of is always in the store, so
\* a fast respond_to_approval never sees NotFound.
AnnouncedIsAnswerable ==
  \A g \in announced : gpc[g] \in Running => g \in pending \cup resolved

\* At most one respond_to_approval call is accepted per id, never together
\* with an expiry by the gate, and it is the decision the id was settled with.
OneWinner ==
  /\ \A c \in Calls : Won(c) => verdict[cid[c]] = cdec[c]
  /\ \A c1, c2 \in Calls : Won(c1) /\ Won(c2) /\ cid[c1] = cid[c2] => c1 = c2

\* A gate lets the call through only if some host call answered this very id
\* with approve and won.
PassedWithConsent ==
  \A g \in Gates : gpc[g] = "approved" =>
    \E c \in Calls : Won(c) /\ cid[c] = g /\ cdec[c] = "approve"

\* The write-through audit record is truthful: an acknowledged decision is on
\* record unless that very write failed, a recorded decision was acknowledged,
\* and an id recorded as expired by its gate was answered by nobody.
AuditTruthful ==
  /\ \A c \in Calls : cpc[c] = "ok" /\ cid[c] \notin lost => audit[cid[c]] = cdec[c]
  /\ \A g \in Gates : audit[g] \in Decisions =>
       \E c \in Calls : cpc[c] = "ok" /\ cid[c] = g /\ cdec[c] = audit[g]
  /\ \A g \in Gates : audit[g] \in GateReasons =>
       \A c \in Calls : Won(c) => cid[c] # g

\* A terminal audit record (Resolved or Expired) is never rewritten, neither by
\* a late Pending write, nor by the loser of the race, nor by a sweep.
TerminalAuditStable ==
  [][\A g \in Gates : audit[g] \notin {None, "pending"} => audit'[g] = audit[g]]_vars

\* H5: once sweep_orphans_on_startup has gone through the host's ledger, no
\* gate that died with the process is still on record as Pending, nor is a
\* decision whose acknowledgement the restart cut off (failed writes aside).
SweepLeavesNoOrphan ==
  todo = {} =>
    /\ \A g \in announced \ lost : gpc[g] = "dead" => audit[g] # "pending"
    /\ \A c \in Calls : cpc[c] = "unacked" /\ cid[c] \notin lost
                         => audit[cid[c]] # "pending"

\* H1/H7 and "resolve wakes the waiter": a gate whose token has fired or whose
\* id is settled returns, whatever the host does.
GateReturns ==
  \A g \in Gates : (gpc[g] \in Running /\ (g \in cancelled \/ verdict[g] # None))
                     ~> gpc[g] \in Returned \cup {"dead"}

-----------------------------------------------------------------------------
(* The inductive invariant behind the safety properties.                   *)

\* Memory, audit record and sweep agree with where a gate is.
GateInv(g) ==
  /\ g \in pending =>
       /\ gpc[g] \in Running \ {"expire_audit"}
       /\ verdict[g] = None /\ g \notin resolved
  /\ g \in resolved => gpc[g] \in (Running \cup Returned) \ {"audit"} /\ verdict[g] # None
  /\ gpc[g] \in Running => g \in pending \cup resolved
  /\ gpc[g] \in {"expire", "expire_lock", "expire_audit"} => reason[g] \in GateReasons
  /\ gpc[g] = "expire_audit" => g \in resolved /\ verdict[g] = reason[g]
  /\ gpc[g] \in Returned => verdict[g] # None
  /\ gpc[g] \in {"idle", "audit"} =>
       g \notin announced /\ audit[g] = None /\ verdict[g] = None
  /\ oneshot[g] # None => \E c \in Calls : Won(c) /\ cid[c] = g /\ cdec[c] = oneshot[g]
  /\ gpc[g] = "approved" => \E c \in Calls : Won(c) /\ cid[c] = g /\ cdec[c] = "approve"
  /\ audit[g] \in Decisions =>
       \E c \in Calls : cpc[c] = "ok" /\ cid[c] = g /\ cdec[c] = audit[g]
  /\ audit[g] \in GateReasons => verdict[g] \in GateReasons
  /\ gpc[g] \in Running => audit[g] \in {None, "pending"} \cup Decisions
  /\ g \in resolved => audit[g] # "restart"
  /\ g \in todo => gpc[g] \in Returned \cup {"dead"} /\ g \notin pending \cup resolved
  /\ g \in sweepAt => g \in todo /\ audit[g] = "pending"
  /\ gpc[g] = "dead" /\ g \in announced \ lost /\ audit[g] = "pending" => g \in todo

\* A host call agrees with the id it answers.
CallInv(c) ==
  /\ cpc[c] # "idle" => cid[c] \in announced /\ cdec[c] \in Decisions
  /\ Won(c) => verdict[cid[c]] = cdec[c]
  /\ cpc[c] \in {"send", "record"} => cid[c] \in resolved /\ cprior[c]
  /\ cpc[c] = "resolve" /\ ~cprior[c] => cid[c] \notin pending
  /\ cpc[c] = "ok" /\ cid[c] \notin lost => audit[cid[c]] = cdec[c]
  /\ cpc[c] = "unacked" /\ cid[c] \notin lost /\ audit[cid[c]] = "pending"
       => cid[c] \in todo

UniqueWinner ==
  \A c1, c2 \in Calls : Won(c1) /\ Won(c2) /\ cid[c1] = cid[c2] => c1 = c2

\* What every step preserves: memory, audit record, calls and sweep agree.
ProtocolInv ==
  /\ \A g \in Gates : GateInv(g)
  /\ \A c \in Calls : CallInv(c)
  /\ UniqueWinner

-----------------------------------------------------------------------------
(* What the protocol promises, see ApprovalContract.                       *)
PhaseOf(pc) == CASE pc = "idle" -> "new"
                 [] pc \in Running -> "open"
                 [] pc = "approved" -> "passed"
                 [] pc = "dead" -> "abandoned"
                 [] OTHER -> "refused"

Phase == [g \in Gates |-> PhaseOf(gpc[g])]

Contract == INSTANCE ApprovalContract WITH phase <- Phase

\* The protocol implements its contract: every id is opened once, settled at
\* most once and only while its gate is suspended, and the gate passes or
\* refuses only after that.
ImplementsContract == Contract!Spec
=============================================================================
