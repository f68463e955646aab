------------------------- MODULE ApprovalGateProofs -------------------------
(***************************************************************************)
(* The safety of the approval protocol for every set of gates, calls and   *)
(* decisions, every number of guarded emits and of restarts.               *)
(***************************************************************************)
EXTENDS ApprovalGate, TLAPS

USE DEF GateReasons, None, Running, Returned

\* The variables have their types when the runtime starts.
LEMMA TypeInit == Init => TypeOK
  BY GuardedEmitsAssumption, MaxCrashesAssumption
  DEF Init, TypeOK, GatePc, CallPc, InFlight, Verdicts, AuditStates

\* What makes the type invariant inductive: a gate that may still emit has not
\* used its emits up, and a call that has started names a gate.
TypeAux ==
  /\ \A g \in Gates : gpc[g] \in {"idle", "audit", "emit"} => emitted[g] < GuardedEmits
  /\ \A c \in Calls : cpc[c] # "idle" => cid[c] \in Gates

\* Every step of a gate, a host call, a sweep or a restart keeps the types.
LEMMA TypeStep == TypeOK /\ TypeAux /\ [Next]_vars => TypeOK' /\ TypeAux'
<1> SUFFICES ASSUME TypeOK, TypeAux, [Next]_vars
             PROVE  TypeOK' /\ TypeAux'
  OBVIOUS
<1> USE GuardedEmitsAssumption, MaxCrashesAssumption
    DEF TypeOK, TypeAux, GatePc, CallPc, InFlight, Verdicts, AuditStates,
        memVars, auditVars, callVars, sweepVars
<1>1. ASSUME NEW g \in Gates, Register(g) PROVE TypeOK' /\ TypeAux'
  BY <1>1 DEF Register
<1>2. ASSUME NEW g \in Gates, RecordPending(g) PROVE TypeOK' /\ TypeAux'
  BY <1>2 DEF RecordPending, WriteStored
<1>3. ASSUME NEW g \in Gates, EmitAccepted(g) PROVE TypeOK' /\ TypeAux'
  BY <1>3 DEF EmitAccepted
<1>4. ASSUME NEW g \in Gates, EmitDropped(g) PROVE TypeOK' /\ TypeAux'
  BY <1>4 DEF EmitDropped
<1>5. ASSUME NEW g \in Gates, Decide(g) PROVE TypeOK' /\ TypeAux'
  BY <1>5 DEF Decide
<1>6. ASSUME NEW g \in Gates, CancelBranch(g) PROVE TypeOK' /\ TypeAux'
  BY <1>6 DEF CancelBranch
<1>7. ASSUME NEW g \in Gates, ExpireSnapshot(g) PROVE TypeOK' /\ TypeAux'
  BY <1>7 DEF ExpireSnapshot
<1>8. ASSUME NEW g \in Gates, ExpireWins(g) PROVE TypeOK' /\ TypeAux'
  BY <1>8 DEF ExpireWins, Settle
<1>9. ASSUME NEW g \in Gates, ExpireLoses(g) PROVE TypeOK' /\ TypeAux'
  BY <1>9 DEF ExpireLoses, ExpiredAs
<1>10. ASSUME NEW g \in Gates, RecordExpired(g) PROVE TypeOK' /\ TypeAux'
  BY <1>10 DEF RecordExpired, WriteStored, ExpiredAs
<1>11. ASSUME NEW g \in Gates, CancelRequest(g) PROVE TypeOK' /\ TypeAux'
  BY <1>11 DEF CancelRequest
<1>12. ASSUME NEW c \in Calls, NEW g \in Gates, NEW d \in Decisions, Respond(c, g, d)
       PROVE  TypeOK' /\ TypeAux'
  BY <1>12 DEF Respond
<1>13. ASSUME NEW c \in Calls, ResolveWins(c) PROVE TypeOK' /\ TypeAux'
  BY <1>13 DEF ResolveWins, Settle
<1>14. ASSUME NEW c \in Calls, ResolveRefused(c) PROVE TypeOK' /\ TypeAux'
  BY <1>14 DEF ResolveRefused
<1>15. ASSUME NEW c \in Calls, Send(c) PROVE TypeOK' /\ TypeAux'
  BY <1>15 DEF Send
<1>16. ASSUME NEW c \in Calls, RecordResolved(c) PROVE TypeOK' /\ TypeAux'
  BY <1>16 DEF RecordResolved, WriteStored
<1>17. CASE Crash
  BY <1>17 DEF Crash
<1>18. ASSUME NEW g \in Gates, SweepRead(g) PROVE TypeOK' /\ TypeAux'
  BY <1>18 DEF SweepRead
<1>19. ASSUME NEW g \in Gates, SweepWrite(g) PROVE TypeOK' /\ TypeAux'
  BY <1>19 DEF SweepWrite, WriteStored
<1>20. CASE UNCHANGED vars
  BY <1>20 DEF vars
<1>21. QED
  BY <1>1, <1>2, <1>3, <1>4, <1>5, <1>6, <1>7, <1>8, <1>9, <1>10, <1>11, <1>12,
     <1>13, <1>14, <1>15, <1>16, <1>17, <1>18, <1>19, <1>20
  DEF Next, GateStep, CallStep, SweepStep

\* Every reachable state of the approval protocol is well typed.
THEOREM TypeCorrect == Spec => []TypeOK
<1>1. Init => TypeOK /\ TypeAux
  BY TypeInit, GuardedEmitsAssumption DEF Init, TypeAux
<1>2. QED
  BY <1>1, TypeStep, PTL DEF Spec

-----------------------------------------------------------------------------
\* Every step keeps memory, audit record, calls and sweep in agreement.
LEMMA ProtocolStep ==
  TypeOK /\ TypeAux /\ ProtocolInv /\ [Next]_vars => ProtocolInv'
<1> SUFFICES ASSUME TypeOK, TypeAux, ProtocolInv, [Next]_vars
             PROVE  ProtocolInv'
  OBVIOUS
<1> USE DecisionsAssumption
    DEF ProtocolInv, GateInv, CallInv, UniqueWinner, Won, TypeOK, TypeAux,
        GatePc, CallPc, InFlight, Verdicts, AuditStates,
        memVars, auditVars, callVars, sweepVars
<1>1. ASSUME NEW g \in Gates, Register(g) PROVE ProtocolInv'
  <2>1. \A x \in Gates : GateInv(x)'
    BY <1>1 DEF Register
  <2>2. \A y \in Calls : CallInv(y)'
    BY <1>1 DEF Register
  <2>3. UniqueWinner'
    BY <1>1 DEF Register
  <2>4. QED
    BY <2>1, <2>2, <2>3
<1>2. ASSUME NEW g \in Gates, RecordPending(g) PROVE ProtocolInv'
  <2>1. \A x \in Gates : GateInv(x)'
    BY <1>2 DEF RecordPending, WriteStored
  <2>2. \A y \in Calls : CallInv(y)'
    BY <1>2 DEF RecordPending, WriteStored
  <2>3. UniqueWinner'
    BY <1>2 DEF RecordPending, WriteStored
  <2>4. QED
    BY <2>1, <2>2, <2>3
<1>3. ASSUME NEW g \in Gates, EmitAccepted(g) PROVE ProtocolInv'
  <2>1. \A x \in Gates : GateInv(x)'
    BY <1>3 DEF EmitAccepted
  <2>2. \A y \in Calls : CallInv(y)'
    BY <1>3 DEF EmitAccepted
  <2>3. UniqueWinner'
    BY <1>3 DEF EmitAccepted
  <2>4. QED
    BY <2>1, <2>2, <2>3
<1>4. ASSUME NEW g \in Gates, EmitDropped(g) PROVE ProtocolInv'
  <2>1. \A x \in Gates : GateInv(x)'
    BY <1>4 DEF EmitDropped
  <2>2. \A y \in Calls : CallInv(y)'
    BY <1>4 DEF EmitDropped
  <2>3. UniqueWinner'
    BY <1>4 DEF EmitDropped
  <2>4. QED
    BY <2>1, <2>2, <2>3
<1>5. ASSUME NEW g \in Gates, Decide(g) PROVE ProtocolInv'
  <2>1. \A x \in Gates : GateInv(x)'
    BY <1>5 DEF Decide
  <2>2. \A y \in Calls : CallInv(y)'
    BY <1>5 DEF Decide
  <2>3. UniqueWinner'
    BY <1>5 DEF Decide
  <2>4. QED
    BY <2>1, <2>2, <2>3
<1>6. ASSUME NEW g \in Gates, CancelBranch(g) PROVE ProtocolInv'
  <2>1. \A x \in Gates : GateInv(x)'
    BY <1>6 DEF CancelBranch
  <2>2. \A y \in Calls : CallInv(y)'
    BY <1>6 DEF CancelBranch
  <2>3. UniqueWinner'
    BY <1>6 DEF CancelBranch
  <2>4. QED
    BY <2>1, <2>2, <2>3
<1>7. ASSUME NEW g \in Gates, ExpireSnapshot(g) PROVE ProtocolInv'
  <2>1. \A x \in Gates : GateInv(x)'
    BY <1>7 DEF ExpireSnapshot
  <2>2. \A y \in Calls : CallInv(y)'
    BY <1>7 DEF ExpireSnapshot
  <2>3. UniqueWinner'
    BY <1>7 DEF ExpireSnapshot
  <2>4. QED
    BY <2>1, <2>2, <2>3
<1>8. ASSUME NEW g \in Gates, ExpireWins(g) PROVE ProtocolInv'
  <2>1. \A x \in Gates : GateInv(x)'
    BY <1>8 DEF ExpireWins, Settle
  <2>2. \A y \in Calls : CallInv(y)'
    BY <1>8 DEF ExpireWins, Settle
  <2>3. UniqueWinner'
    BY <1>8 DEF ExpireWins, Settle
  <2>4. QED
    BY <2>1, <2>2, <2>3
<1>9. ASSUME NEW g \in Gates, ExpireLoses(g) PROVE ProtocolInv'
  <2>1. \A x \in Gates : GateInv(x)'
    BY <1>9 DEF ExpireLoses, ExpiredAs
  <2>2. \A y \in Calls : CallInv(y)'
    BY <1>9 DEF ExpireLoses, ExpiredAs
  <2>3. UniqueWinner'
    BY <1>9 DEF ExpireLoses, ExpiredAs
  <2>4. QED
    BY <2>1, <2>2, <2>3
<1>10. ASSUME NEW g \in Gates, RecordExpired(g) PROVE ProtocolInv'
  <2>1. \A x \in Gates : GateInv(x)'
    BY <1>10 DEF RecordExpired, WriteStored, ExpiredAs
  <2>2. \A y \in Calls : CallInv(y)'
    BY <1>10 DEF RecordExpired, WriteStored, ExpiredAs
  <2>3. UniqueWinner'
    BY <1>10 DEF RecordExpired, WriteStored, ExpiredAs
  <2>4. QED
    BY <2>1, <2>2, <2>3
<1>11. ASSUME NEW g \in Gates, CancelRequest(g) PROVE ProtocolInv'
  <2>1. \A x \in Gates : GateInv(x)'
    BY <1>11 DEF CancelRequest
  <2>2. \A y \in Calls : CallInv(y)'
    BY <1>11 DEF CancelRequest
  <2>3. UniqueWinner'
    BY <1>11 DEF CancelRequest
  <2>4. QED
    BY <2>1, <2>2, <2>3
<1>12. ASSUME NEW c \in Calls, NEW g \in Gates, NEW d \in Decisions, Respond(c, g, d) PROVE ProtocolInv'
  <2>1. \A x \in Gates : GateInv(x)'
    BY <1>12 DEF Respond
  <2>2. ASSUME NEW y \in Calls PROVE CallInv(y)'
    <3>1. CASE y # c
      BY <1>12, <3>1 DEF Respond
    <3>2. CASE y = c /\ g \in pending
      <4>1. cpc'[y] = "resolve" /\ cid'[y] = g /\ cdec'[y] = d /\ g \in announced'
        BY <1>12, <3>2 DEF Respond
      <4>2. cprior'[y]
        <5> HIDE DEF ProtocolInv, GateInv, CallInv
        <5>1. cprior' = [cprior EXCEPT ![y] = g \in pending] /\ g \in pending
          BY <1>12, <3>2 DEF Respond
        <5>2. cprior \in [Calls -> BOOLEAN]
          OBVIOUS
        <5>3. QED
          BY <5>1, <5>2, Zenon
      <4>3. QED
        BY <4>1, <4>2
    <3>3. CASE y = c /\ g \notin pending
      BY SMTT(30), <1>12, <3>3 DEF Respond
    <3>4. QED
      BY <3>1, <3>2, <3>3
  <2>3. UniqueWinner'
    BY <1>12 DEF Respond
  <2>4. QED
    BY <2>1, <2>2, <2>3
<1>13. ASSUME NEW c \in Calls, ResolveWins(c) PROVE ProtocolInv'
  <2>1. \A x \in Gates : GateInv(x)'
    BY SMTT(30), <1>13 DEF ResolveWins, Settle
  <2>2. \A y \in Calls : CallInv(y)'
    BY <1>13 DEF ResolveWins, Settle
  <2>3. UniqueWinner'
    BY <1>13 DEF ResolveWins, Settle
  <2>4. QED
    BY <2>1, <2>2, <2>3
<1>14. ASSUME NEW c \in Calls, ResolveRefused(c) PROVE ProtocolInv'
  <2>1. \A x \in Gates : GateInv(x)'
    BY <1>14 DEF ResolveRefused
  <2>2. \A y \in Calls : CallInv(y)'
    BY <1>14 DEF ResolveRefused
  <2>3. UniqueWinner'
    BY <1>14 DEF ResolveRefused
  <2>4. QED
    BY <2>1, <2>2, <2>3
<1>15. ASSUME NEW c \in Calls, Send(c) PROVE ProtocolInv'
  <2>1. \A x \in Gates : GateInv(x)'
    BY SMTT(30), <1>15 DEF Send
  <2>2. \A y \in Calls : CallInv(y)'
    BY <1>15 DEF Send
  <2>3. UniqueWinner'
    BY <1>15 DEF Send
  <2>4. QED
    BY <2>1, <2>2, <2>3
<1>16. ASSUME NEW c \in Calls, RecordResolved(c) PROVE ProtocolInv'
  <2>1. \A x \in Gates : GateInv(x)'
    BY <1>16 DEF RecordResolved, WriteStored
  <2>2. \A y \in Calls : CallInv(y)'
    BY <1>16 DEF RecordResolved, WriteStored
  <2>3. UniqueWinner'
    BY <1>16 DEF RecordResolved, WriteStored
  <2>4. QED
    BY <2>1, <2>2, <2>3
<1>17. CASE Crash
  <2>1. \A x \in Gates : GateInv(x)'
    BY <1>17 DEF Crash
  <2>2. \A y \in Calls : CallInv(y)'
    BY <1>17 DEF Crash
  <2>3. UniqueWinner'
    BY <1>17 DEF Crash
  <2>4. QED
    BY <2>1, <2>2, <2>3
<1>18. ASSUME NEW g \in Gates, SweepRead(g) PROVE ProtocolInv'
  <2>1. \A x \in Gates : GateInv(x)'
    BY <1>18 DEF SweepRead
  <2>2. \A y \in Calls : CallInv(y)'
    BY <1>18 DEF SweepRead
  <2>3. UniqueWinner'
    BY <1>18 DEF SweepRead
  <2>4. QED
    BY <2>1, <2>2, <2>3
<1>19. ASSUME NEW g \in Gates, SweepWrite(g) PROVE ProtocolInv'
  <2>1. \A x \in Gates : GateInv(x)'
    BY SMTT(30), <1>19 DEF SweepWrite, WriteStored
  <2>2. \A y \in Calls : CallInv(y)'
    BY SMTT(30), <1>19 DEF SweepWrite, WriteStored
  <2>3. UniqueWinner'
    BY <1>19 DEF SweepWrite, WriteStored
  <2>4. QED
    BY <2>1, <2>2, <2>3
<1>20. CASE UNCHANGED vars
  BY SMTT(30), <1>20 DEF vars
<1> HIDE DEF ProtocolInv, TypeOK, TypeAux
<1>21. QED
  BY <1>1, <1>2, <1>3, <1>4, <1>5, <1>6, <1>7, <1>8, <1>9, <1>10, <1>11, <1>12, <1>13, <1>14, <1>15, <1>16, <1>17, <1>18, <1>19, <1>20
  DEF Next, GateStep, CallStep, SweepStep

\* The inductive invariant of the protocol, for every run of register,
\* resolve, expire, restart and sweep.
THEOREM ProtocolCorrect == Spec => [](TypeOK /\ TypeAux /\ ProtocolInv)
<1>1. Init => TypeOK /\ TypeAux /\ ProtocolInv
  <2>1. Init => TypeOK /\ TypeAux
    BY TypeInit, GuardedEmitsAssumption DEF Init, TypeAux
  <2>2. Init => ProtocolInv
    BY DecisionsAssumption DEF Init, ProtocolInv, GateInv, CallInv, UniqueWinner, Won
  <2>3. QED
    BY <2>1, <2>2
<1>2. QED
  BY <1>1, TypeStep, ProtocolStep, PTL DEF Spec

-----------------------------------------------------------------------------
\* No gate returns, by decision, cancellation or a dropped emit, with its
\* entry left in the map of pending awaiters (H1).
THEOREM NoEntryLeaks == Spec => []GateReleasesEntry
<1>1. ProtocolInv => GateReleasesEntry
  BY DEF ProtocolInv, GateInv, GateReleasesEntry
<1>2. QED
  BY <1>1, ProtocolCorrect, PTL

\* The id of a live, announced gate is always in the store (H4).
THEOREM HostFindsAwaiter == Spec => []AnnouncedIsAnswerable
<1>1. TypeOK /\ ProtocolInv => AnnouncedIsAnswerable
  BY DEF ProtocolInv, GateInv, AnnouncedIsAnswerable, TypeOK
<1>2. QED
  BY <1>1, ProtocolCorrect, PTL

\* However many hosts answer, at most one respond_to_approval wins an id.
THEOREM AtMostOneWinner == Spec => []OneWinner
<1>1. ProtocolInv => OneWinner
  BY DEF ProtocolInv, CallInv, UniqueWinner, OneWinner
<1>2. QED
  BY <1>1, ProtocolCorrect, PTL

\* A gate passes only on an approve for its own id that won.
THEOREM ConsentBeforePass == Spec => []PassedWithConsent
<1>1. ProtocolInv => PassedWithConsent
  BY DEF ProtocolInv, GateInv, PassedWithConsent
<1>2. QED
  BY <1>1, ProtocolCorrect, PTL

\* The write-through audit record tells who settled an id, or nothing.
THEOREM AuditIsTruthful == Spec => []AuditTruthful
<1>1. TypeOK /\ TypeAux /\ ProtocolInv => AuditTruthful
  <2> SUFFICES ASSUME TypeOK, TypeAux, ProtocolInv PROVE AuditTruthful
    OBVIOUS
  <2>1. ASSUME NEW g \in Gates, NEW c \in Calls, audit[g] \in GateReasons, Won(c)
        PROVE  cid[c] # g
    <3>1. verdict[g] \in GateReasons
      BY <2>1 DEF ProtocolInv, GateInv
    <3>2. verdict[cid[c]] = cdec[c] /\ cdec[c] \in Decisions
      BY <2>1 DEF ProtocolInv, CallInv, Won
    <3>3. QED
      BY <3>1, <3>2, DecisionsAssumption
  <2>2. QED
    BY <2>1 DEF ProtocolInv, GateInv, CallInv, AuditTruthful
<1>2. QED
  BY <1>1, ProtocolCorrect, PTL

\* A completed sweep leaves no announced orphan on record as Pending (H5).
THEOREM SweepExpiresOrphans == Spec => []SweepLeavesNoOrphan
<1>1. TypeOK /\ ProtocolInv => SweepLeavesNoOrphan
  BY DEF ProtocolInv, GateInv, CallInv, SweepLeavesNoOrphan, TypeOK
<1>2. QED
  BY <1>1, ProtocolCorrect, PTL

\* A Resolved or Expired record is never rewritten.
THEOREM TerminalAuditNeverRewritten == Spec => TerminalAuditStable
<1> DEFINE Stable == \A g \in Gates : audit[g] \notin {None, "pending"} => audit'[g] = audit[g]
<1>1. TypeOK /\ TypeAux /\ ProtocolInv /\ [Next]_vars => [Stable]_vars
  <2> SUFFICES ASSUME TypeOK, TypeAux, ProtocolInv, Next PROVE Stable
    OBVIOUS
  <2> USE DEF auditVars
  <2>1. ASSUME NEW g \in Gates, RecordPending(g) PROVE Stable
    BY <2>1 DEF RecordPending, WriteStored, ProtocolInv, GateInv, TypeOK
  <2>2. ASSUME NEW g \in Gates, RecordExpired(g) PROVE Stable
    <3>1. verdict[g] \in GateReasons /\ verdict[g] = reason[g]
      BY <2>2 DEF RecordExpired, ProtocolInv, GateInv
    <3>2. audit[g] \in {None, "pending"}
      <4>1. audit[g] \in {None, "pending"} \cup Decisions
        BY <2>2 DEF RecordExpired, ProtocolInv, GateInv
      <4>2. ASSUME audit[g] \in Decisions PROVE FALSE
        <5>1. PICK c \in Calls : cpc[c] = "ok" /\ cid[c] = g
          BY <4>2 DEF ProtocolInv, GateInv
        <5>2. verdict[g] \in Decisions
          BY <5>1 DEF ProtocolInv, CallInv, Won
        <5>3. QED
          BY <5>2, <3>1, DecisionsAssumption
      <4>3. QED
        BY <4>1, <4>2
    <3>3. QED
      BY <2>2, <3>2 DEF RecordExpired, WriteStored, TypeOK
  <2>3. ASSUME NEW c \in Calls, RecordResolved(c) PROVE Stable
    <3>1. /\ cid[c] \in resolved /\ verdict[cid[c]] = cdec[c]
          /\ cid[c] \in Gates /\ cdec[c] \in Decisions
      BY <2>3 DEF RecordResolved, ProtocolInv, CallInv, Won, TypeAux
    <3>2. audit[cid[c]] \in {None, "pending", cdec[c]}
      <4>1. audit[cid[c]] \notin GateReasons \cup {"restart"}
        BY <3>1, DecisionsAssumption DEF ProtocolInv, GateInv
      <4>2. audit[cid[c]] \in Decisions => audit[cid[c]] = cdec[c]
        BY SMTT(30), <3>1 DEF ProtocolInv, GateInv, CallInv, Won
      <4>3. QED
        BY <3>1, <4>1, <4>2 DEF TypeOK, AuditStates, Verdicts
    <3>3. QED
      BY <2>3, <3>1, <3>2 DEF RecordResolved, WriteStored, TypeOK
  <2>4. ASSUME NEW g \in Gates, SweepWrite(g) PROVE Stable
    BY <2>4 DEF SweepWrite, WriteStored, ProtocolInv, GateInv, TypeOK
  <2>5. CASE UNCHANGED audit
    BY <2>5
  <2>6. QED
    BY <2>1, <2>2, <2>3, <2>4, <2>5
    DEF Next, GateStep, CallStep, SweepStep, Register, EmitAccepted, EmitDropped,
        Decide, CancelBranch, ExpireSnapshot, ExpireWins, ExpireLoses,
        CancelRequest, Respond, ResolveWins, ResolveRefused, Send, Crash, SweepRead
<1>2. QED
  BY <1>1, ProtocolCorrect, PTL DEF TerminalAuditStable, Spec

-----------------------------------------------------------------------------
(* Refinement.  A step of the protocol opens, settles, passes or refuses   *)
(* one id, restarts, or leaves phase and verdict alone.                    *)

\* A step that moves one gate changes only that gate's phase.
LEMMA PhaseStep ==
  ASSUME TypeOK, NEW g \in Gates, NEW pc, gpc' = [gpc EXCEPT ![g] = pc]
  PROVE  Phase' = [Phase EXCEPT ![g] = PhaseOf(pc)]
BY DEF TypeOK, Phase

\* ... and none at all when the gate stays in the same phase.
LEMMA PhaseKept ==
  ASSUME TypeOK, NEW g \in Gates, NEW pc, gpc' = [gpc EXCEPT ![g] = pc],
         PhaseOf(pc) = PhaseOf(gpc[g])
  PROVE  Phase' = Phase
BY DEF TypeOK, Phase

\* The protocol implements its contract: an id is opened once, settled at most
\* once while its gate is suspended, and only then passed or refused.
THEOREM RefinesContract == Spec => ImplementsContract
<1>1. Init => Contract!Init
  BY DEF Init, Contract!Init, Phase, PhaseOf
<1>2. TypeOK /\ TypeAux /\ ProtocolInv /\ [Next]_vars
        => [Contract!Next]_<<Phase, verdict>>
  <2> SUFFICES ASSUME TypeOK, TypeAux, ProtocolInv, [Next]_vars
               PROVE  [Contract!Next]_<<Phase, verdict>>
    OBVIOUS
  <2> DEFINE Goal == [Contract!Next]_<<Phase, verdict>>
  <2> USE DEF memVars
  <2>1. ASSUME NEW g \in Gates, Register(g) PROVE Goal
    <3>1. Phase' = [Phase EXCEPT ![g] = PhaseOf("audit")]
      BY <2>1, PhaseStep DEF Register
    <3>2. Contract!Open(g)
      BY <2>1, <3>1 DEF Register, Contract!Open, Phase, PhaseOf
    <3>3. QED
      BY <3>2 DEF Contract!Next
  <2>2. ASSUME NEW g \in Gates,
               RecordPending(g) \/ EmitAccepted(g) \/ EmitDropped(g) \/ CancelBranch(g)
                 \/ ExpireSnapshot(g)
        PROVE  Goal
    <3>1. PICK pc \in Running : gpc' = [gpc EXCEPT ![g] = pc]
      BY <2>2 DEF RecordPending, EmitAccepted, EmitDropped, CancelBranch, ExpireSnapshot
    <3>2. PhaseOf(pc) = PhaseOf(gpc[g]) /\ verdict' = verdict
      BY <2>2 DEF PhaseOf, RecordPending, EmitAccepted, EmitDropped, CancelBranch,
                  ExpireSnapshot
    <3>3. QED
      BY <3>1, <3>2, PhaseKept
  <2>3. ASSUME NEW g \in Gates, Decide(g) PROVE Goal
    <3>1. gpc[g] = "waiting" /\ Phase[g] = "open" /\ verdict' = verdict
      BY <2>3 DEF Decide, Phase, PhaseOf
    <3>2. PICK c \in Calls : Won(c) /\ cid[c] = g /\ cdec[c] = oneshot[g]
      BY <2>3 DEF Decide, ProtocolInv, GateInv
    <3>3. verdict[g] = oneshot[g] /\ verdict[g] # "none"
      BY <2>3, <3>2 DEF Decide, ProtocolInv, CallInv
    <3>4. CASE oneshot[g] = "approve"
      <4>1. Phase' = [Phase EXCEPT ![g] = PhaseOf("approved")]
        BY <2>3, <3>4, PhaseStep DEF Decide
      <4>2. Contract!Pass(g)
        BY <3>1, <3>3, <3>4, <4>1 DEF Contract!Pass, PhaseOf
      <4>3. QED
        BY <4>2 DEF Contract!Next
    <3>5. CASE oneshot[g] # "approve"
      <4>1. Phase' = [Phase EXCEPT ![g] = PhaseOf("declined")]
        BY <2>3, <3>5, PhaseStep DEF Decide
      <4>2. Contract!Refuse(g)
        BY <3>1, <3>3, <4>1 DEF Contract!Refuse, PhaseOf
      <4>3. QED
        BY <4>2 DEF Contract!Next
    <3>6. QED
      BY <3>4, <3>5
  <2>4. ASSUME NEW g \in Gates, ExpireWins(g) PROVE Goal
    <3>1. Phase' = Phase
      <4>1. gpc' = [gpc EXCEPT ![g] = "expire_audit"] /\ gpc[g] = "expire_lock"
        BY <2>4 DEF ExpireWins
      <4>2. QED
        BY <4>1, PhaseKept DEF PhaseOf
    <3>2. /\ Phase[g] = "open" /\ verdict[g] = "none" /\ reason[g] \in GateReasons
          /\ verdict' = [verdict EXCEPT ![g] = reason[g]]
      BY <2>4 DEF ExpireWins, Settle, Phase, PhaseOf, ProtocolInv, GateInv
    <3>3. Contract!Settle(g)
      BY <3>1, <3>2 DEF Contract!Settle
    <3>4. QED
      BY <3>3 DEF Contract!Next
  <2>5. ASSUME NEW g \in Gates, ExpireLoses(g) \/ RecordExpired(g) PROVE Goal
    <3>1. PICK pc \in {"cancelled", "closed"} : gpc' = [gpc EXCEPT ![g] = pc]
      BY <2>5 DEF ExpireLoses, RecordExpired, ExpiredAs
    <3>2. Phase' = [Phase EXCEPT ![g] = "refused"]
      BY <3>1, PhaseStep DEF PhaseOf
    <3>3. Phase[g] = "open" /\ verdict[g] # "none" /\ verdict' = verdict
      BY <2>5 DEF ExpireLoses, RecordExpired, Phase, PhaseOf, ProtocolInv, GateInv
    <3>4. Contract!Refuse(g)
      BY <3>2, <3>3 DEF Contract!Refuse
    <3>5. QED
      BY <3>4 DEF Contract!Next
  <2>6. ASSUME NEW c \in Calls, ResolveWins(c) PROVE Goal
    <3>1. Phase' = Phase /\ verdict' = [verdict EXCEPT ![cid[c]] = cdec[c]]
      BY <2>6 DEF ResolveWins, Settle, Phase
    <3>2. cid[c] \in Gates /\ cdec[c] \in Decisions /\ cid[c] \in pending
      BY <2>6 DEF ResolveWins, TypeAux, ProtocolInv, CallInv
    <3>3. Phase[cid[c]] = "open" /\ verdict[cid[c]] = "none"
      BY <3>2 DEF Phase, PhaseOf, ProtocolInv, GateInv
    <3>4. Contract!Settle(cid[c])
      BY <3>1, <3>2, <3>3 DEF Contract!Settle
    <3>5. QED
      BY <3>2, <3>4 DEF Contract!Next
  <2>7. CASE Crash
    <3>1. \A g \in Gates : PhaseOf(gpc'[g])
             = IF PhaseOf(gpc[g]) = "open" THEN "abandoned" ELSE PhaseOf(gpc[g])
      BY <2>7 DEF Crash, PhaseOf
    <3>2. Contract!Restart
      BY <2>7, <3>1 DEF Crash, Contract!Restart, Phase
    <3>3. QED
      BY <3>2 DEF Contract!Next
  <2>8. CASE UNCHANGED <<gpc, verdict>>
    BY <2>8 DEF Phase
  <2>9. QED
    BY <2>1, <2>2, <2>3, <2>4, <2>5, <2>6, <2>7, <2>8
    DEF Next, GateStep, CallStep, SweepStep, CancelRequest, Respond, ResolveRefused,
        Send, RecordResolved, SweepRead, SweepWrite, vars
<1>3. QED
  BY <1>1, <1>2, ProtocolCorrect, PTL DEF Spec, ImplementsContract, Contract!Spec, Contract!contractVars

-----------------------------------------------------------------------------
(* Waking the gate                                                         *)

\* A gate that is announced or suspended, and whose id has been settled, has the
\* decision in its oneshot, or a call that won the id is about to send it there.
Woken(g) ==
  gpc[g] \in {"audit", "emit", "waiting"} /\ verdict[g] # None =>
    \/ oneshot[g] # None
    \/ \E c \in Calls : cpc[c] = "send" /\ cid[c] = g

\* Settling an id under the mutex and waking its awaiter after the mutex is
\* released (resolve) never leaves a suspended gate settled and unwoken.
SettledGateIsWoken == \A g \in Gates : Woken(g)

\* Every step keeps the wake-up of a settled gate on its way.
LEMMA WokenStep ==
  ASSUME TypeOK, TypeAux, ProtocolInv, SettledGateIsWoken, [Next]_vars
  PROVE  SettledGateIsWoken'
<1> USE DEF SettledGateIsWoken, Woken, TypeOK, memVars, callVars
<1>1. ASSUME NEW g \in Gates, Register(g) PROVE SettledGateIsWoken'
  BY SMTT(30), <1>1 DEF Register, ProtocolInv, GateInv
<1>2. ASSUME NEW g \in Gates, RecordPending(g) \/ EmitAccepted(g) PROVE SettledGateIsWoken'
  BY <1>2 DEF RecordPending, EmitAccepted
<1>3. ASSUME NEW g \in Gates,
             EmitDropped(g) \/ Decide(g) \/ CancelBranch(g) \/ ExpireSnapshot(g)
               \/ ExpireLoses(g) \/ RecordExpired(g) \/ CancelRequest(g)
      PROVE  SettledGateIsWoken'
  BY SMTT(30), <1>3 DEF EmitDropped, Decide, CancelBranch, ExpireSnapshot, ExpireLoses, RecordExpired,
              CancelRequest, ExpiredAs
<1>4. ASSUME NEW g \in Gates, ExpireWins(g) PROVE SettledGateIsWoken'
  BY <1>4 DEF ExpireWins, Settle
<1>5. ASSUME NEW c \in Calls, NEW g \in Gates, NEW d \in Decisions, Respond(c, g, d)
      PROVE  SettledGateIsWoken'
  BY <1>5 DEF Respond
<1>6. ASSUME NEW c \in Calls, ResolveWins(c) PROVE SettledGateIsWoken'
  BY <1>6 DEF ResolveWins, Settle
<1>7. ASSUME NEW c \in Calls, Send(c) PROVE SettledGateIsWoken'
  <2>1. cdec[c] # None /\ cid[c] \in Gates
    BY <1>7, DecisionsAssumption DEF Send, ProtocolInv, CallInv, TypeAux
  <2>2. QED
    BY <1>7, <2>1 DEF Send
<1>8. ASSUME NEW c \in Calls, ResolveRefused(c) \/ RecordResolved(c)
      PROVE  SettledGateIsWoken'
  BY <1>8 DEF ResolveRefused, RecordResolved
<1>9. ASSUME Crash PROVE SettledGateIsWoken'
  BY <1>9 DEF Crash
<1>10. ASSUME SweepStep \/ UNCHANGED vars PROVE SettledGateIsWoken'
  BY <1>10 DEF SweepStep, SweepRead, SweepWrite, vars
<1>11. QED
  <2> HIDE DEF SettledGateIsWoken, TypeOK
  <2> QED
    BY <1>1, <1>2, <1>3, <1>4, <1>5, <1>6, <1>7, <1>8, <1>9, <1>10 DEF Next, GateStep, CallStep

\* The wake-up of a settled gate is never lost, whatever interleaving of hosts,
\* gates, restarts and sweeps: the safety half of GateReturns.
THEOREM WakeupNeverLost == Spec => []SettledGateIsWoken
<1>1. Init => SettledGateIsWoken
  BY DEF Init, SettledGateIsWoken, Woken
<1>2. TypeOK /\ TypeAux /\ ProtocolInv /\ SettledGateIsWoken /\ [Next]_vars
        => SettledGateIsWoken'
  BY WokenStep
<1>3. QED
  BY <1>1, <1>2, ProtocolCorrect, PTL DEF Spec
=============================================================================
