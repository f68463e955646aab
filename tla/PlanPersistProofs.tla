-------------------------- MODULE PlanPersistProofs --------------------------
(***************************************************************************)
(* The plan persistence helpers for every set of callers and proposals and *)
(* any number of calls, with or without KV errors and expiry.              *)
(***************************************************************************)
EXTENDS PlanPersist, TLAPS

Record == Plans(Callers) \cup {Absent}

\* Between load and put a helper holds a plan its transition starts from, and
\* it has met a KV error only if it is recovering.
HelperInv(c) ==
  /\ call[c].recovery = "armed" => call[c].op = "complete"
  /\ call[c].recovery = "recovering" => call[c].op = "fail"
  /\ call[c].stage \in Running /\ call[c].recovery # "recovering" => call[c].faults = 0
  /\ call[c].stage \in Running => call[c].faults <= 1
  /\ call[c].stage \in {"put", "notify"} =>
       call[c].snap \in Plans(Callers) /\ call[c].snap.status = From(call[c].op)

PInv == TypeOK /\ \A c \in Callers : HelperInv(c)

\* One helper at a time: the record is the one it loaded, or has expired.
SerialInv ==
  /\ \A c, d \in Callers : call[c].stage \in Running /\ call[d].stage \in Running => c = d
  /\ calls = 0 => log = <<>> /\ \A c \in Callers : Idle(c)
  /\ \A c \in Callers :
       /\ call[c].stage = "put" => kv \in {call[c].snap, Absent}
       /\ call[c].stage = "notify" => kv \in {Apply(call[c].op, call[c].snap, c), Absent}
       /\ call[c].stage \in {"put", "notify"} /\ log # <<>> =>
            log[Len(log)][2] = From(call[c].op)
       /\ call[c].stage \in Running /\ call[c].recovery = "recovering" /\ call[c].faults = 0 =>
            call[c].stage = "load" /\ kv.status # "executing"
  /\ (\A c \in Callers : call[c].stage \notin {"put", "notify"}) /\ kv # Absent /\ log # <<>> =>
       log[Len(log)][2] = kv.status
  /\ \A i \in 1..(Len(log) - 1) : log[i][2] = log[i + 1][1]

-----------------------------------------------------------------------------
(* The values                                                              *)

\* The fields of a record.
LEMMA RecordFacts ==
  ASSUME NEW p \in Record
  PROVE  /\ p.status \in Statuses \cup {"absent"}
         /\ p # Absent => p \in Plans(Callers) /\ p.body \in Bodies /\ p.body # "no_body"
                          /\ p.status \in Statuses
         /\ p.status = "absent" <=> p = Absent
BY BodiesAssumption DEF Record, Plans, Statuses, CreatePlan, Absent, NoOutcome

\* A transition from its source status gives a plan with the next status and
\* the same body.
LEMMA ApplyFacts ==
  ASSUME NEW op \in Ops, NEW p \in Plans(Callers), p.status = From(op), NEW c \in Callers
  PROVE  /\ Apply(op, p, c) \in Plans(Callers)
         /\ Apply(op, p, c).body = p.body
         /\ Apply(op, p, c).status = CASE op = "approve" -> "approved" [] op = "start" -> "executing"
                                       [] op = "complete" -> "executed" [] OTHER -> "failed"
<1>1. CASE op = "approve"
  <2>1. PICK b \in Bodies : p = CreatePlan(b)
    BY <1>1 DEF From, Plans, CreatePlan
  <2>2. Apply(op, p, c) = [status |-> "approved", body |-> b, approved_by |-> c, outcome |-> NoOutcome]
    BY <1>1, <2>1 DEF Apply, Approve, With, CreatePlan
  <2>3. QED
    BY <1>1, <2>1, <2>2 DEF Plans, CreatePlan
<1>2. CASE op = "start"
  <2>1. Apply(op, p, c) = Start(p) /\ p.status = "approved"
    BY <1>2 DEF Apply, From
  <2>2. QED
    BY <1>2, <2>1 DEF Start, With, Plans, CreatePlan, NoOutcome
<1>3. CASE op = "complete"
  <2>1. Apply(op, p, c) = Complete(p) /\ p.status = "executing"
    BY <1>3 DEF Apply, From
  <2>2. QED
    BY <1>3, <2>1 DEF Complete, With, Plans, CreatePlan, NoOutcome
<1>4. CASE op = "fail"
  <2>1. Apply(op, p, c) = Fail(p) /\ p.status = "executing"
    BY <1>4 DEF Apply, From
  <2>2. QED
    BY <1>4, <2>1 DEF Fail, With, Plans, CreatePlan, NoOutcome
<1>5. QED
  BY <1>1, <1>2, <1>3, <1>4 DEF Ops

-----------------------------------------------------------------------------
(* Any interleaving                                                        *)

\* How a helper that fails goes on.
LEMMA StopFacts ==
  ASSUME PInv, NEW c \in Callers, NEW result \in Results, NEW faults \in 0..1,
         call[c].stage \in Running, Stop(c, result, faults)
  PROVE  /\ PInv' /\ UNCHANGED <<kv, calls, log>>
         /\ \A d \in Callers : d # c => call'[d] = call[d]
         /\ \/ /\ call[c].recovery = "armed" /\ call'[c].stage = "load"
               /\ call'[c].recovery = "recovering" /\ call'[c].faults = faults
            \/ /\ call[c].recovery # "armed" /\ call'[c].stage = result
               /\ call'[c].recovery = call[c].recovery
               /\ call'[c].faults = call[c].faults + faults
<1> USE DEF PInv, TypeOK, Helper
<1>1. CASE call[c].recovery = "armed"
  <2>1. /\ call' = [call EXCEPT ![c] = Helper("load", "fail", "recovering", call[c].snap,
                                           call[c].faults + faults)]
        /\ UNCHANGED <<kv, calls, log>>
    BY <1>1 DEF Stop
  <2>2. call[c].faults = 0
    BY <1>1 DEF HelperInv
  <2>3. /\ call'[c].stage = "load" /\ call'[c].op = "fail" /\ call'[c].recovery = "recovering"
        /\ call'[c].faults = faults /\ call'[c].snap = call[c].snap
        /\ \A d \in Callers : d # c => call'[d] = call[d]
    BY <2>1, <2>2
  <2>4. TypeOK'
    BY <2>1, <2>2 DEF Ops, Running
  <2>5. \A d \in Callers : HelperInv(d)'
    BY <2>3 DEF HelperInv, Running
  <2>6. QED
    BY <1>1, <2>1, <2>3, <2>4, <2>5
<1>2. CASE call[c].recovery # "armed"
  <2>1. /\ call' = [call EXCEPT ![c] = Helper(result, call[c].op, call[c].recovery, call[c].snap,
                                           call[c].faults + faults)]
        /\ UNCHANGED <<kv, calls, log>>
    BY <1>2 DEF Stop
  <2>2. call[c].faults \in 0..1
    BY DEF HelperInv
  <2>3. /\ call'[c].stage = result /\ call'[c].op = call[c].op /\ call'[c].recovery = call[c].recovery
        /\ call'[c].faults = call[c].faults + faults /\ call'[c].snap = call[c].snap
        /\ \A d \in Callers : d # c => call'[d] = call[d]
    BY <2>1
  <2>4. TypeOK'
    BY <2>1, <2>2
  <2>5. \A d \in Callers : HelperInv(d)'
    BY <2>3 DEF HelperInv, Running, Results
  <2>6. QED
    BY <1>2, <2>1, <2>3, <2>4, <2>5
<1>3. QED
  BY <1>1, <1>2

\* What a load that finds the right status does.
LEMMA LoadFacts ==
  ASSUME PInv, NEW c \in Callers, call[c].stage = "load", kv.status = From(call[c].op),
         call' = [call EXCEPT ![c] = Helper("put", @.op, @.recovery, kv, @.faults)],
         UNCHANGED <<kv, calls, log>>
  PROVE  /\ PInv'
         /\ call'[c].stage = "put" /\ call'[c].snap = kv /\ call'[c].op = call[c].op
         /\ call'[c].recovery = call[c].recovery /\ call'[c].faults = call[c].faults
         /\ \A d \in Callers : d # c => call'[d] = call[d]
<1> USE DEF PInv, TypeOK, Helper
<1>1. kv \in Plans(Callers)
  <2>1. kv.status # "absent"
    BY DEF From
  <2>2. QED
    BY <2>1 DEF Absent
<1>2. /\ call'[c].stage = "put" /\ call'[c].snap = kv /\ call'[c].op = call[c].op
      /\ call'[c].recovery = call[c].recovery /\ call'[c].faults = call[c].faults
      /\ \A d \in Callers : d # c => call'[d] = call[d]
  OBVIOUS
<1>3. TypeOK'
  BY DEF Running
<1>4. \A d \in Callers : HelperInv(d)'
  BY <1>1, <1>2 DEF HelperInv, Running
<1>5. QED
  BY <1>2, <1>3, <1>4

\* Every step keeps the types and what each helper holds.
LEMMA PStep == PInv /\ [Next]_vars => PInv'
<1> SUFFICES ASSUME PInv, [Next]_vars PROVE PInv'
  OBVIOUS
<1> USE CallersAssumption DEF PInv
<1>1. ASSUME NEW c \in Callers, NEW b \in Bodies, Persist(c, b) PROVE PInv'
  <2>1. CreatePlan(b) \in Plans(Callers)
    BY DEF Plans
  <2>2. QED
    BY <1>1, <2>1 DEF Persist, TypeOK, HelperInv
<1>2. ASSUME NEW c \in Callers, NEW op \in Ops, NEW recovery \in {"off", "armed"}, Begin(c, op, recovery)
      PROVE PInv'
  <2>1. call' = [call EXCEPT ![c] = Helper("load", op, recovery, Absent, 0)]
    BY <1>2 DEF Begin
  <2>2. TypeOK'
    BY <1>2, <2>1 DEF Begin, TypeOK, Running, Helper
  <2>3. \A d \in Callers : HelperInv(d)'
    BY <1>2, <2>1 DEF Begin, TypeOK, HelperInv, Running, Helper
  <2>4. QED
    BY <2>2, <2>3
<1>3. ASSUME NEW c \in Callers, Load(c) PROVE PInv'
  <2>1. CASE \E result \in Results, faults \in 0..1 : Stop(c, result, faults)
    BY <1>3, <2>1, StopFacts DEF Load, Running
  <2>2. CASE /\ kv.status = From(call[c].op)
             /\ call' = [call EXCEPT ![c] = Helper("put", @.op, @.recovery, kv, @.faults)]
             /\ UNCHANGED <<kv, calls, log>>
    BY <1>3, <2>2, LoadFacts DEF Load
  <2>3. QED
    BY <1>3, <2>1, <2>2 DEF Load, Results
<1>4. ASSUME NEW c \in Callers, Put(c) PROVE PInv'
  <2>1. CASE Stop(c, "kv_error", 1)
    BY <1>4, <2>1, StopFacts DEF Put, Running, Results
  <2>2. CASE /\ kv' = Apply(call[c].op, call[c].snap, c)
             /\ call' = [call EXCEPT ![c].stage = "notify"]
             /\ UNCHANGED <<calls, log>>
    <3>1. kv' \in Plans(Callers)
      BY <1>4, <2>2, ApplyFacts DEF Put, HelperInv, TypeOK
    <3>2. TypeOK'
      BY <2>2, <3>1 DEF TypeOK, Running
    <3>3. /\ call'[c].stage = "notify" /\ call'[c].snap = call[c].snap /\ call'[c].op = call[c].op
          /\ call'[c].recovery = call[c].recovery /\ call'[c].faults = call[c].faults
          /\ \A d \in Callers : d # c => call'[d] = call[d]
      BY <2>2 DEF TypeOK
    <3>4. \A d \in Callers : HelperInv(d)'
      BY <1>4, <3>3 DEF Put, HelperInv, Running
    <3>5. QED
      BY <3>2, <3>4
  <2>3. QED
    BY <1>4, <2>1, <2>2 DEF Put
<1>5. ASSUME NEW c \in Callers, Notify(c) PROVE PInv'
  <2>1. /\ call'[c].stage = "ok" /\ call'[c].op = call[c].op
        /\ call'[c].recovery = call[c].recovery
        /\ \A d \in Callers : d # c => call'[d] = call[d]
    BY <1>5 DEF Notify, TypeOK
  <2>2. From(call[c].op) \in Statuses
    BY DEF From, Statuses
  <2>3. Apply(call[c].op, call[c].snap, c).status \in Statuses
    BY <1>5, ApplyFacts DEF Notify, HelperInv, TypeOK, Statuses
  <2>4. log' \in Seq(Statuses \X Statuses)
    BY <1>5, <2>2, <2>3 DEF Notify, TypeOK
  <2>5. TypeOK'
    BY <1>5, <2>4 DEF Notify, TypeOK, Results
  <2>6. \A d \in Callers : HelperInv(d)'
    BY <2>1 DEF HelperInv, Running
  <2>7. QED
    BY <2>5, <2>6
<1>6. ASSUME Expire \/ UNCHANGED vars PROVE PInv'
  BY <1>6 DEF Expire, vars, TypeOK, HelperInv
<1>7. QED
  BY <1>1, <1>2, <1>3, <1>4, <1>5, <1>6 DEF Next

\* PInv holds under any interleaving.
LEMMA PInvariant == Spec => []PInv
<1>1. Init => PInv
  BY CallersAssumption DEF Init, PInv, TypeOK, HelperInv, NoCall, Helper, Ops, Running, Results
<1>2. QED
  BY <1>1, PStep, PTL DEF Spec

\* The record is always a plan the transitions can build (P4, P5), and a
\* helper meets at most two KV errors, whatever the callers interleave.
THEOREM TypeCorrect == Spec => []TypeOK
<1>1. PInv => TypeOK
  BY DEF PInv
<1>2. QED
  BY <1>1, PInvariant, PTL

-----------------------------------------------------------------------------
(* One helper at a time                                                    *)

\* While c runs nobody else does.
LEMMA OnlyOne ==
  ASSUME SerialInv, NEW c \in Callers, call[c].stage \in Running
  PROVE  \A d \in Callers : d # c => call[d].stage \notin Running /\ call[d].stage \notin {"put", "notify"}
BY DEF SerialInv, Running

\* The last report and the record agree before a helper has put anything.
LEMMA ReportAgrees ==
  ASSUME PInv, SerialInv, NEW c \in Callers, call[c].stage \in {"load", "put"},
         kv # Absent, log # <<>>
  PROVE  log[Len(log)][2] = kv.status
<1>1. CASE call[c].stage = "load"
  <2>1. \A d \in Callers : call[d].stage \notin {"put", "notify"}
    BY <1>1, OnlyOne DEF Running
  <2>2. QED
    BY <2>1 DEF SerialInv
<1>2. CASE call[c].stage = "put"
  BY <1>2 DEF SerialInv, PInv, HelperInv
<1>3. QED
  BY <1>1, <1>2

\* A helper that fails keeps the record and the reports together.
LEMMA StopSerial ==
  ASSUME PInv, SerialInv, NEW c \in Callers, NEW result \in Results, NEW faults \in 0..1,
         call[c].stage \in {"load", "put"}, Stop(c, result, faults),
         faults = 0 /\ call[c].recovery = "armed" => kv.status # "executing"
  PROVE  SerialInv'
<1>1. /\ UNCHANGED <<kv, calls, log>>
      /\ \A d \in Callers : d # c => call'[d] = call[d]
      /\ \/ /\ call[c].recovery = "armed" /\ call'[c].stage = "load"
            /\ call'[c].recovery = "recovering" /\ call'[c].faults = faults
         \/ /\ call[c].recovery # "armed" /\ call'[c].stage = result
            /\ call'[c].recovery = call[c].recovery
            /\ call'[c].faults = call[c].faults + faults
  BY StopFacts DEF Running
<1>2. \A d \in Callers : d # c => call'[d].stage \notin Running /\ call'[d].stage \notin {"put", "notify"}
  BY <1>1, OnlyOne DEF Running
<1>3. call'[c].stage \in {"load"} \cup Results /\ call'[c].stage \notin {"put", "notify"}
  BY <1>1 DEF Results
<1>4. calls # 0
  BY DEF SerialInv, Idle, Results
<1>5. call'[c].stage \in Running => call'[c].stage = "load" /\ (call'[c].faults = 0 => kv'.status # "executing")
  BY <1>1 DEF Running, Results
<1>6. kv' # Absent /\ log' # <<>> => log'[Len(log')][2] = kv'.status
  BY <1>1, ReportAgrees
<1>7. \A j \in 1..(Len(log') - 1) : log'[j][2] = log'[j + 1][1]
  BY <1>1 DEF SerialInv
<1>8. QED
  BY <1>1, <1>2, <1>3, <1>4, <1>5, <1>6, <1>7 DEF SerialInv

\* So does every step, with one helper at a time.
LEMMA SerialStep ==
  ASSUME Serialised
  PROVE  PInv /\ SerialInv /\ [Next]_vars => SerialInv'
<1> SUFFICES ASSUME PInv, SerialInv, [Next]_vars PROVE SerialInv'
  OBVIOUS
<1>1. ASSUME NEW c \in Callers, NEW b \in Bodies, Persist(c, b) PROVE SerialInv'
  <2>1. /\ calls = 0 /\ log = <<>> /\ UNCHANGED <<call, calls, log>>
        /\ \A d \in Callers : call[d].stage \in Results
    BY <1>1 DEF Persist, SerialInv, Idle
  <2>2. \A d \in Callers : call[d].stage \notin Running /\ call[d].stage \notin {"put", "notify"}
    BY <2>1 DEF Results, Running
  <2>3. QED
    BY <2>1, <2>2 DEF SerialInv, Idle
<1>2. ASSUME NEW c \in Callers, NEW op \in Ops, NEW recovery \in {"off", "armed"}, Begin(c, op, recovery)
      PROVE SerialInv'
  <2>1. \A d \in Callers : call[d].stage \notin Running /\ call[d].stage \notin {"put", "notify"}
    BY <1>2 DEF Begin, Turn, Idle, Results, Running
  <2>2. /\ call'[c].stage = "load" /\ call'[c].recovery = recovery
        /\ \A d \in Callers : d # c => call'[d] = call[d]
        /\ UNCHANGED <<kv, log>> /\ calls' # 0
    BY <1>2, CallersAssumption DEF Begin, PInv, TypeOK, Helper
  <2>3. QED
    BY <2>1, <2>2 DEF SerialInv
<1>3. ASSUME NEW c \in Callers, Load(c) PROVE SerialInv'
  <2>1. CASE Stop(c, "kv_error", 1)
    BY <1>3, <2>1, StopSerial DEF Load, Results
  <2>2. CASE kv = Absent /\ Stop(c, "not_found", 0)
    BY <1>3, <2>2, StopSerial DEF Load, Results, Absent
  <2>3. CASE kv # Absent /\ kv.status # From(call[c].op) /\ Stop(c, "invalid_transition", 0)
    <3>1. call[c].recovery = "armed" => kv.status # "executing"
      BY <2>3 DEF PInv, HelperInv, From
    <3>2. QED
      BY <1>3, <2>3, <3>1, StopSerial DEF Load, Results
  <2>4. CASE /\ kv.status = From(call[c].op)
             /\ call' = [call EXCEPT ![c] = Helper("put", @.op, @.recovery, kv, @.faults)]
             /\ UNCHANGED <<kv, calls, log>>
    <3>1. /\ call'[c].stage = "put" /\ call'[c].snap = kv /\ call'[c].op = call[c].op
          /\ call'[c].recovery = call[c].recovery /\ call'[c].faults = call[c].faults
          /\ \A d \in Callers : d # c => call'[d] = call[d]
      BY <1>3, <2>4, LoadFacts DEF Load
    <3>2. \A d \in Callers : d # c => call'[d].stage \notin Running /\ call'[d].stage \notin {"put", "notify"}
      BY <1>3, <3>1, OnlyOne DEF Load, Running
    <3>3. kv # Absent
      BY <2>4 DEF Absent, From
    <3>4. log # <<>> => log[Len(log)][2] = From(call[c].op)
      BY <1>3, <2>4, <3>3, ReportAgrees DEF Load
    <3>5. calls # 0
      BY <1>3 DEF SerialInv, Idle, Results, Load
    <3>6. ~(call[c].recovery = "recovering" /\ call[c].faults = 0)
      <4>1. call[c].recovery = "recovering" => kv.status = "executing"
        BY <2>4 DEF PInv, HelperInv, From
      <4>2. QED
        BY <1>3, <4>1 DEF SerialInv, Load, Running
    <3>7. QED
      BY ZenonT(30), <2>4, <3>1, <3>2, <3>4, <3>5, <3>6 DEF SerialInv
  <2>5. QED
    BY <1>3, <2>1, <2>2, <2>3, <2>4 DEF Load
<1>4. ASSUME NEW c \in Callers, Put(c) PROVE SerialInv'
  <2>1. CASE Stop(c, "kv_error", 1)
    BY <1>4, <2>1, StopSerial DEF Put, Results
  <2>2. CASE /\ kv' = Apply(call[c].op, call[c].snap, c)
             /\ call' = [call EXCEPT ![c].stage = "notify"]
             /\ UNCHANGED <<calls, log>>
    <3>1. /\ call'[c].stage = "notify" /\ call'[c].snap = call[c].snap /\ call'[c].op = call[c].op
          /\ call'[c].recovery = call[c].recovery /\ call'[c].faults = call[c].faults
          /\ \A d \in Callers : d # c => call'[d] = call[d]
      BY <2>2 DEF PInv, TypeOK
    <3>2. \A d \in Callers : d # c => call'[d].stage \notin Running /\ call'[d].stage \notin {"put", "notify"}
      BY <1>4, <3>1, OnlyOne DEF Put, Running
    <3>3. calls # 0
      BY <1>4 DEF SerialInv, Idle, Results, Put
    <3>4. log # <<>> => log[Len(log)][2] = From(call[c].op)
      BY <1>4 DEF Put, SerialInv
    <3>5. ~(call[c].recovery = "recovering" /\ call[c].faults = 0)
      BY <1>4 DEF SerialInv, Put, Running
    <3>6. QED
      BY <2>2, <3>1, <3>2, <3>3, <3>4, <3>5 DEF SerialInv
  <2>3. QED
    BY <1>4, <2>1, <2>2 DEF Put
<1>5. ASSUME NEW c \in Callers, Notify(c) PROVE SerialInv'
  <2> DEFINE to == Apply(call[c].op, call[c].snap, c).status
  <2>1. /\ call'[c].stage = "ok" /\ \A d \in Callers : d # c => call'[d] = call[d]
        /\ UNCHANGED <<kv, calls>> /\ call[c].stage = "notify"
        /\ log' = Append(log, <<From(call[c].op), to>>)
    BY <1>5 DEF Notify, PInv, TypeOK
  <2>2. \A d \in Callers : call'[d].stage \notin Running /\ call'[d].stage \notin {"put", "notify"}
    BY <2>1, OnlyOne DEF Running
  <2>3. calls # 0
    BY <2>1 DEF SerialInv, Idle, Results
  <2>4. kv # Absent => kv.status = to
    BY <2>1 DEF SerialInv
  <2>5. log # <<>> => log[Len(log)][2] = From(call[c].op)
    BY <2>1 DEF SerialInv
  <2>6. log \in Seq(Statuses \X Statuses)
    BY DEF PInv, TypeOK
  <2>7. From(call[c].op) \in Statuses /\ to \in Statuses
    <3>1. From(call[c].op) \in Statuses
      BY DEF From, Statuses
    <3>2. to \in Statuses
      BY <2>1, ApplyFacts DEF PInv, HelperInv, TypeOK, Statuses
    <3>3. QED
      BY <3>1, <3>2
  <2> HIDE DEF to
  <2>8. /\ Len(log) \in Nat /\ Len(log') = Len(log) + 1 /\ log'[Len(log')] = <<From(call[c].op), to>>
        /\ \A j \in 1..Len(log) : log'[j] = log[j]
    BY <2>1, <2>6, <2>7
  <2>9. \A j \in 1..(Len(log') - 1) : log'[j][2] = log'[j + 1][1]
    <3> SUFFICES ASSUME NEW j \in 1..Len(log) PROVE log'[j][2] = log'[j + 1][1]
      BY <2>8
    <3>1. CASE j = Len(log)
      <4>1. log # <<>>
        BY <2>6, <3>1
      <4>2. QED
        BY <2>5, <2>8, <3>1, <4>1
    <3>2. CASE j # Len(log)
      <4>1. j \in 1..(Len(log) - 1) /\ j + 1 \in 1..Len(log)
        BY <2>8, <3>2
      <4>2. QED
        BY <2>8, <4>1 DEF SerialInv
    <3>3. QED
      BY <3>1, <3>2
  <2>10. log'[Len(log')][2] = to
    BY <2>8
  <2>11. QED
    BY <2>1, <2>2, <2>3, <2>4, <2>9, <2>10 DEF SerialInv
<1>6. ASSUME Expire PROVE SerialInv'
  <2>1. kv' = Absent /\ UNCHANGED <<call, calls, log>>
    BY <1>6 DEF Expire
  <2>2. kv'.status # "executing"
    BY <2>1 DEF Absent
  <2>3. QED
    BY <2>1, <2>2 DEF SerialInv, Idle
<1>7. ASSUME UNCHANGED vars PROVE SerialInv'
  BY <1>7 DEF vars, SerialInv, Idle
<1>8. QED
  BY <1>1, <1>2, <1>3, <1>4, <1>5, <1>6, <1>7 DEF Next

\* Both hold when one helper runs at a time.
LEMMA SerialInvariant ==
  ASSUME Serialised
  PROVE  Spec => [](PInv /\ SerialInv)
<1>1. Init => SerialInv
  <2> SUFFICES ASSUME Init PROVE SerialInv
    OBVIOUS
  <2>1. kv = Absent /\ log = <<>> /\ \A c \in Callers : call[c].stage = "ok"
    BY DEF Init, NoCall, Helper
  <2>2. QED
    BY <2>1 DEF SerialInv, Idle, Running, Results
<1>2. QED
  BY <1>1, SerialStep, PInvariant, PTL DEF Spec

\* When the host runs one helper at a time, the observer's reports form one
\* walk that ends where the record is, whatever fails, recovers or expires.
THEOREM ObserverSound ==
  ASSUME Serialised
  PROVE  Spec => []ObserverFollowsRecord
<1>1. SerialInv => ObserverFollowsRecord
  <2> SUFFICES ASSUME SerialInv, \A c \in Callers : Idle(c), kv # Absent, log # <<>>
               PROVE  log[Len(log)][2] = kv.status
    BY DEF SerialInv, ObserverFollowsRecord
  <2>1. \A c \in Callers : call[c].stage \notin {"put", "notify"}
    BY DEF Idle, Results
  <2>2. QED
    BY <2>1 DEF SerialInv
<1>2. QED
  BY <1>1, SerialInvariant, PTL

\* L3 of the stored record, when the host runs one helper at a time.
THEOREM RecordMonotone ==
  ASSUME Serialised
  PROVE  Spec => StatusMonotone
<1> DEFINE Forward == kv'.body = kv.body =>
                        /\ Rank(kv'.status) >= Rank(kv.status)
                        /\ kv.status \in Terminal => kv' = kv
<1>1. ASSUME PInv, SerialInv, [Next]_vars PROVE Forward
  <2>0. kv \in Record /\ Absent.body = "no_body"
    BY <1>1 DEF PInv, TypeOK, Record, Absent
  <2>1. CASE kv' = kv
    BY <2>1, <2>0, RecordFacts DEF Rank, Statuses
  <2>2. CASE kv = Absent /\ kv' # Absent
    <3>1. kv' \in Record
      BY <1>1, PStep DEF PInv, TypeOK, Record
    <3>2. kv'.body # "no_body"
      BY <2>2, <3>1, RecordFacts
    <3>3. QED
      BY <2>0, <2>2, <3>2
  <2>3. CASE kv # Absent /\ kv' = Absent
    <3>1. kv.body # "no_body"
      BY <2>0, <2>3, RecordFacts
    <3>2. QED
      BY <2>0, <2>3, <3>1
  <2>4. ASSUME NEW c \in Callers, Put(c), kv # Absent, kv' # kv PROVE Forward
    <3>1. /\ kv' = Apply(call[c].op, call[c].snap, c) /\ call[c].stage = "put"
      BY <2>4 DEF Put, Stop
    <3>2. kv = call[c].snap /\ kv \in Plans(Callers) /\ kv.status = From(call[c].op) /\ call[c].op \in Ops
      BY <1>1, <2>4, <3>1 DEF SerialInv, PInv, HelperInv, TypeOK
    <3>3. kv'.status = CASE call[c].op = "approve" -> "approved" [] call[c].op = "start" -> "executing"
                         [] call[c].op = "complete" -> "executed" [] OTHER -> "failed"
      BY <3>1, <3>2, ApplyFacts
    <3>4. QED
      BY <3>2, <3>3 DEF Ops, From, Rank, Terminal
  <2>5. kv' = kv \/ (kv = Absent /\ kv' # Absent) \/ (kv # Absent /\ kv' = Absent)
          \/ (kv # Absent /\ \E c \in Callers : Put(c))
    BY <1>1 DEF Next, Persist, Begin, Load, Stop, Notify, Expire, vars
  <2>6. QED
    <3> HIDE DEF Forward
    <3> QED
      BY <2>1, <2>2, <2>3, <2>4, <2>5
<1>2. PInv /\ SerialInv /\ [Next]_vars => [Forward]_vars
  BY <1>1
<1>3. QED
  BY <1>2, SerialInvariant, PTL DEF Spec, StatusMonotone

\* complete_or_recover_in_kv leaves a plan Executing only after two KV errors,
\* when the host runs one helper at a time.
THEOREM RecoveryReliable ==
  ASSUME Serialised
  PROVE  Spec => RecoveryNeedsTwoFaults
<1> DEFINE Two == \A c \in Callers :
                    /\ call[c].stage \in Running /\ call'[c].stage \in Results \ {"ok"}
                    /\ call'[c].recovery = "recovering" /\ kv'.status = "executing"
                    => call'[c].faults = 2
<1>1. ASSUME PInv, SerialInv, [Next]_vars PROVE Two
  <2> SUFFICES ASSUME NEW c \in Callers, call[c].stage \in Running, call'[c].stage \in Results \ {"ok"},
                      call'[c].recovery = "recovering", kv'.status = "executing"
               PROVE  call'[c].faults = 2
    OBVIOUS
  <2>0. call'[c] # call[c] /\ call'[c].stage \notin Running
    BY DEF Running, Results
  <2>1. ASSUME NEW result \in Results, NEW faults \in 0..1, Stop(c, result, faults),
               call[c].stage \in {"load", "put"},
               faults = 0 => kv.status # "executing"
        PROVE  call'[c].faults = 2
    <3>1. /\ UNCHANGED kv /\ call[c].recovery = "recovering" /\ call'[c].faults = call[c].faults + faults
      BY <1>1, <2>0, <2>1, StopFacts DEF Running
    <3>2. faults = 1
      BY <2>1, <3>1
    <3>3. call[c].faults \in 0..1
      BY <1>1 DEF PInv, HelperInv, TypeOK
    <3>4. call[c].faults # 0
      BY <1>1, <3>1 DEF SerialInv
    <3>5. QED
      BY <3>1, <3>2, <3>3, <3>4
  <2>2. CASE Load(c)
    <3>1. CASE Stop(c, "kv_error", 1)
      BY <2>1, <2>2, <3>1 DEF Load, Results
    <3>2. CASE kv = Absent /\ Stop(c, "not_found", 0)
      BY <2>1, <2>2, <3>2 DEF Load, Results, Absent
    <3>3. CASE kv # Absent /\ kv.status # From(call[c].op) /\ Stop(c, "invalid_transition", 0)
      <4>1. call[c].recovery = "recovering"
        BY <1>1, <2>0, <3>3, StopFacts DEF Running, Results
      <4>2. From(call[c].op) = "executing"
        BY <1>1, <4>1 DEF PInv, HelperInv, From
      <4>3. QED
        BY <2>1, <2>2, <3>3, <4>2 DEF Load, Results
    <3>4. CASE call' = [call EXCEPT ![c] = Helper("put", @.op, @.recovery, kv, @.faults)]
      BY <1>1, <2>0, <3>4 DEF PInv, TypeOK, Helper, Running
    <3>5. QED
      BY <2>2, <3>1, <3>2, <3>3, <3>4 DEF Load
  <2>3. CASE Put(c)
    <3>1. CASE Stop(c, "kv_error", 1)
      BY <2>1, <2>3, <3>1 DEF Put, Results
    <3>2. CASE call' = [call EXCEPT ![c].stage = "notify"]
      BY <1>1, <2>0, <3>2 DEF PInv, TypeOK, Running
    <3>3. QED
      BY <2>3, <3>1, <3>2 DEF Put
  <2>4. CASE Notify(c)
    BY <1>1, <2>4 DEF Notify, PInv, TypeOK
  <2>5. CASE \E op \in Ops, recovery \in {"off", "armed"} : Begin(c, op, recovery)
    BY <1>1, <2>0, <2>5 DEF Begin, Helper, PInv, TypeOK, Running
  <2>6. ASSUME NEW d \in Callers, d # c,
               \/ \E op \in Ops, recovery \in {"off", "armed"} : Begin(d, op, recovery)
               \/ Load(d) \/ Put(d) \/ Notify(d)
        PROVE FALSE
    BY <1>1, <2>0, <2>6 DEF Begin, Load, Put, Notify, Stop, PInv, TypeOK
  <2>7. CASE UNCHANGED call
    BY <2>0, <2>7
  <2>8. QED
    BY <1>1, <2>2, <2>3, <2>4, <2>5, <2>6, <2>7 DEF Next, Persist, Expire, vars
<1>2. PInv /\ SerialInv /\ [Next]_vars => [Two]_vars
  BY <1>1
<1>3. QED
  BY <1>2, SerialInvariant, PTL DEF Spec, RecoveryNeedsTwoFaults
=============================================================================
