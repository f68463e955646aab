---------------------------- MODULE NurseryProofs ----------------------------
(***************************************************************************)
(* with_nursery returns after its tasks and swallows no failure, for any   *)
(* number of tasks.                                                        *)
(***************************************************************************)
EXTENDS Nursery, TLAPS

Has(s, t) == \E i \in DOMAIN s : s[i] = t

\* TypeOK without the Boolean variables.
Shape ==
  /\ main \in {"spawn", "body", "join", "done"}
  /\ spawned \in 0..NumTasks
  /\ task \in [Tasks -> {"unspawned", "running", "failing"} \cup Ended]
  /\ awaiting \in 1..(NumTasks + 1)
  /\ errors \in Seq(Tasks) /\ failures \in Seq(Tasks)
  /\ panic \in {None} \cup Tasks
  /\ result \in [kind : {"none", "ok", "body", "task", "panicked"}, of : {None} \cup Tasks]

\* The join has seen the tasks below awaiting end, and nobody is spawned after it.
JoinInv ==
  /\ awaiting <= spawned + 1
  /\ main \in {"spawn", "body"} => awaiting = 1
  /\ main = "done" => awaiting = spawned + 1
  /\ \A t \in Tasks : t > spawned => task[t] = "unspawned"
  /\ \A t \in Tasks : t < awaiting => task[t] \in Ended

\* failures lists the tasks that failed, the channel those that reported, and
\* panic one of the panics the join has passed.
LedgerInv ==
  /\ \A t \in Tasks : Has(failures, t) <=> task[t] \in {"failing", "err", "panicked"}
  /\ \A t \in Tasks : Has(errors, t) <=> task[t] = "err"
  /\ panic # None => task[panic] = "panicked"
  /\ \A t \in Tasks : t < awaiting /\ task[t] = "panicked" => panic # None

NInv == Shape /\ JoinInv /\ LedgerInv

-----------------------------------------------------------------------------
\* Appending adds one member.
LEMMA AppendHas ==
  ASSUME NEW S, NEW s \in Seq(S), NEW x \in S
  PROVE  /\ Append(s, x) \in Seq(S) /\ Append(s, x) # <<>>
         /\ \A t : Has(Append(s, x), t) <=> Has(s, t) \/ t = x
<1>1. /\ Append(s, x) \in Seq(S) /\ Len(Append(s, x)) = Len(s) + 1
      /\ DOMAIN Append(s, x) = 1..Len(s) + 1 /\ DOMAIN s = 1..Len(s)
      /\ Append(s, x)[Len(s) + 1] = x
      /\ \A i \in 1..Len(s) : Append(s, x)[i] = s[i]
  OBVIOUS
<1>2. ASSUME NEW t, Has(s, t) PROVE Has(Append(s, x), t)
  BY <1>1, <1>2 DEF Has
<1>3. Has(Append(s, x), x)
  BY <1>1 DEF Has
<1>4. ASSUME NEW t, Has(Append(s, x), t), t # x PROVE Has(s, t)
  BY <1>1, <1>4 DEF Has
<1>5. QED
  BY <1>1, <1>2, <1>3, <1>4

\* Every step keeps the types and the order of the join.
LEMMA JoinStep == NInv /\ [Next]_vars => Shape' /\ JoinInv'
<1> SUFFICES ASSUME NInv, [Next]_vars PROVE Shape' /\ JoinInv'
  OBVIOUS
<1> USE NurseryAssumption DEF NInv, Shape, JoinInv, Tasks, Ended, None
<1>1. CASE ParentCancel
  BY <1>1 DEF ParentCancel
<1>2. CASE Spawn
  BY <1>2 DEF Spawn
<1>3. CASE BodyStarts
  BY <1>3 DEF BodyStarts
<1>4. CASE BodyReturns
  BY <1>4 DEF BodyReturns
<1>5. CASE Join
  BY <1>5 DEF Join
<1>6. CASE Return
  <2>1. errors # <<>> => Head(errors) \in Tasks
    OBVIOUS
  <2>2. result' \in [kind : {"none", "ok", "body", "task", "panicked"}, of : {None} \cup Tasks]
    BY <1>6, <2>1 DEF Return
  <2>3. QED
    BY <1>6, <2>2 DEF Return
<1>7. ASSUME NEW t \in Tasks, TaskOk(t) PROVE Shape' /\ JoinInv'
  BY <1>7 DEF TaskOk, MayEnd
<1>8. ASSUME NEW t \in Tasks, TaskErr(t) PROVE Shape' /\ JoinInv'
  <2>1. failures' \in Seq(Tasks)
    BY <1>8, AppendHas DEF TaskErr
  <2>2. QED
    BY <1>8, <2>1 DEF TaskErr, MayEnd
<1>9. ASSUME NEW t \in Tasks, TaskReports(t) PROVE Shape' /\ JoinInv'
  <2>1. errors' \in Seq(Tasks)
    BY <1>9, AppendHas DEF TaskReports
  <2>2. QED
    BY <1>9, <2>1 DEF TaskReports
<1>10. ASSUME NEW t \in Tasks, TaskPanics(t) PROVE Shape' /\ JoinInv'
  <2>1. failures' \in Seq(Tasks)
    BY <1>10, AppendHas DEF TaskPanics
  <2>2. QED
    BY <1>10, <2>1 DEF TaskPanics
<1>11. CASE UNCHANGED vars
  BY <1>11 DEF vars
<1>12. QED
  BY <1>1, <1>2, <1>3, <1>4, <1>5, <1>6, <1>7, <1>8, <1>9, <1>10, <1>11
  DEF Next, MainStep, TaskStep

\* Every step keeps the ledgers of failures in step with the tasks.
LEMMA LedgerStep == NInv /\ [Next]_vars => LedgerInv'
<1> SUFFICES ASSUME NInv, [Next]_vars PROVE LedgerInv'
  OBVIOUS
<1> USE NurseryAssumption DEF NInv, Shape, JoinInv, LedgerInv, Ended, None
<1>a. \A t \in Tasks : t \in Nat /\ t # 0
  BY DEF Tasks
<1>1. CASE ParentCancel
  BY <1>1 DEF ParentCancel
<1>2. CASE Spawn
  <2>1. spawned + 1 \in Tasks /\ task[spawned + 1] = "unspawned"
    BY <1>2 DEF Spawn, Tasks
  <2>2. QED
    BY <1>2, <1>a, <2>1 DEF Spawn
<1>3. CASE BodyStarts \/ BodyReturns \/ Return
  BY <1>3 DEF BodyStarts, BodyReturns, Return
<1>4. CASE Join
  <2>1. awaiting \in Tasks
    BY <1>4 DEF Join, Tasks
  <2>2. QED
    BY <1>4, <1>a, <2>1 DEF Join
<1>5. ASSUME NEW t \in Tasks, TaskOk(t) PROVE LedgerInv'
  BY <1>5, <1>a DEF TaskOk, MayEnd
<1>6. ASSUME NEW t \in Tasks, TaskErr(t) PROVE LedgerInv'
  <2>1. \A u : Has(failures', u) <=> Has(failures, u) \/ u = t
    BY <1>6, AppendHas DEF TaskErr
  <2>2. QED
    BY <1>6, <1>a, <2>1 DEF TaskErr, MayEnd
<1>7. ASSUME NEW t \in Tasks, TaskReports(t) PROVE LedgerInv'
  <2>1. \A u : Has(errors', u) <=> Has(errors, u) \/ u = t
    BY <1>7, AppendHas DEF TaskReports
  <2>2. QED
    BY <1>7, <1>a, <2>1 DEF TaskReports
<1>8. ASSUME NEW t \in Tasks, TaskPanics(t) PROVE LedgerInv'
  <2>1. \A u : Has(failures', u) <=> Has(failures, u) \/ u = t
    BY <1>8, AppendHas DEF TaskPanics
  <2>2. QED
    BY <1>8, <1>a, <2>1 DEF TaskPanics
<1>9. CASE UNCHANGED vars
  BY <1>9 DEF vars
<1>10. QED
  BY <1>1, <1>2, <1>3, <1>4, <1>5, <1>6, <1>7, <1>8, <1>9 DEF Next, MainStep, TaskStep

\* NInv holds of every nursery.
LEMMA NurseryInvariant == Spec => []NInv
<1>1. Init => NInv
  <2> SUFFICES ASSUME Init PROVE NInv
    OBVIOUS
  <2> USE NurseryAssumption DEF Init
  <2>1. Shape
    BY DEF Shape, NoResult, None, Ended
  <2>2. JoinInv
    BY DEF JoinInv, Tasks
  <2>3. LedgerInv
    BY DEF LedgerInv, Has, Tasks, None
  <2>4. QED
    BY <2>1, <2>2, <2>3 DEF NInv
<1>2. QED
  BY <1>1, JoinStep, LedgerStep, PTL DEF Spec, NInv

\* "No spawned task outlives with_nursery's return", for any number of tasks.
THEOREM TasksContained == Spec => []Containment
<1>1. NInv => Containment
  BY NurseryAssumption DEF NInv, Shape, JoinInv, Containment, Tasks, Ended
<1>2. QED
  BY <1>1, NurseryInvariant, PTL

\* Every variable keeps its type.
THEOREM TypeCorrect == Spec => []TypeOK
<1> DEFINE Flags == cancelled \in BOOLEAN /\ parent \in BOOLEAN /\ bodyOk \in BOOLEAN
<1>1. Init => Flags
  BY Zenon DEF Init
<1>2. Flags /\ [Next]_vars => Flags'
  <2> SUFFICES ASSUME Flags, [Next]_vars PROVE Flags'
    OBVIOUS
  <2>1. CASE ParentCancel \/ Spawn \/ BodyStarts \/ Return \/ UNCHANGED vars
    BY <2>1, Zenon DEF ParentCancel, Spawn, BodyStarts, Return, vars
  <2>2. CASE BodyReturns
    BY <2>2, Zenon DEF BodyReturns
  <2>3. CASE Join
    BY <2>3, Zenon DEF Join
  <2>4. ASSUME NEW t \in Tasks, TaskStep(t) \/ TaskPanics(t) PROVE Flags'
    BY <2>4, Zenon DEF TaskStep, TaskOk, TaskErr, TaskReports, TaskPanics
  <2>5. QED
    BY <2>1, <2>2, <2>3, <2>4, Zenon DEF Next, MainStep
<1>3. Spec => []Flags
  BY <1>1, <1>2, PTL DEF Spec
<1>4. NInv /\ Flags => TypeOK
  BY Zenon DEF NInv, Shape, TypeOK
<1>5. QED
  BY <1>3, <1>4, NurseryInvariant, PTL

\* with_nursery's result accounts for the body and for every task, for any
\* number of tasks.
THEOREM FailuresReturned == Spec => []NothingSwallowed
<1>1. Init => NothingSwallowed
  BY DEF Init, NothingSwallowed
<1>2. NInv /\ NothingSwallowed /\ [Next]_vars => NothingSwallowed'
  <2> SUFFICES ASSUME NInv, NothingSwallowed, [Next]_vars PROVE NothingSwallowed'
    OBVIOUS
  <2>1. CASE Return
    <3>1. \A t \in Tasks : task[t] \in Ended \cup {"unspawned"}
      BY <2>1, NurseryAssumption DEF Return, NInv, Shape, JoinInv, Tasks
    <3>2. \A t \in Tasks : task[t] = "panicked" => panic # None
      <4>1. \A t \in Tasks : t < awaiting \/ task[t] = "unspawned"
        BY <2>1, NurseryAssumption DEF Return, NInv, Shape, JoinInv, Tasks
      <4>2. QED
        BY <4>1 DEF NInv, LedgerInv
    <3>3. failures = <<>> <=> errors = <<>> /\ panic = None
      <4>1. failures # <<>> => Has(failures, failures[1]) /\ failures[1] \in Tasks
        BY DEF NInv, Shape, Has
      <4>2. errors # <<>> => Has(errors, Head(errors)) /\ Head(errors) \in Tasks
        BY DEF NInv, Shape, Has
      <4>3. \A t : Has(failures, t) => failures # <<>>
        BY DEF Has
      <4>4. \A t : Has(errors, t) => errors # <<>>
        BY DEF Has
      <4>5. panic # None => panic \in Tasks
        BY DEF NInv, Shape
      <4>6. errors # <<>> => failures # <<>>
        BY <4>2, <4>3 DEF NInv, LedgerInv
      <4>7. panic # None => failures # <<>>
        BY <4>3, <4>5 DEF NInv, LedgerInv
      <4>8. failures # <<>> => errors # <<>> \/ panic # None
        BY <3>1, <3>2, <4>1, <4>4 DEF NInv, LedgerInv, Ended
      <4>9. QED
        BY <4>6, <4>7, <4>8
    <3>4. errors # <<>> => Has(failures, Head(errors))
      <4>1. errors # <<>> => Has(errors, Head(errors)) /\ Head(errors) \in Tasks
        BY DEF NInv, Shape, Has
      <4>2. QED
        BY <4>1 DEF NInv, LedgerInv
    <3>5. panic # None => Has(failures, panic)
      BY DEF NInv, Shape, LedgerInv
    <3>6. CASE ~bodyOk
      <4>1. result'.kind = "body" /\ ~bodyOk'
        BY <2>1, <3>6 DEF Return
      <4>2. QED
        BY <4>1 DEF NothingSwallowed
    <3>7. CASE bodyOk
      <4>1. /\ errors # <<>> => result' = [kind |-> "task", of |-> Head(errors)]
            /\ errors = <<>> /\ panic # None => result' = [kind |-> "panicked", of |-> panic]
            /\ errors = <<>> /\ panic = None => result' = [kind |-> "ok", of |-> None]
            /\ failures' = failures /\ bodyOk'
        BY <2>1, <3>7 DEF Return
      <4>2. QED
        BY <4>1, <3>3, <3>4, <3>5 DEF NothingSwallowed, Has
    <3>8. QED
      BY <3>6, <3>7
  <2>2. CASE main' = "done" /\ ~Return
    <3>1. main = "done"
      BY <2>2 DEF Next, MainStep, TaskStep, ParentCancel, Spawn, BodyStarts, BodyReturns, Join,
                  TaskOk, TaskErr, TaskReports, TaskPanics, vars
    <3>2. \A t \in Tasks : task[t] \in Ended \cup {"unspawned"}
      BY <3>1, NurseryAssumption DEF NInv, Shape, JoinInv, Tasks
    <3>3. UNCHANGED <<result, bodyOk, failures>>
      BY <2>2, <3>1, <3>2 DEF Ended, Next, MainStep, TaskStep, ParentCancel, Spawn, BodyStarts, BodyReturns, Join,
                  TaskOk, TaskErr, TaskReports, TaskPanics, MayEnd, vars
    <3>4. QED
      BY <3>1, <3>3 DEF NothingSwallowed
  <2>3. CASE main' # "done"
    BY <2>3 DEF NothingSwallowed
  <2>4. QED
    BY <2>1, <2>2, <2>3
<1>3. QED
  BY <1>1, <1>2, NurseryInvariant, PTL DEF Spec

-----------------------------------------------------------------------------
(* When the join waits for ever                                            *)

\* The join is at a handle whose task is neither over nor able to end by itself.
Stranded ==
  /\ main = "join" /\ awaiting <= spawned
  /\ task[awaiting] \notin Ended \cup {"failing"} /\ ~MayEnd(awaiting)

\* A join that waits for ever waits for a task nobody cancels: the parent did not,
\* the body ended well, and every task that failed so far panicked behind the
\* handle the join is at (handle.await in spawn order; the Err arm cancels, an
\* unwinding panic does not).
StrandedByPanicOnly ==
  Stranded => /\ awaiting \in Waiters /\ ~parent /\ bodyOk
              /\ \A t \in Tasks : Has(failures, t) => task[t] = "panicked" /\ t > awaiting

\* Every failure except a panic the join has not seen cancelled the nursery.
CancelInv ==
  /\ ~bodyOk => cancelled
  /\ panic # None => cancelled
  /\ \A t \in Tasks : task[t] \in {"failing", "err"} => cancelled
  /\ \A t \in Tasks : t <= spawned => task[t] # "unspawned"

\* Every step keeps the cancellation in step with the failures.
LEMMA CancelStep == NInv /\ CancelInv /\ [Next]_vars => CancelInv'
<1> SUFFICES ASSUME NInv, CancelInv, [Next]_vars PROVE CancelInv'
  OBVIOUS
<1> USE NurseryAssumption DEF NInv, Shape, JoinInv, CancelInv, Tasks, Ended, None
<1>1. CASE ParentCancel \/ BodyStarts \/ Return \/ UNCHANGED vars
  BY <1>1 DEF ParentCancel, BodyStarts, Return, vars
<1>2. CASE Spawn
  BY <1>2 DEF Spawn
<1>3. CASE BodyReturns
  <2>1. UNCHANGED <<task, spawned, panic>>
    BY <1>3 DEF BodyReturns
  <2>2. PICK ok \in BOOLEAN : bodyOk' = ok /\ cancelled' = (cancelled \/ ~ok)
    BY <1>3, Zenon DEF BodyReturns
  <2>3. (cancelled => cancelled') /\ (~bodyOk' => cancelled')
    BY <2>2, Zenon
  <2>4. QED
    BY <2>1, <2>3
<1>4. CASE Join
  BY <1>4 DEF Join
<1>5. ASSUME NEW t \in Tasks, TaskStep(t) \/ TaskPanics(t) PROVE CancelInv'
  BY <1>5 DEF TaskStep, TaskOk, TaskErr, TaskReports, TaskPanics, MayEnd
<1>6. QED
  <2> HIDE DEF NInv, CancelInv, Tasks
  <2> QED
    BY <1>1, <1>2, <1>3, <1>4, <1>5 DEF Next, MainStep

\* The join is never stranded after a cancelled parent, a failed body or a task
\* that returned Err (L2, L3, L6), for any number of tasks: only panics that the
\* join has not reached leave it waiting for a sibling that runs until cancelled.
THEOREM OnlyPanicsStrand == Spec => []StrandedByPanicOnly
<1>1. Init => CancelInv
  BY NurseryAssumption DEF Init, CancelInv, Tasks, None
<1>2. NInv /\ CancelInv => StrandedByPanicOnly
  <2> SUFFICES ASSUME NInv, CancelInv, Stranded
               PROVE  /\ awaiting \in Waiters /\ ~parent /\ bodyOk
                      /\ \A t \in Tasks : Has(failures, t) => task[t] = "panicked" /\ t > awaiting
    BY DEF StrandedByPanicOnly
  <2>1. awaiting \in Tasks /\ task[awaiting] = "running"
    BY NurseryAssumption DEF NInv, Shape, JoinInv, CancelInv, Stranded, Tasks, Ended
  <2>2. awaiting \in Waiters /\ ~cancelled /\ ~parent
    BY <2>1, Zenon DEF Stranded, MayEnd, ChildCancelled
  <2>3. bodyOk /\ panic = None
    BY <2>2, Zenon DEF CancelInv
  <2>4. ASSUME NEW t \in Tasks, Has(failures, t) PROVE task[t] = "panicked" /\ t > awaiting
    <3>1. task[t] = "panicked"
      BY <2>2, <2>4 DEF NInv, LedgerInv, CancelInv
    <3>2. ~(t < awaiting) /\ t # awaiting
      BY <2>1, <2>3, <3>1 DEF NInv, LedgerInv
    <3>3. QED
      BY <2>1, <3>1, <3>2, NurseryAssumption DEF Tasks
  <2>5. QED
    BY <2>2, <2>3, <2>4
<1>3. QED
  BY <1>1, <1>2, CancelStep, NurseryInvariant, PTL DEF Spec
=============================================================================
