------------------------------- MODULE Nursery -------------------------------
(***************************************************************************)
(* with_nursery of agent-fw-algebra: a body that spawns tasks, the tasks   *)
(* on their own threads, and the join that awaits the handles in spawn     *)
(* order.  The spawns happen while the body closure runs, before its       *)
(* future is awaited.  A task is a worker, which ends by itself, or a      *)
(* waiter, which ends only once its child token is cancelled.              *)
(***************************************************************************)
EXTENDS Integers, Sequences, FiniteSets

CONSTANTS NumTasks,    \* tasks are 1..NumTasks, in spawn order
          Waiters,     \* tasks that run until they are cancelled
          MayPanic,    \* tasks may panic
          ParentMayCancel

Tasks == 1..NumTasks

ASSUME NurseryAssumption ==
  /\ NumTasks \in Nat /\ Waiters \subseteq Tasks
  /\ MayPanic \in BOOLEAN /\ ParentMayCancel \in BOOLEAN

VARIABLES main,       \* where with_nursery is: spawn, body, join or done
          spawned,    \* tasks spawned so far
          task,       \* task[t]: unspawned, running, failing, or how it ended
          awaiting,   \* the handle the join is at
          cancelled,  \* the nursery's token
          parent,     \* the caller's token
          bodyOk,     \* result of the body
          errors,     \* the channel of task errors
          panic,      \* panic_error
          result,     \* what with_nursery returned
          failures    \* tasks in the order in which they failed (history)

vars == <<main, spawned, task, awaiting, cancelled, parent, bodyOk, errors, panic, result, failures>>

Ended == {"ok", "err", "panicked"}
None == 0

TypeOK ==
  /\ main \in {"spawn", "body", "join", "done"}
  /\ spawned \in 0..NumTasks
  /\ task \in [Tasks -> {"unspawned", "running", "failing"} \cup Ended]
  /\ awaiting \in 1..(NumTasks + 1)
  /\ {cancelled, parent, bodyOk} \subseteq BOOLEAN
  /\ errors \in Seq(Tasks) /\ failures \in Seq(Tasks)
  /\ panic \in {None} \cup Tasks
  /\ result \in [kind : {"none", "ok", "body", "task", "panicked"}, of : {None} \cup Tasks]

NoResult == [kind |-> "none", of |-> None]

Init ==
  /\ main = "spawn" /\ spawned = 0
  /\ task = [t \in Tasks |-> "unspawned"]
  /\ awaiting = 1 /\ cancelled = FALSE /\ parent = FALSE /\ bodyOk = TRUE
  /\ errors = <<>> /\ failures = <<>> /\ panic = None /\ result = NoResult

\* A child token is cancelled with the nursery's or with the parent's.
ChildCancelled == cancelled \/ parent

ParentCancel ==
  /\ ParentMayCancel /\ ~parent
  /\ parent' = TRUE
  /\ UNCHANGED <<main, spawned, task, awaiting, cancelled, bodyOk, errors, panic, result, failures>>

\* Nursery::spawn
Spawn ==
  /\ main = "spawn" /\ spawned < NumTasks
  /\ spawned' = spawned + 1
  /\ task' = [task EXCEPT ![spawned + 1] = "running"]
  /\ UNCHANGED <<main, awaiting, cancelled, parent, bodyOk, errors, panic, result, failures>>

\* The closure returns the body's future.
BodyStarts ==
  /\ main = "spawn"
  /\ main' = "body"
  /\ UNCHANGED <<spawned, task, awaiting, cancelled, parent, bodyOk, errors, panic, result, failures>>

\* The body returns; on Err the nursery's token is cancelled.
BodyReturns ==
  /\ main = "body"
  /\ main' = "join"
  /\ \E ok \in BOOLEAN : bodyOk' = ok /\ cancelled' = (cancelled \/ ~ok)
  /\ UNCHANGED <<spawned, task, awaiting, parent, errors, panic, result, failures>>

MayEnd(t) == task[t] = "running" /\ (t \in Waiters => ChildCancelled)

TaskOk(t) ==
  /\ MayEnd(t)
  /\ task' = [task EXCEPT ![t] = "ok"]
  /\ UNCHANGED <<main, spawned, awaiting, cancelled, parent, bodyOk, errors, panic, result, failures>>

\* A variant that reports the error without cancelling the siblings.
TaskErrQuietly(t) ==
  /\ MayEnd(t)
  /\ task' = [task EXCEPT ![t] = "failing"]
  /\ failures' = Append(failures, t)
  /\ UNCHANGED <<main, spawned, awaiting, cancelled, parent, bodyOk, errors, panic, result>>

\* A task returns Err: it cancels the nursery,
TaskErr(t) ==
  /\ MayEnd(t)
  /\ task' = [task EXCEPT ![t] = "failing"]
  /\ cancelled' = TRUE
  /\ failures' = Append(failures, t)
  /\ UNCHANGED <<main, spawned, awaiting, parent, bodyOk, errors, panic, result>>

\* ... and then sends its error.
TaskReports(t) ==
  /\ task[t] = "failing"
  /\ task' = [task EXCEPT ![t] = "err"]
  /\ errors' = Append(errors, t)
  /\ UNCHANGED <<main, spawned, awaiting, cancelled, parent, bodyOk, panic, result, failures>>

\* A panic unwinds past the error arm: nothing is cancelled, nothing is sent.
TaskPanics(t) ==
  /\ MayPanic /\ task[t] = "running"
  /\ task' = [task EXCEPT ![t] = "panicked"]
  /\ failures' = Append(failures, t)
  /\ UNCHANGED <<main, spawned, awaiting, cancelled, parent, bodyOk, errors, panic, result>>

\* A variant that stops joining at the first task that did not end well.
JoinStopsAtFailure ==
  /\ main = "join" /\ awaiting <= spawned
  /\ task[awaiting] \in Ended
  /\ awaiting' = IF task[awaiting] = "ok" THEN awaiting + 1 ELSE spawned + 1
  /\ UNCHANGED <<main, spawned, task, cancelled, parent, bodyOk, errors, panic, result, failures>>

\* handle.await, in spawn order; the first panic seen cancels the nursery.
Join ==
  /\ main = "join" /\ awaiting <= spawned
  /\ task[awaiting] \in Ended
  /\ awaiting' = awaiting + 1
  /\ IF task[awaiting] = "panicked" /\ panic = None
     THEN panic' = awaiting /\ cancelled' = TRUE
     ELSE UNCHANGED <<panic, cancelled>>
  /\ UNCHANGED <<main, spawned, task, parent, bodyOk, errors, result, failures>>

\* A variant that looks at the panics only.
ReturnPanicOnly ==
  /\ main = "join" /\ awaiting = spawned + 1
  /\ main' = "done"
  /\ result' = CASE ~bodyOk -> [kind |-> "body", of |-> None]
                 [] bodyOk /\ panic # None -> [kind |-> "panicked", of |-> panic]
                 [] OTHER -> [kind |-> "ok", of |-> None]
  /\ UNCHANGED <<spawned, task, awaiting, cancelled, parent, bodyOk, errors, panic, failures>>

\* with_nursery returns: body error, then the first error in the channel, then
\* the panic.
Return ==
  /\ main = "join" /\ awaiting = spawned + 1
  /\ main' = "done"
  /\ result' = CASE ~bodyOk -> [kind |-> "body", of |-> None]
                 [] bodyOk /\ errors # <<>> -> [kind |-> "task", of |-> Head(errors)]
                 [] bodyOk /\ errors = <<>> /\ panic # None -> [kind |-> "panicked", of |-> panic]
                 [] OTHER -> [kind |-> "ok", of |-> None]
  /\ UNCHANGED <<spawned, task, awaiting, cancelled, parent, bodyOk, errors, panic, failures>>

MainStep == BodyStarts \/ BodyReturns \/ Join \/ Return
TaskStep(t) == TaskOk(t) \/ TaskErr(t) \/ TaskReports(t)

Next == ParentCancel \/ Spawn \/ MainStep \/ (\E t \in Tasks : TaskStep(t) \/ TaskPanics(t))

Spec == Init /\ [][Next]_vars

\* The runtime polls what is ready; workers and cancelled waiters end, and the
\* body returns.
FairSpec == Spec /\ WF_vars(MainStep) /\ \A t \in Tasks : WF_vars(TaskStep(t))

-----------------------------------------------------------------------------
(* Properties                                                              *)

\* "No spawned task outlives with_nursery's return" (L1, L4), whatever fails.
Containment == main = "done" => \A t \in Tasks : task[t] \in Ended \cup {"unspawned"}

\* with_nursery returns Ok only if the body and every task ended well, and
\* otherwise names somebody who failed.
NothingSwallowed ==
  main = "done" =>
    /\ result.kind = "ok" <=> bodyOk /\ failures = <<>>
    /\ result.kind \in {"task", "panicked"} => \E i \in DOMAIN failures : failures[i] = result.of

\* "Parent cancel -> all child tokens cancelled" (L2), "First task error cancels
\* all remaining tasks" (L3), "If body returns Err, all tasks are cancelled"
\* (L6): after any of them, and when no task waits for a cancellation, the
\* nursery returns, whichever other tasks panic.
NurseryReturns ==
  /\ main = "join"
  /\ Waiters = {} \/ parent \/ ~bodyOk \/ \E t \in Tasks : task[t] \in {"failing", "err"}
  ~> main = "done"

\* "no deadlock risk": after any failure of a task, a panic included, the
\* nursery returns.
NoDeadlock == main = "join" /\ failures # <<>> ~> main = "done"
=============================================================================
