--------------------------- MODULE ScheduledRetry ---------------------------
(***************************************************************************)
(* Attempts of an operation over a PauseToken and a CancellationToken, with*)
(* pausable_sleep between them.  pausable_sleep races the timer, the       *)
(* cancellation and until_paused (PauseToken's watcher, on token 1); once  *)
(* paused it subtracts what has elapsed and waits for the resume or the    *)
(* cancellation.  Three loops are built on it:                             *)
(*   "retry"   retry_on_schedule and retry_on_schedule_when;               *)
(*   "repeat"  repeat_on_schedule, which no value of the operation ends;   *)
(*   "policy"  retry_pausable, retry_when_pausable and retry_until_pausable*)
(*             of a RetryPolicy, which look at the cancellation in the     *)
(*             sleep only.                                                 *)
(*                                                                         *)
(* The users of a token do not touch one another, they read its flag and   *)
(* are notified.  So a behaviour has one of two: the checkpoint and the    *)
(* watcher of PauseToken, or a call of one of the loops.                   *)
(*                                                                         *)
(* Time passes while the operation runs, while the select! waits and while *)
(* the sleep is frozen.  A clock is kept where somebody reads it, and stops*)
(* at the largest value it is compared with.                               *)
(***************************************************************************)
EXTENDS PauseToken, Schedule

CONSTANTS Uses,       \* a sequence of loops and the schedules they are called with
          MaxTime     \* at least every up_to of the schedules

ASSUME UsesAssumption ==
  /\ 1 \in DOMAIN Uses
  /\ \A u \in DOMAIN Uses : Uses[u].loop \in {"retry", "repeat", "policy"}
ASSUME MaxTimeAssumption ==
  /\ MaxTime \in Nat
  /\ \A u \in DOMAIN Uses : \A d \in Uses[u].sched.limits : d <= MaxTime

VARIABLES use,      \* which of the uses the call is
          spc,      \* where the call is; "absent": the tokens have other users
          attempt,  \* attempts made
          delay,    \* the delay step gave for this attempt
          left,     \* remaining
          since,    \* before.elapsed(), up to left
          total,    \* start.elapsed(), up to MaxTime
          rfut,     \* the Notified future of the wait_if_paused inside the sleep
          stop,     \* the cancellation token
          slept,    \* time this sleep has spent unfrozen, up to delay (history)
          late      \* operations begun although cancelled (history)

sleepVars == <<left, since, rfut, slept>>
loopVars == <<use, attempt, delay>>
retryVars == <<loopVars, sleepVars, spc, total, stop, late>>
allVars == <<vars, retryVars>>

loop == Uses[use].loop
sched == Uses[use].sched

Frozen == {"freeze", "frozen_check", "frozen_await"}
Sleeping == {"sleep", "select"} \cup Frozen
Returned == {"empty", "done", "exhausted", "cancelled"}

RInit ==
  /\ Init
  /\ \/ spc = "absent" /\ use = 1
     \/ spc = "begin" /\ use \in DOMAIN Uses
  /\ attempt = 0 /\ delay = 0
  /\ left = 0 /\ since = 0 /\ total = 0 /\ rfut = "none"
  /\ stop = FALSE /\ slept = 0 /\ late = 0

-----------------------------------------------------------------------------
(* The loops                                                               *)

\* step of the next attempt: the operation begins, or there is none left.
Begin ==
  /\ spc = "begin"
  /\ \/ /\ sched.step[attempt][total] = {}
        /\ spc' = IF attempt = 0 THEN "empty" ELSE "exhausted"
        /\ UNCHANGED <<delay, late>>
     \/ /\ delay' \in sched.step[attempt][total]
        /\ spc' = "operation"
        /\ late' = IF stop THEN late + 1 ELSE late
  /\ UNCHANGED <<vars, use, attempt, sleepVars, total, stop>>

\* A success, an acceptable value, or an error the predicate refuses to retry.
OperationEnds ==
  /\ spc = "operation" /\ loop # "repeat"
  /\ spc' = "done" /\ attempt' = attempt + 1
  /\ UNCHANGED <<vars, use, delay, sleepVars, total, stop, late>>

\* Once more: over if the next step is Done, else sleep; the schedule loops do
\* not call the sleep for a delay of zero.
OperationAgain ==
  /\ spc = "operation"
  /\ attempt' = attempt + 1
  /\ spc' = CASE sched.step[attempt + 1][total] = {} -> "exhausted"
              [] delay = 0 /\ loop # "policy" -> "check_cancel"
              [] OTHER -> "sleep"
  /\ left' = delay /\ slept' = 0
  /\ UNCHANGED <<vars, use, delay, since, rfut, total, stop, late>>

\* Variant: the sleep alone looks at the cancellation.
CheckCancelSkipped ==
  /\ spc = "check_cancel"
  /\ spc' = "begin"
  /\ UNCHANGED <<vars, loopVars, sleepVars, total, stop, late>>

\* is_cancelled after the sleep.
CheckCancel ==
  /\ spc = "check_cancel"
  /\ spc' = IF stop THEN "cancelled" ELSE "begin"
  /\ UNCHANGED <<vars, loopVars, sleepVars, total, stop, late>>

-----------------------------------------------------------------------------
(* pausable_sleep                                                          *)

AfterSleep == IF loop = "policy" THEN "begin" ELSE "check_cancel"

\* Variant: before is taken once for all rounds of the loop.
SleepBeforeOnce ==
  /\ spc = "sleep"
  /\ IF left = 0
     THEN spc' = AfterSleep /\ UNCHANGED <<upc, ufut>>
     ELSE spc' = "select" /\ upc' = "create" /\ ufut' = "none"
  /\ UNCHANGED <<paused, ctl, toggles, wpc, at, waited, fut, seen,
                 loopVars, sleepVars, total, stop, late>>

\* The head of its loop; the futures of the select! are new ones.
Sleep ==
  /\ spc = "sleep"
  /\ IF left = 0
     THEN spc' = AfterSleep /\ UNCHANGED <<since, upc, ufut>>
     ELSE spc' = "select" /\ since' = 0 /\ upc' = "create" /\ ufut' = "none"
  /\ UNCHANGED <<paused, ctl, toggles, wpc, at, waited, fut, seen,
                 loopVars, left, rfut, slept, total, stop, late>>

TimerFires ==
  /\ spc = "select" /\ since >= left
  /\ spc' = AfterSleep
  /\ UNCHANGED <<vars, loopVars, sleepVars, total, stop, late>>

Watch ==
  /\ spc = "select" /\ WatcherStep
  /\ UNCHANGED retryVars

\* until_paused has returned: freeze.
Freeze ==
  /\ spc = "select" /\ upc = "returned"
  /\ spc' = "freeze"
  /\ left' = Greatest(left - since, 0)
  /\ UNCHANGED <<vars, loopVars, since, rfut, slept, total, stop, late>>

\* wait_if_paused of token 1.
FrozenCreate ==
  /\ spc = "freeze"
  /\ spc' = "frozen_check" /\ rfut' = "registered"
  /\ UNCHANGED <<vars, loopVars, left, since, slept, total, stop, late>>

FrozenCheck ==
  /\ spc = "frozen_check"
  /\ IF 1 \in paused
     THEN spc' = "frozen_await" /\ UNCHANGED rfut
     ELSE spc' = "sleep" /\ rfut' = "none"
  /\ UNCHANGED <<vars, loopVars, left, since, slept, total, stop, late>>

FrozenAwoken ==
  /\ spc = "frozen_await" /\ rfut = "woken"
  /\ spc' = "freeze" /\ rfut' = "none"
  /\ UNCHANGED <<vars, loopVars, left, since, slept, total, stop, late>>

\* Variant: a frozen sleep waits for the resume alone.
SleepCancelledAwake ==
  /\ spc = "select" /\ stop
  /\ spc' = "cancelled" /\ rfut' = "none"
  /\ UNCHANGED <<vars, loopVars, left, since, slept, total, stop, late>>

\* The cancellation branch of either select!.
SleepCancelled ==
  /\ spc \in {"select"} \cup Frozen /\ stop
  /\ spc' = "cancelled" /\ rfut' = "none"
  /\ UNCHANGED <<vars, loopVars, left, since, slept, total, stop, late>>

RetryStep ==
  \/ Begin \/ CheckCancel \/ Sleep \/ TimerFires \/ Watch \/ Freeze
  \/ FrozenCreate \/ FrozenCheck \/ FrozenAwoken \/ SleepCancelled

-----------------------------------------------------------------------------
(* Clock, host and the rest of the tokens' users                           *)

\* The schedule looks at the time.
Timed == sched.limits # {}

Tick ==
  /\ \/ spc = "select"
     \/ spc \in {"operation"} \cup Frozen /\ Timed /\ total < MaxTime
  /\ total' = IF Timed THEN Least(total + 1, MaxTime) ELSE total
  /\ since' = IF spc = "select" THEN Least(since + 1, left) ELSE since
  /\ slept' = IF spc = "select" THEN Least(slept + 1, delay) ELSE slept
  /\ UNCHANGED <<vars, loopVars, left, rfut, spc, stop, late>>

CancelRetry ==
  /\ ~stop /\ spc \notin Returned \cup {"absent"}
  /\ stop' = TRUE
  /\ UNCHANGED <<vars, loopVars, sleepVars, spc, total, late>>

\* pause and resume of the token of the call; notify_waiters also wakes the wait
\* inside the sleep.
RetryControl(c) ==
  \/ \E does \in {"pause", "resume"} : Store(c, 1, does) /\ UNCHANGED retryVars
  \/ /\ Notify(c)
     /\ rfut' = IF ctl[c].does = "resume" /\ ctl[c].on = 1 /\ rfut = "registered" THEN "woken" ELSE rfut
     /\ UNCHANGED <<loopVars, left, since, slept, spc, total, stop, late>>

RNext ==
  \/ spc = "absent" /\ Next /\ UNCHANGED retryVars
  \/ RetryStep \/ OperationEnds \/ OperationAgain \/ Tick \/ CancelRetry
  \/ spc # "absent" /\ \E c \in Controllers : RetryControl(c)

RSpec == RInit /\ [][RNext]_allVars

\* Tasks that can run are polled, time passes and started calls of pause and
\* resume finish.  Nothing obliges an operation to end.
RFairSpec ==
  /\ RSpec
  /\ WF_allVars(RetryStep /\ ~SleepCancelled)
  /\ WF_allVars(SleepCancelled)
  /\ WF_allVars(Tick)
  /\ WF_allVars(spc = "absent" /\ (Call \/ WaiterStep) /\ UNCHANGED retryVars)
  /\ WF_allVars(spc = "absent" /\ WatcherStep /\ UNCHANGED retryVars)
  /\ \A c \in Controllers :
       /\ WF_allVars(spc = "absent" /\ Notify(c) /\ UNCHANGED retryVars)
       /\ WF_allVars(spc # "absent" /\ ctl[c].does # "idle" /\ RetryControl(c))

-----------------------------------------------------------------------------
(* Properties                                                              *)

Positions == {"absent", "begin", "operation", "check_cancel"} \cup Sleeping \cup Returned

\* The types the proofs use, without the Boolean flag.
RetryShape ==
  /\ use \in DOMAIN Uses
  /\ spc \in Positions
  /\ attempt \in Nat /\ delay \in Nat
  /\ left \in Nat /\ since \in Nat /\ slept \in Nat /\ late \in Nat
  /\ total \in 0..MaxTime
  /\ rfut \in Future

RTypeOK == TypeOK /\ RetryShape /\ stop \in BOOLEAN

\* No notification is lost (PauseToken), and none that a frozen sleep waits for:
\* it awaits a registered future only while its token is paused or a resume
\* still owes its notification.
WakeupsKept ==
  /\ NoLostWakeup
  /\ spc = "frozen_await" /\ rfut # "woken" =>
       /\ rfut = "registered"
       /\ 1 \in paused \/ \E c \in Controllers : ctl[c] = [does |-> "resume", on |-> 1]

\* "Cancellation means stop - no post-cancel execution": after the cancellation
\* one operation at most begins, the first of the call or one whose is_cancelled
\* check came just before.  The loops over a RetryPolicy promise less: they do
\* not look again after the sleep.
CancelStopsAttempts == loop # "policy" => late <= 1

\* "Paused time does not count toward duration": between two attempts the call
\* has been awake for the whole delay of the first.
SleepsEnough == spc = "begin" /\ attempt > 0 => slept >= delay

\* "Done means stop - no final attempt after exhaustion", and no attempt less:
\* a call that ran out of attempts has made those its schedule grants, or fewer
\* because the time of a limit has elapsed.
AttemptsGranted ==
  spc = "exhausted" =>
    \/ attempt = sched.granted
    \/ /\ sched.granted = NoLimit \/ attempt < sched.granted
       /\ \E d \in sched.limits : total >= d

\* WaitersReturn of PauseToken, for its own users.
TokenWaitersReturn == spc = "absent" => WaitersReturn

\* "Cancel interrupts ... at any point", and a resume does: a sleep ends once
\* cancelled, even while paused for ever, and once the token stays unpaused.
SleepEnds ==
  /\ (spc \in Sleeping /\ stop) ~> spc \notin Sleeping
  /\ <>[](1 \notin paused) => []<>(spc \notin Sleeping)
=============================================================================
