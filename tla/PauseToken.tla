----------------------------- MODULE PauseToken -----------------------------
(***************************************************************************)
(* The pause tokens of agent-fw-algebra: pause and resume, the checkpoint  *)
(* wait_if_paused of a PauseToken and of a ComposedPauseToken, and         *)
(* until_paused.  pause and resume store the flag and then notify; a       *)
(* waiter creates its Notified future, checks the flag and then awaits.    *)
(* resume_all is a controller that resumes the constituents in turn.       *)
(***************************************************************************)
EXTENDS Integers

CONSTANTS NumTokens,    \* constituents of the composed token, in order
          Controllers,  \* threads that pause and resume
          MaxToggles    \* bound on the calls of pause and resume

Tokens == 1..NumTokens
ASSUME PauseAssumption == NumTokens \in Nat \ {0} /\ MaxToggles \in Nat

VARIABLES paused,   \* tokens whose flag is set
          ctl,      \* ctl[c]: the notification controller c still owes
          toggles,  \* calls of pause and resume so far
          wpc,      \* where the checkpoint is
          at,       \* the constituent it looks at
          waited,   \* any_waited
          fut,      \* its Notified future: none, registered or woken
          seen,     \* constituents unpaused at some instant since the call, or since it
                    \* last waited (history)
          upc,      \* where until_paused (on token 1) is
          ufut      \* its Notified future

vars == <<paused, ctl, toggles, wpc, at, waited, fut, seen, upc, ufut>>

Idle == [does |-> "idle", on |-> 1]
Future == {"none", "registered", "woken"}

\* The types the proofs use, without the Boolean flag.
Shape ==
  /\ paused \subseteq Tokens
  /\ ctl \in [Controllers -> [does : {"idle", "pause", "resume"}, on : Tokens]]
  /\ toggles \in 0..MaxToggles
  /\ wpc \in {"idle", "check", "create", "recheck", "await", "returned"}
  /\ at \in 1..(NumTokens + 1)
  /\ fut \in Future
  /\ upc \in {"create", "recheck", "await", "returned"}
  /\ ufut \in Future
  /\ seen \subseteq Tokens

TypeOK == Shape /\ waited \in BOOLEAN

Init ==
  /\ paused = {}
  /\ ctl = [c \in Controllers |-> Idle]
  /\ toggles = 0
  /\ wpc = "idle" /\ at = 1 /\ waited = FALSE /\ fut = "none" /\ seen = {}
  /\ upc = "create" /\ ufut = "none"

AllUnpaused == paused = {}

-----------------------------------------------------------------------------
(* Controllers                                                             *)

\* pause() or resume() stores the flag,
Store(c, t, does) ==
  /\ ctl[c].does = "idle" /\ toggles < MaxToggles
  /\ toggles' = toggles + 1
  /\ paused' = IF does = "pause" THEN paused \cup {t} ELSE paused \ {t}
  /\ ctl' = [ctl EXCEPT ![c] = [does |-> does, on |-> t]]
  /\ seen' = seen \cup (Tokens \ paused')
  /\ UNCHANGED <<wpc, at, waited, fut, upc, ufut>>

\* ... and then wakes the futures that exist: notify_waiters of pause_notify or
\* of notify.
Notify(c) ==
  /\ ctl[c].does # "idle"
  /\ ctl' = [ctl EXCEPT ![c] = Idle]
  /\ fut' = IF ctl[c].does = "resume" /\ ctl[c].on = at /\ fut = "registered" THEN "woken" ELSE fut
  /\ ufut' = IF ctl[c].does = "pause" /\ ctl[c].on = 1 /\ ufut = "registered" THEN "woken" ELSE ufut
  /\ UNCHANGED <<paused, toggles, wpc, at, waited, seen, upc>>

-----------------------------------------------------------------------------
(* ComposedPauseToken::wait_if_paused                                      *)

Call ==
  /\ wpc = "idle"
  /\ wpc' = "check" /\ at' = 1 /\ waited' = FALSE /\ seen' = Tokens \ paused
  /\ UNCHANGED <<paused, ctl, toggles, fut, upc, ufut>>

\* The sweep: is_paused of the next constituent.
Check ==
  /\ wpc = "check" /\ at <= NumTokens
  /\ IF at \in paused THEN wpc' = "create" /\ UNCHANGED at ELSE at' = at + 1 /\ UNCHANGED wpc
  /\ UNCHANGED <<paused, ctl, toggles, waited, fut, seen, upc, ufut>>

\* A variant with a single sweep.
SweepEndsOnce ==
  /\ wpc = "check" /\ at = NumTokens + 1
  /\ wpc' = "returned"
  /\ UNCHANGED <<paused, ctl, toggles, at, waited, fut, seen, upc, ufut>>

\* The end of a sweep: once more if it waited, else return.
SweepEnds ==
  /\ wpc = "check" /\ at = NumTokens + 1
  /\ IF waited THEN at' = 1 /\ waited' = FALSE /\ UNCHANGED wpc
               ELSE wpc' = "returned" /\ UNCHANGED <<at, waited>>
  /\ UNCHANGED <<paused, ctl, toggles, fut, seen, upc, ufut>>

\* PauseToken::wait_if_paused: the future is created before the flag is read.
Create ==
  /\ wpc = "create"
  /\ wpc' = "recheck" /\ fut' = "registered"
  /\ UNCHANGED <<paused, ctl, toggles, at, waited, seen, upc, ufut>>

\* A variant whose future is created by the await.
RecheckThenCreate ==
  /\ wpc = "recheck"
  /\ IF at \in paused THEN wpc' = "await" /\ UNCHANGED <<at, waited>>
                   ELSE wpc' = "check" /\ at' = at + 1 /\ waited' = TRUE
  /\ seen' = IF at \in paused THEN seen ELSE Tokens \ paused
  /\ fut' = "none"
  /\ UNCHANGED <<paused, ctl, toggles, upc, ufut>>

Recheck ==
  /\ wpc = "recheck"
  /\ IF at \in paused
     THEN wpc' = "await" /\ UNCHANGED <<at, waited, fut, seen>>
     ELSE wpc' = "check" /\ at' = at + 1 /\ waited' = TRUE /\ fut' = "none" /\ seen' = Tokens \ paused
  /\ UNCHANGED <<paused, ctl, toggles, upc, ufut>>

Awoken ==
  /\ wpc = "await" /\ fut = "woken"
  /\ wpc' = "create" /\ fut' = "none"
  /\ UNCHANGED <<paused, ctl, toggles, at, waited, seen, upc, ufut>>

WaiterStep == Check \/ SweepEnds \/ Create \/ Recheck \/ Awoken

-----------------------------------------------------------------------------
(* PauseToken::until_paused                                                *)

UntilCreate ==
  /\ upc = "create"
  /\ upc' = "recheck" /\ ufut' = "registered"
  /\ UNCHANGED <<paused, ctl, toggles, wpc, at, waited, fut, seen>>

\* A variant that loses the future it created before the check.
UntilRecheckFirst ==
  /\ upc = "recheck"
  /\ upc' = IF 1 \in paused THEN "returned" ELSE "await"
  /\ ufut' = "none"
  /\ UNCHANGED <<paused, ctl, toggles, wpc, at, waited, fut, seen>>

UntilRecheck ==
  /\ upc = "recheck"
  /\ upc' = IF 1 \in paused THEN "returned" ELSE "await"
  /\ UNCHANGED <<paused, ctl, toggles, wpc, at, waited, fut, seen, ufut>>

UntilAwoken ==
  /\ upc = "await" /\ ufut = "woken"
  /\ upc' = "create" /\ ufut' = "none"
  /\ UNCHANGED <<paused, ctl, toggles, wpc, at, waited, fut, seen>>

WatcherStep == UntilCreate \/ UntilRecheck \/ UntilAwoken

-----------------------------------------------------------------------------
Next ==
  \/ \E c \in Controllers :
       \/ \E t \in Tokens, does \in {"pause", "resume"} : Store(c, t, does)
       \/ Notify(c)
  \/ Call \/ WaiterStep \/ WatcherStep

Spec == Init /\ [][Next]_vars

\* Started calls of pause and resume finish, and woken tasks are polled.
FairSpec == /\ Spec /\ WF_vars(Call \/ WaiterStep) /\ WF_vars(WatcherStep)
            /\ \A c \in Controllers : WF_vars(Notify(c))

-----------------------------------------------------------------------------
(* Properties                                                              *)

\* "to avoid a TOCTOU race where a resume notification is lost": a checkpoint
\* sleeps on a registered future only while its token is paused or a resume
\* still owes its notification; the same of until_paused.
NoLostWakeup ==
  /\ wpc = "await" /\ fut # "woken" =>
       /\ fut = "registered"
       /\ at \in paused \/ \E c \in Controllers : ctl[c] = [does |-> "resume", on |-> at]
  /\ upc = "await" /\ ufut # "woken" =>
       /\ ufut = "registered"
       /\ 1 \notin paused \/ \E c \in Controllers : ctl[c] = [does |-> "pause", on |-> 1]

\* NoLostWakeup is inductive with what the program counters say of the futures.
WakeupInv ==
  /\ NoLostWakeup
  /\ wpc \in {"create", "recheck", "await"} => at \in Tokens
  /\ wpc = "recheck" => fut \in {"registered", "woken"}
  /\ upc = "recheck" => ufut \in {"registered", "woken"}

\* Nobody sleeps on: once the tokens stay unpaused the checkpoint returns, and
\* once token 1 stays paused until_paused returns (L9).
WaitersReturn ==
  /\ <>[]AllUnpaused => <>(wpc = "returned")
  /\ <>[](1 \in paused) => <>(upc = "returned")

\* "Loops until a full pass through every token finds none paused": when the
\* checkpoint returns, each constituent has been unpaused at some instant since
\* the call last waited for one of them, so that none of these observations is
\* older than a wait.  (Not all at the same instant: the last sweep passes each
\* of them at a moment of its own.)
CheckpointHonoured == wpc = "returned" => seen = Tokens
=============================================================================
