------------------------------- MODULE EvalRun -------------------------------
(***************************************************************************)
(* EvalOrchestrator::run of agent-fw-eval: the test cases one after the    *)
(* other, their samples, the best-effort writes to the KV store and to the *)
(* workspace, and the events, while somebody pauses, resumes and cancels   *)
(* the run.  An emit is one step: it does not suspend, and SequencedBus    *)
(* keeps the order.                                                        *)
(***************************************************************************)
EXTENDS Integers, Sequences

CONSTANTS NumCases,    \* test cases of the plan
          NumSamples,  \* samples_per_case
          MaxToggles   \* bound on pause and resume

ASSUME EvalAssumption == {NumCases, NumSamples, MaxToggles} \subseteq Nat /\ NumSamples > 0

Cases == 1..NumCases
TheRun == 0

VARIABLES pc,         \* where run is
          tc,         \* the current test case
          done,       \* done[i]: samples of test case i that were scored
          sent,       \* events emitted
          kvRun,      \* status of the run in the KV store
          kvResult,   \* test cases whose result is in the KV store
          workspace,  \* status of the run in the workspace
          wsResult,   \* test cases whose result is in the workspace
          failed,     \* test cases with a KV write that failed, TheRun for the run (history)
          paused, cancelled, toggles,
          late        \* samples that end after the cancellation (history)

storeVars == <<kvRun, kvResult, workspace, wsResult, failed>>
envVars == <<paused, cancelled, toggles>>
vars == <<pc, tc, done, sent, storeVars, envVars, late>>

Ev(kind, i) == [kind |-> kind, case |-> i]
Kinds == {"started", "case_started", "sample_complete", "sample_progress", "progress",
          "case_complete", "completed", "error"}
Event == [kind : Kinds, case : 0..NumCases]
Terminal == {"completed", "error"}
Returned == {"ok", "cancelled"}

TypeOK ==
  /\ pc \in {"start", "ws_start", "running", "case", "pause", "sample", "execute", "case_put",
             "case_done", "ws_final", "cancel_put"} \cup Returned
  /\ tc \in 1..(NumCases + 1)
  /\ done \in [Cases -> 0..NumSamples]
  /\ sent \in Seq(Event)
  /\ kvRun \in {"none", "queued", "running", "completed", "cancelled"}
  /\ {kvResult, wsResult} \subseteq SUBSET Cases /\ failed \subseteq Cases \cup {TheRun}
  /\ workspace \in {"none", "queued", "completed"}
  /\ {paused, cancelled} \subseteq BOOLEAN
  /\ toggles \in 0..MaxToggles /\ late \in Nat

Init ==
  /\ pc = "start" /\ tc = 1 /\ done = [i \in Cases |-> 0] /\ sent = <<>>
  /\ kvRun = "none" /\ kvResult = {} /\ workspace = "none" /\ wsResult = {} /\ failed = {}
  /\ paused = FALSE /\ cancelled = FALSE /\ toggles = 0 /\ late = 0

-----------------------------------------------------------------------------
(* run                                                                     *)

Emit(events) == sent' = sent \o events

\* persist_run_kv: a failed write is logged.
PersistRun(status) ==
  \/ kvRun' = status /\ UNCHANGED failed
  \/ failed' = failed \cup {TheRun} /\ UNCHANGED kvRun

\* The workspace is optional and its errors are logged.
PersistWorkspace(status) == workspace' \in {workspace, status}

Start ==
  /\ pc = "start"
  /\ PersistRun("queued")
  /\ pc' = "ws_start"
  /\ UNCHANGED <<tc, done, sent, kvResult, workspace, wsResult, envVars, late>>

WsStart ==
  /\ pc = "ws_start"
  /\ PersistWorkspace("queued")
  /\ Emit(<<Ev("started", 0)>>)
  /\ pc' = "running"
  /\ UNCHANGED <<tc, done, kvRun, kvResult, wsResult, failed, envVars, late>>

SetRunning ==
  /\ pc = "running"
  /\ PersistRun("running")
  /\ pc' = "case"
  /\ UNCHANGED <<tc, done, sent, kvResult, workspace, wsResult, envVars, late>>

\* The check before a test case.
CaseCheck ==
  /\ pc = "case" /\ tc <= NumCases
  /\ pc' = IF cancelled THEN "cancel_put" ELSE "pause"
  /\ UNCHANGED <<tc, done, sent, storeVars, envVars, late>>

\* A variant that does not listen to the cancellation while it is paused.
PauseDeaf ==
  /\ pc = "pause"
  /\ ~paused /\ pc' = "sample" /\ Emit(<<Ev("case_started", tc)>>)
  /\ UNCHANGED <<tc, done, storeVars, envVars, late>>

\* select! of wait_if_paused and the cancellation, not biased.
Pause ==
  /\ pc = "pause"
  /\ \/ ~paused /\ pc' = "sample" /\ Emit(<<Ev("case_started", tc)>>)
     \/ cancelled /\ pc' = "cancel_put" /\ UNCHANGED sent
  /\ UNCHANGED <<tc, done, storeVars, envVars, late>>

\* A variant that leaves the last sample out.
SampleCheckShort ==
  /\ pc = "sample"
  /\ pc' = IF cancelled \/ done[tc] >= NumSamples - 1 THEN "case_put" ELSE "execute"
  /\ UNCHANGED <<tc, done, sent, storeVars, envVars, late>>

\* A variant without the check between the samples.
SampleCheckDeaf ==
  /\ pc = "sample"
  /\ pc' = IF done[tc] = NumSamples THEN "case_put" ELSE "execute"
  /\ UNCHANGED <<tc, done, sent, storeVars, envVars, late>>

SampleCheck ==
  /\ pc = "sample"
  /\ pc' = IF cancelled \/ done[tc] = NumSamples THEN "case_put" ELSE "execute"
  /\ UNCHANGED <<tc, done, sent, storeVars, envVars, late>>

\* execute_and_score_sample: a sample that fails, times out or is cancelled
\* counts too, with score zero.
ScoreSample(i) == done' = [done EXCEPT ![i] = @ + 1]

Execute ==
  /\ pc = "execute"
  /\ ScoreSample(tc)
  /\ Emit(<<Ev("sample_complete", tc), Ev("sample_progress", tc), Ev("progress", tc)>>)
  /\ pc' = "sample"
  /\ late' = IF cancelled THEN late + 1 ELSE late
  /\ UNCHANGED <<tc, storeVars, envVars>>

\* persist_tc_result_kv: a failed write is logged.
PersistResult(i) ==
  \/ kvResult' = kvResult \cup {i} /\ UNCHANGED failed
  \/ failed' = failed \cup {i} /\ UNCHANGED kvResult

\* A variant that announces the result and stores it afterwards.
CasePutLate ==
  /\ pc = "case_put"
  /\ Emit(<<Ev("case_complete", tc)>>)
  /\ pc' = "case_done"
  /\ UNCHANGED <<tc, done, storeVars, envVars, late>>

CasePut ==
  /\ pc = "case_put"
  /\ PersistResult(tc)
  /\ pc' = "case_done"
  /\ UNCHANGED <<tc, done, sent, kvRun, workspace, wsResult, envVars, late>>

\* The result goes to the workspace too, best effort, and the case is announced.
CaseDone ==
  /\ pc = "case_done"
  /\ wsResult' \in {wsResult, wsResult \cup {tc}}
  /\ Emit(<<Ev("case_complete", tc)>>)
  /\ tc' = tc + 1
  /\ pc' = "case"
  /\ UNCHANGED <<done, kvRun, kvResult, workspace, failed, envVars, late>>

\* After the last test case the run is Completed.
Finalise ==
  /\ pc = "case" /\ tc = NumCases + 1
  /\ PersistRun("completed")
  /\ pc' = "ws_final"
  /\ UNCHANGED <<tc, done, sent, kvResult, workspace, wsResult, envVars, late>>

WsFinal ==
  /\ pc = "ws_final"
  /\ PersistWorkspace("completed")
  /\ Emit(<<Ev("completed", 0)>>)
  /\ pc' = "ok"
  /\ UNCHANGED <<tc, done, kvRun, kvResult, wsResult, failed, envVars, late>>

\* A variant that returns without its last event.
CancelPutSilent ==
  /\ pc = "cancel_put"
  /\ PersistRun("cancelled")
  /\ pc' = "cancelled"
  /\ UNCHANGED <<tc, done, sent, kvResult, workspace, wsResult, envVars, late>>

CancelPut ==
  /\ pc = "cancel_put"
  /\ PersistRun("cancelled")
  /\ Emit(<<Ev("error", 0)>>)
  /\ pc' = "cancelled"
  /\ UNCHANGED <<tc, done, kvResult, workspace, wsResult, envVars, late>>

RunStep == \/ Start \/ WsStart \/ SetRunning \/ CaseCheck \/ Pause \/ SampleCheck \/ Execute
           \/ CasePut \/ CaseDone \/ Finalise \/ WsFinal \/ CancelPut

-----------------------------------------------------------------------------
(* Its controllers                                                         *)

Toggle ==
  /\ toggles < MaxToggles /\ toggles' = toggles + 1
  /\ paused' = ~paused
  /\ UNCHANGED <<pc, tc, done, sent, storeVars, cancelled, late>>

Cancel ==
  /\ ~cancelled /\ cancelled' = TRUE
  /\ UNCHANGED <<pc, tc, done, sent, storeVars, paused, toggles, late>>

Next == RunStep \/ Toggle \/ Cancel

Spec == Init /\ [][Next]_vars

\* run is polled, its KV calls return and its samples end.
FairSpec == Spec /\ WF_vars(RunStep)

-----------------------------------------------------------------------------
(* Properties                                                              *)

Announced(kind) == {sent[i].case : i \in {j \in DOMAIN sent : sent[j].kind = kind}}

\* L3 per test case ("Persist before moving to next test case"): a completed
\* test case that anybody hears of is in the KV store, or that write failed.
AnnouncedIsStored == Announced("case_complete") \subseteq kvResult \cup failed

\* L2: a run is stored as Completed only when every sample of every test case
\* was scored, unless it was cancelled meanwhile, and the workspace never gets
\* ahead of the KV store.
CompletedIsComplete ==
  /\ kvRun = "completed" => cancelled \/ \A i \in Cases : done[i] = NumSamples
  /\ workspace = "completed" => kvRun = "completed" \/ TheRun \in failed

\* L4: at most the sample in flight is executed after the cancellation.
CancelStopsSamples == late <= 1

\* "Streams terminate with a terminal event for completed, failed, or cancelled
\* runs": a run has sent one exactly when it has returned, and nothing after it.
TerminalEventLast ==
  LET terminal == {i \in DOMAIN sent : sent[i].kind \in Terminal}
  IN terminal = IF pc \in Returned THEN {Len(sent)} ELSE {}

\* L2: run returns, unless it stays paused; a cancellation ends it even then.
RunReturns == (<>[]~paused \/ <>cancelled) => <>(pc \in Returned)

\* "Returns the run summary on success, or an error if cancelled/failed": a run
\* stored as Completed has all its samples.
CompletedHasAllSamples == kvRun = "completed" => \A i \in Cases : done[i] = NumSamples

-----------------------------------------------------------------------------
(* The invariant behind CompletedIsComplete and CancelStopsSamples.        *)
RunInv ==
  /\ tc \in 1..(NumCases + 1)
  /\ done \in [Cases -> 0..NumSamples]
  /\ late \in 0..1
  /\ \A i \in Cases : i < tc => cancelled \/ done[i] = NumSamples
  /\ pc \in {"pause", "sample", "execute", "case_put", "case_done"} => tc \in Cases
  /\ pc \in {"case_put", "case_done"} => cancelled \/ done[tc] = NumSamples
  /\ pc = "execute" => done[tc] < NumSamples
  /\ pc \in {"ws_final", "ok"} => tc = NumCases + 1 /\ (kvRun = "completed" \/ TheRun \in failed)
  /\ kvRun = "completed" => pc \in {"ws_final", "ok"}
  /\ workspace = "completed" => pc = "ok"
  /\ late > 0 => cancelled /\ pc \notin {"pause", "execute"}
=============================================================================
