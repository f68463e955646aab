---------------------------- MODULE EvalRunProofs ----------------------------
(***************************************************************************)
(* What a stored Completed means, what a cancellation stops and what the   *)
(* events say, for any number of test cases and samples.                   *)
(***************************************************************************)
EXTENDS EvalRun, TLAPS

\* Every step keeps the samples, the stored status and the late sample in step.
LEMMA RunStepKeeps == RunInv /\ [Next]_vars => RunInv'
<1> SUFFICES ASSUME RunInv, [Next]_vars PROVE RunInv'
  OBVIOUS
<1> USE EvalAssumption DEF RunInv, Cases, TheRun, storeVars, envVars
<1>1. ASSUME Start \/ WsStart \/ SetRunning PROVE RunInv'
  BY <1>1 DEF Start, WsStart, SetRunning, PersistRun, PersistWorkspace
<1>2. ASSUME CaseCheck PROVE RunInv'
  BY <1>2 DEF CaseCheck
<1>3. ASSUME Pause PROVE RunInv'
  BY <1>3 DEF Pause
<1>4. ASSUME SampleCheck PROVE RunInv'
  BY <1>4 DEF SampleCheck
<1>5. ASSUME Execute PROVE RunInv'
  BY SMTT(30), <1>5 DEF Execute, ScoreSample
<1>6. ASSUME CasePut PROVE RunInv'
  BY <1>6 DEF CasePut, PersistResult
<1>7. ASSUME CaseDone PROVE RunInv'
  BY <1>7 DEF CaseDone
<1>8. ASSUME Finalise \/ WsFinal PROVE RunInv'
  BY <1>8 DEF Finalise, WsFinal, PersistRun, PersistWorkspace
<1>9. ASSUME CancelPut PROVE RunInv'
  BY <1>9 DEF CancelPut, PersistRun
<1>10. ASSUME Toggle \/ Cancel PROVE RunInv'
  BY <1>10 DEF Toggle, Cancel
<1>11. ASSUME UNCHANGED vars PROVE RunInv'
  BY <1>11 DEF vars
<1>12. QED
  BY <1>1, <1>2, <1>3, <1>4, <1>5, <1>6, <1>7, <1>8, <1>9, <1>10, <1>11
  DEF Next, RunStep

\* RunInv holds of every run.
LEMMA RunInvariant == Spec => []RunInv
<1>1. Init => RunInv
  BY EvalAssumption DEF Init, RunInv, Cases, TheRun
<1>2. QED
  BY <1>1, RunStepKeeps, PTL DEF Spec

\* A run that was not cancelled is stored as Completed only with all its
\* samples scored, and the workspace follows the KV store.
THEOREM CompletedComplete == Spec => []CompletedIsComplete
<1>1. RunInv => CompletedIsComplete
  BY EvalAssumption DEF RunInv, CompletedIsComplete, Cases, TheRun
<1>2. QED
  BY <1>1, RunInvariant, PTL

\* After the cancellation only the sample in flight ends.
THEOREM CancelStops == Spec => []CancelStopsSamples
<1>1. RunInv => CancelStopsSamples
  BY DEF RunInv, CancelStopsSamples
<1>2. QED
  BY <1>1, RunInvariant, PTL

-----------------------------------------------------------------------------
(* The event stream.                                                       *)

\* A run has ended its stream exactly when it has returned; the test cases it
\* announced are those it has passed, and their writes were tried.
StreamInv ==
  /\ sent \in Seq(Event)
  /\ kvResult \subseteq Cases /\ failed \subseteq Cases \cup {TheRun}
  /\ \A i \in 1..Len(sent) : sent[i].kind = "case_complete" => sent[i].case \in kvResult \cup failed
  /\ pc = "case_done" => tc \in kvResult \cup failed
  /\ \A i \in 1..Len(sent) : sent[i].kind \in Terminal <=> pc \in Returned /\ i = Len(sent)
  /\ pc \in Returned => Len(sent) > 0

\* What an emitted event must be for the stream to stay in order.
LEMMA EmitKeeps ==
  ASSUME StreamInv, NEW k \in Kinds, NEW c \in 0..NumCases, Emit(<<Ev(k, c)>>),
         pc \notin Returned, pc' # "case_done",
         kvResult' = kvResult, failed' \in {failed, failed \cup {TheRun}},
         k \in Terminal <=> pc' \in Returned,
         k = "case_complete" => c \in kvResult \cup failed
  PROVE  StreamInv'
<1> DEFINE e == Ev(k, c)
<1>1. e \in Event /\ e.kind = k /\ e.case = c
  BY DEF Ev, Event
<1> HIDE DEF e
<1>2. sent \in Seq(Event) /\ sent' = sent \o <<e>>
  BY DEF StreamInv, Emit, e
<1>3. /\ sent' \in Seq(Event) /\ Len(sent) \in Nat /\ Len(sent') = Len(sent) + 1
      /\ \A i \in 1..Len(sent) : sent'[i] = sent[i]
      /\ sent'[Len(sent')] = e
  BY <1>1, <1>2
<1>4. \A i \in 1..Len(sent') : i = Len(sent') \/ (i \in 1..Len(sent) /\ i # Len(sent'))
  BY <1>3
<1>5. kvResult' \subseteq Cases /\ failed' \subseteq Cases \cup {TheRun} /\ failed \subseteq failed'
  BY DEF StreamInv
<1>6. \A i \in 1..Len(sent') : sent'[i].kind = "case_complete" => sent'[i].case \in kvResult' \cup failed'
  BY <1>1, <1>3, <1>4, <1>5 DEF StreamInv
<1>7. \A i \in 1..Len(sent') : sent'[i].kind \in Terminal <=> pc' \in Returned /\ i = Len(sent')
  BY <1>1, <1>3, <1>4 DEF StreamInv
<1>8. QED
  BY <1>3, <1>5, <1>6, <1>7 DEF StreamInv

\* Every step keeps the event stream in order.
LEMMA StreamStep == RunInv /\ StreamInv /\ [Next]_vars => StreamInv'
<1> SUFFICES ASSUME RunInv, StreamInv, [Next]_vars PROVE StreamInv'
  OBVIOUS
<1> USE EvalAssumption
<1>c. tc \in Cases => tc \in 0..NumCases
  BY DEF Cases
<1>1. ASSUME Start \/ SetRunning \/ Finalise PROVE StreamInv'
  BY <1>1 DEF Start, SetRunning, Finalise, PersistRun, StreamInv, Returned
<1>2. ASSUME WsStart PROVE StreamInv'
  BY <1>2, EmitKeeps DEF WsStart, Kinds, Terminal, Returned
<1>3. ASSUME CaseCheck \/ SampleCheck PROVE StreamInv'
  BY <1>3 DEF CaseCheck, SampleCheck, StreamInv, Returned, storeVars
<1>4. ASSUME Pause PROVE StreamInv'
  <2>1. CASE UNCHANGED sent
    BY <1>4, <2>1 DEF Pause, StreamInv, Returned, storeVars
  <2>2. CASE Emit(<<Ev("case_started", tc)>>)
    <3>1. /\ pc = "pause" /\ pc' \in {"sample", "cancel_put"} /\ tc \in Cases
          /\ UNCHANGED <<kvResult, failed>>
      BY <1>4 DEF Pause, RunInv, storeVars
    <3>2. QED
      BY <2>2, <3>1, <1>c, EmitKeeps DEF Kinds, Terminal, Returned
  <2>3. QED
    BY <1>4, <2>1, <2>2 DEF Pause
<1>5. ASSUME Execute PROVE StreamInv'
  <2>1. /\ pc = "execute" /\ pc' = "sample" /\ UNCHANGED <<kvResult, failed>> /\ tc \in Cases
        /\ sent' = sent \o <<Ev("sample_complete", tc), Ev("sample_progress", tc), Ev("progress", tc)>>
    BY <1>5 DEF Execute, Emit, RunInv, storeVars
  <2>2. /\ Ev("sample_complete", tc) \in Event /\ Ev("sample_progress", tc) \in Event
        /\ Ev("progress", tc) \in Event
    BY <2>1, <1>c DEF Kinds, Ev, Event
  <2>3. /\ sent' \in Seq(Event) /\ Len(sent) \in Nat /\ Len(sent') = Len(sent) + 3
        /\ \A j \in 1..Len(sent) : sent'[j] = sent[j]
        /\ sent'[Len(sent) + 1] = Ev("sample_complete", tc)
        /\ sent'[Len(sent) + 2] = Ev("sample_progress", tc)
        /\ sent'[Len(sent) + 3] = Ev("progress", tc)
    BY <2>1, <2>2 DEF StreamInv
  <2>4. \A j \in 1..Len(sent') : j \in 1..Len(sent) \/ j \in {Len(sent) + 1, Len(sent) + 2, Len(sent) + 3}
    BY <2>3
  <2>5. \A j \in 1..Len(sent') : j \in 1..Len(sent)
          \/ sent'[j].kind \in {"sample_complete", "sample_progress", "progress"}
    BY <2>3, <2>4 DEF Ev
  <2>6. QED
    BY <2>1, <2>3, <2>5 DEF StreamInv, Terminal, Returned
<1>6. ASSUME CasePut PROVE StreamInv'
  BY <1>6 DEF CasePut, PersistResult, RunInv, StreamInv, Returned
<1>7. ASSUME CaseDone PROVE StreamInv'
  <2>1. /\ Emit(<<Ev("case_complete", tc)>>) /\ pc = "case_done" /\ pc' = "case"
        /\ UNCHANGED <<kvResult, failed>> /\ tc \in Cases /\ tc \in kvResult \cup failed
    BY <1>7 DEF CaseDone, RunInv, StreamInv
  <2>2. QED
    BY <2>1, <1>c, EmitKeeps DEF Kinds, Terminal, Returned
<1>9. ASSUME WsFinal PROVE StreamInv'
  BY <1>9, EmitKeeps DEF WsFinal, Kinds, Terminal, Returned
<1>10. ASSUME CancelPut PROVE StreamInv'
  BY <1>10, EmitKeeps DEF CancelPut, PersistRun, Kinds, Terminal, Returned
<1>11. ASSUME Toggle \/ Cancel \/ UNCHANGED vars PROVE StreamInv'
  BY <1>11 DEF Toggle, Cancel, vars, StreamInv, storeVars
<1>12. QED
  BY <1>1, <1>2, <1>3, <1>4, <1>5, <1>6, <1>7, <1>9, <1>10, <1>11 DEF Next, RunStep

\* StreamInv holds of every run.
LEMMA StreamInvariant == Spec => []StreamInv
<1>1. Init => StreamInv
  BY DEF Init, StreamInv, Returned
<1>2. QED
  BY <1>1, StreamStep, RunInvariant, PTL DEF Spec

\* A test case announced as complete is in the KV store, or its write failed.
THEOREM AnnouncementsStored == Spec => []AnnouncedIsStored
<1>1. StreamInv => AnnouncedIsStored
  BY DEF StreamInv, AnnouncedIsStored, Announced
<1>2. QED
  BY <1>1, StreamInvariant, PTL

\* A run sends its terminal event exactly when it returns, and nothing after it.
THEOREM StreamTerminates == Spec => []TerminalEventLast
<1>1. StreamInv => TerminalEventLast
  <2> SUFFICES ASSUME StreamInv PROVE TerminalEventLast
    OBVIOUS
  <2>1. DOMAIN sent = 1..Len(sent) /\ Len(sent) \in Nat
    BY DEF StreamInv
  <2>2. CASE pc \in Returned
    <3>1. \A i \in 1..Len(sent) : sent[i].kind \in Terminal <=> i = Len(sent)
      BY <2>2 DEF StreamInv
    <3>2. Len(sent) \in 1..Len(sent)
      <4>1. Len(sent) > 0
        BY <2>2 DEF StreamInv
      <4>2. QED
        BY <2>1, <4>1
    <3>3. {i \in DOMAIN sent : sent[i].kind \in Terminal} = {Len(sent)}
      BY <2>1, <3>1, <3>2
    <3>4. QED
      BY <2>2, <3>3 DEF TerminalEventLast
  <2>3. CASE pc \notin Returned
    <3>1. {i \in DOMAIN sent : sent[i].kind \in Terminal} = {}
      BY <2>1, <2>3 DEF StreamInv
    <3>2. QED
      BY <2>3, <3>1 DEF TerminalEventLast
  <2>4. QED
    BY <2>2, <2>3
<1>2. QED
  BY <1>1, StreamInvariant, PTL

\* Every variable keeps its type.
THEOREM TypeCorrect == Spec => []TypeOK
<1> DEFINE Rest == /\ pc \in {"start", "ws_start", "running", "case", "pause", "sample", "execute",
                              "case_put", "case_done", "ws_final", "cancel_put"} \cup Returned
                   /\ kvRun \in {"none", "queued", "running", "completed", "cancelled"}
                   /\ workspace \in {"none", "queued", "completed"}
                   /\ wsResult \subseteq Cases /\ toggles \in 0..MaxToggles
           Flags == paused \in BOOLEAN /\ cancelled \in BOOLEAN
<1>1. Init => Rest
  BY EvalAssumption DEF Init
<1>2. RunInv /\ Rest /\ [Next]_vars => Rest'
  BY EvalAssumption DEF RunInv, Next, RunStep, Start, WsStart, SetRunning, CaseCheck, Pause, SampleCheck, Execute,
     CasePut, CaseDone, Finalise, WsFinal, CancelPut, Toggle, Cancel, PersistRun, PersistWorkspace,
     PersistResult, Returned, storeVars, envVars, vars
<1>3. Init => Flags
  BY Zenon DEF Init
<1>4. Flags /\ [Next]_vars => Flags'
  BY Zenon DEF Next, RunStep, Start, WsStart, SetRunning, CaseCheck, Pause, SampleCheck, Execute,
     CasePut, CaseDone, Finalise, WsFinal, CancelPut, Toggle, Cancel, envVars, vars
<1>5. RunInv /\ StreamInv /\ Rest /\ Flags => TypeOK
  <2>1. Flags => {paused, cancelled} \subseteq BOOLEAN
    BY Zenon
  <2> HIDE DEF Flags
  <2>2. QED
    BY <2>1 DEF RunInv, StreamInv, TypeOK
<1> HIDE DEF Rest, Flags
<1>6. QED
  BY <1>1, <1>2, <1>3, <1>4, <1>5, RunInvariant, StreamInvariant, PTL DEF Spec

-----------------------------------------------------------------------------
(* How much of a run is left                                               *)

CaseCost == 2 * NumSamples + 5

Ahead == CaseCost * (NumCases + 1 - tc)

\* A bound on the steps run still makes: one test case costs CaseCost of them.
StepsLeft ==
  CASE pc = "start" -> Ahead + 6
    [] pc = "ws_start" -> Ahead + 5
    [] pc = "running" -> Ahead + 4
    [] pc = "case" -> Ahead + 3
    [] pc = "pause" -> Ahead + 2
    [] pc = "sample" -> Ahead + 1 - 2 * done[tc]
    [] pc = "execute" -> Ahead - 2 * done[tc]
    [] pc = "case_put" -> Ahead - 2 * NumSamples
    [] pc = "case_done" -> Ahead - 2 * NumSamples - 1
    [] pc \in {"ws_final", "cancel_put"} -> 1
    [] OTHER -> 0

\* Every step of run brings it nearer to its end, whatever fails, and nobody who
\* pauses, resumes or cancels sets it back.
RunAdvances ==
  [][IF pc' = pc THEN StepsLeft' = StepsLeft ELSE StepsLeft' < StepsLeft]_vars

\* A run makes at most this many steps.
BoundedRun == StepsLeft \in 0..CaseCost * NumCases + 6

\* One test case less is CaseCost steps less.
LEMMA OneCaseLess ==
  ASSUME NEW w \in Nat, NEW k \in Nat
  PROVE  /\ w * k \in Nat /\ w * (k + 1) = w * k + w
         /\ k >= 1 => w * k >= w
<1>1. w * k \in Nat /\ w * (k + 1) = w * k + w
  OBVIOUS
<1>2. ASSUME k >= 1 PROVE w * k >= w
  <2>1. k - 1 \in Nat /\ w * (k - 1) \in Nat
    BY <1>2
  <2>2. w * ((k - 1) + 1) = w * (k - 1) + w /\ (k - 1) + 1 = k
    BY <2>1
  <2>3. QED
    BY <2>1, <2>2
<1>3. QED
  BY <1>1, <1>2

\* What is ahead of a run that is in a test case is at least that test case.
LEMMA AheadFacts ==
  ASSUME RunInv
  PROVE  /\ CaseCost \in Nat /\ CaseCost = 2 * NumSamples + 5 /\ NumSamples \in Nat
         /\ Ahead \in Nat
         /\ tc <= NumCases => Ahead >= CaseCost
<1>1. /\ NumCases \in Nat /\ NumSamples \in Nat /\ tc \in 1..(NumCases + 1)
      /\ CaseCost \in Nat /\ CaseCost = 2 * NumSamples + 5
  BY EvalAssumption DEF RunInv, CaseCost
<1>2. NumCases + 1 - tc \in Nat /\ (tc <= NumCases => NumCases + 1 - tc >= 1)
  BY <1>1
<1>3. QED
  BY <1>1, <1>2, OneCaseLess DEF Ahead

\* The positions run can be at.
Positions ==
  {"start", "ws_start", "running", "case", "pause", "sample", "execute", "case_put",
   "case_done", "ws_final", "cancel_put"} \cup Returned

\* The number of steps left is never negative.
LEMMA StepsLeftNat ==
  ASSUME RunInv, pc \in Positions
  PROVE  StepsLeft \in Nat
<1>1. /\ CaseCost \in Nat /\ CaseCost = 2 * NumSamples + 5 /\ NumSamples \in Nat
      /\ Ahead \in Nat
      /\ tc <= NumCases => Ahead >= CaseCost
  BY AheadFacts
<1>2. ASSUME pc \in {"sample", "execute", "case_put", "case_done"}
      PROVE  Ahead >= 2 * NumSamples + 5 /\ done[tc] \in 0..NumSamples
  BY <1>1, <1>2, EvalAssumption DEF RunInv, Cases
<1>3. QED
  BY <1>1, <1>2 DEF StepsLeft, Positions, Returned

\* Every step of run uses up at least one of the steps left.
LEMMA AdvanceStep ==
  ASSUME RunInv, pc \in Positions, [Next]_vars
  PROVE  IF pc' = pc THEN StepsLeft' = StepsLeft ELSE StepsLeft' < StepsLeft
<1> DEFINE Goal == IF pc' = pc THEN StepsLeft' = StepsLeft ELSE StepsLeft' < StepsLeft
<1>1. /\ CaseCost \in Nat /\ CaseCost = 2 * NumSamples + 5 /\ NumSamples \in Nat
      /\ Ahead \in Nat
      /\ tc <= NumCases => Ahead >= CaseCost
  BY AheadFacts
<1>2. tc' = tc => Ahead' = Ahead
  BY DEF Ahead, CaseCost
<1> USE EvalAssumption DEF StepsLeft, storeVars, envVars
<1>3. CASE Start \/ WsStart \/ SetRunning
  BY <1>1, <1>2, <1>3 DEF Start, WsStart, SetRunning
<1>4. CASE CaseCheck
  BY <1>1, <1>2, <1>4 DEF CaseCheck
<1>5. CASE Pause
  <2>1. tc \in Cases /\ done[tc] \in 0..NumSamples /\ tc <= NumCases
    BY <1>5 DEF Pause, RunInv, Cases
  <2>2. QED
    BY <1>1, <1>2, <1>5, <2>1 DEF Pause
<1>6. CASE SampleCheck \/ Execute \/ CasePut
  <2>1. tc \in Cases /\ done[tc] \in 0..NumSamples
    BY <1>6 DEF SampleCheck, Execute, CasePut, RunInv
  <2>2. CASE SampleCheck
    BY <1>1, <1>2, <2>1, <2>2 DEF SampleCheck
  <2>3. CASE Execute
    <3>1. done'[tc] = done[tc] + 1 /\ tc' = tc /\ pc = "execute" /\ pc' = "sample"
      BY <2>1, <2>3 DEF Execute, ScoreSample, RunInv
    <3>2. QED
      BY <1>1, <1>2, <2>1, <3>1
  <2>4. CASE CasePut
    BY <1>1, <1>2, <2>1, <2>4 DEF CasePut
  <2>5. QED
    BY <1>6, <2>2, <2>3, <2>4
<1>7. CASE CaseDone
  <2>1. tc' = tc + 1 /\ pc = "case_done" /\ pc' = "case" /\ tc \in 1..NumCases /\ NumCases \in Nat
    BY <1>7 DEF CaseDone, RunInv, Cases
  <2>2. NumCases - tc \in Nat /\ NumCases + 1 - tc = (NumCases - tc) + 1
        /\ NumCases + 1 - tc' = NumCases - tc
    BY <2>1
  <2>3. CaseCost' = CaseCost
    BY DEF CaseCost
  <2>4. Ahead = CaseCost * (NumCases - tc) + CaseCost /\ CaseCost * (NumCases - tc) \in Nat
    BY <1>1, <2>2, OneCaseLess DEF Ahead
  <2>5. Ahead' = CaseCost * (NumCases - tc)
    BY <2>2, <2>3 DEF Ahead
  <2>6. QED
    BY <1>1, <2>1, <2>4, <2>5
<1>8. CASE Finalise \/ WsFinal \/ CancelPut
  BY <1>1, <1>2, <1>8 DEF Finalise, WsFinal, CancelPut
<1>9. CASE Toggle \/ Cancel \/ UNCHANGED vars
  BY <1>2, <1>9 DEF Toggle, Cancel, vars
<1>10. QED
  <2> HIDE DEF StepsLeft
  <2> QED
    BY <1>3, <1>4, <1>5, <1>6, <1>7, <1>8, <1>9 DEF Next, RunStep

\* run stays at the positions it has.
LEMMA PositionsKept == RunInv /\ pc \in Positions /\ [Next]_vars => (pc \in Positions)'
BY DEF Positions, Returned, Next, RunStep, Start, WsStart, SetRunning, CaseCheck, Pause,
   SampleCheck, Execute, CasePut, CaseDone, Finalise, WsFinal, CancelPut, Toggle, Cancel, vars

\* run makes progress with every step it takes: the safety half of RunReturns.
THEOREM StepsMakeProgress == Spec => RunAdvances
<1>1. Init => pc \in Positions
  BY DEF Init, Positions
<1>2. RunInv /\ pc \in Positions /\ [Next]_vars
        => [IF pc' = pc THEN StepsLeft' = StepsLeft ELSE StepsLeft' < StepsLeft]_vars
  BY AdvanceStep
<1>3. QED
  BY <1>1, <1>2, PositionsKept, RunInvariant, PTL DEF Spec, RunAdvances

\* A run of NumCases test cases with NumSamples samples each takes at most
\* NumCases * (2 * NumSamples + 5) + 6 steps, however often it is paused.
THEOREM RunIsBounded == Spec => []BoundedRun
<1> DEFINE Top == CaseCost * NumCases + 6
           Inv == pc \in Positions /\ BoundedRun
<1>0. CaseCost \in Nat /\ NumCases \in Nat /\ CaseCost * NumCases \in Nat
  BY EvalAssumption, OneCaseLess DEF CaseCost
<1>1. Init => pc \in Positions /\ BoundedRun
  <2> SUFFICES ASSUME Init PROVE pc \in Positions /\ BoundedRun
    OBVIOUS
  <2>1. pc = "start" /\ NumCases + 1 - tc = NumCases
    BY <1>0 DEF Init
  <2>2. StepsLeft = CaseCost * NumCases + 6
    BY <2>1 DEF StepsLeft, Ahead
  <2>3. QED
    BY <1>0, <2>1, <2>2 DEF BoundedRun, Positions
<1>2. RunInv /\ Inv /\ [Next]_vars /\ (StepsLeft \in Nat)' => Inv'
  <2> SUFFICES ASSUME RunInv, Inv, [Next]_vars, StepsLeft' \in Nat PROVE Inv'
    OBVIOUS
  <2>1. pc' \in Positions
    BY PositionsKept
  <2>2. StepsLeft \in Nat /\ StepsLeft <= Top
    BY <1>0, StepsLeftNat DEF BoundedRun
  <2>3. StepsLeft' <= StepsLeft
    BY <2>2, AdvanceStep
  <2>4. BoundedRun'
    BY <1>0, <2>2, <2>3 DEF BoundedRun, CaseCost
  <2>5. QED
    BY <2>1, <2>4
<1>3. RunInv /\ pc \in Positions => StepsLeft \in Nat
  BY StepsLeftNat
<1>4. QED
  BY <1>1, <1>2, <1>3, PositionsKept, RunInvariant, PTL DEF Spec

=============================================================================
