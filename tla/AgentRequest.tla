---------------------------- MODULE AgentRequest ----------------------------
(* One request of the runtime (flowai-runtime query.rs): the driver task that*)
(* invokes the entry agent, AgentOrchestrator::invoke for it and for every   *)
(* agent it delegates to, the detached interpreter task of each invocation,  *)
(* the bounded channels between them, and the consumer that folds the stream *)
(* with StreamCapture.                                                       *)
(*                                                                           *)
(* Invocation 0 is the entry agent.  A tool call has a fresh number; one that*)
(* delegates is an invocation under that number.  An invocation i has two    *)
(* sides: invoke (pc), which reads the interpreter's channel and forwards to *)
(* the request channel, and the interpreter task (ipc), which talks to the   *)
(* provider.  A tool call runs in a task of its own (tpc), spawned by rig's  *)
(* tool server; the interpreter task only awaits its answer.  A cancelled    *)
(* interpreter drops that answer, never the call: the tool goes on, and so   *)
(* does the invoke of a delegation, which lives inside it.                   *)
(*                                                                           *)
(* Tool events reach the request channel twice: TracedHandler emits them     *)
(* directly, and the hook emits them on the interpreter's channel, from      *)
(* where invoke forwards them.                                               *)
EXTENDS StreamCapture

CONSTANTS
  MaxCalls,   \* bound on the tool calls of a request
  InnerCap,   \* capacity of an interpreter's channel (256 in the code)
  OutCap,     \* capacity of the request channel (1024 in the code)
  Stateful    \* which of "entry" and "delegate" remember their turns

ASSUME RequestAssumption ==
  /\ MaxCalls \in Nat
  /\ InnerCap \in Nat \ {0}
  /\ OutCap \in Nat \ {0}
  /\ Stateful \subseteq {"entry", "delegate"}

VARIABLES
  calls,      \* number of tool calls made so far
  owner,      \* the invocation that made a tool call
  pc,         \* position of invoke
  ipc,        \* position of the interpreter task
  tool,       \* the tool call whose answer its task awaits
  tpc,        \* position of the task of a tool call
  ich,        \* the channel of the task
  released,   \* invocations whose child token the bracket cancelled
  mem,        \* remembered turns per memory key
  got,        \* what append_turn read
  out,        \* the request channel
  driver,     \* the driver task
  consumer,   \* the reader of the stream
  cancelled,  \* the request's token
  errors,     \* whose Error parts it has read
  fate,       \* history: how the interpretation ended
  refused     \* history: whose Error part no channel took

vars == <<calls, owner, pc, ipc, tool, tpc, ich, released, mem, got, out, driver,
          consumer, cancelled, errors, fate, refused>>

Calls == 1..MaxCalls
Ids == 0..MaxCalls
Driver == MaxCalls + 1          \* the sender of the driver's own Error part
Keys == {"entry", "delegate"}

Key(i) == IF i = 0 THEN "entry" ELSE "delegate"

Live == {"loading", "streaming", "reading", "writing"}
Done == {"ok", "err"}

Parts == [t : {"call", "result", "agentCall", "agentResult", "error"},
          id : 0..MaxCalls + 1]

----------------------------------------------------------------------------
(* Channels.  try_send never waits: a full or abandoned channel refuses.     *)

Put(q, n, p) == IF Len(q) < n THEN Append(q, p) ELSE q

\* The request channel is open until the driver closes it or the reader is gone.
Open == driver \in {"building", "invoking"} /\ consumer # "gone"

\* Emit a part on the request channel; senders are marked if it is refused.
Emit(p, senders) ==
  /\ out' = IF Open THEN Put(out, OutCap, p) ELSE out
  /\ refused' = IF Open /\ Len(out) < OutCap THEN refused ELSE refused \cup senders

\* The receiver of a task's channel belongs to its invoke.
InnerPut(i, p) ==
  IF pc[i] \in Live THEN [ich EXCEPT ![i] = Put(@, InnerCap, p)] ELSE ich

InnerFull(i) == pc[i] \notin Live \/ Len(ich[i]) >= InnerCap

\* The task's token: a child of the request's, cancelled when its invoke ends.
Cancelled(i) == cancelled \/ i \in released

Init ==
  /\ calls = 0
  /\ owner = [c \in Calls |-> 0]
  /\ pc = [i \in Ids |-> "none"]
  /\ ipc = [i \in Ids |-> "none"]
  /\ tool = [i \in Ids |-> 0]
  /\ tpc = [c \in Calls |-> "none"]
  /\ ich = [i \in Ids |-> <<>>]
  /\ released = {}
  /\ mem = [k \in Keys |-> <<>>]
  /\ got = [i \in Ids |-> <<>>]
  /\ out = <<>>
  /\ driver = "building"
  /\ consumer = "reading"
  /\ cancelled = FALSE
  /\ errors = {}
  /\ fate = [i \in Ids |-> "none"]
  /\ refused = {}

taskVars == <<calls, owner, ipc, tool, tpc, fate>>
memVars == <<mem, got>>
outerVars == <<driver, consumer, cancelled, errors>>

----------------------------------------------------------------------------
(* The driver task and the building of the orchestrator.                     *)

\* invoke announced itself; a stateful agent loads its memory first, any other
\* starts its interpreter at once.
FirstPosition(i) == IF Key(i) \in Stateful THEN "loading" ELSE "streaming"
FirstTask(i) == IF Key(i) \in Stateful THEN "none" ELSE "start"

BuildFails ==
  /\ driver = "building"
  /\ Emit(Part("error", Driver), {Driver})
  /\ driver' = "closed"
  /\ UNCHANGED <<taskVars, memVars, pc, ich, released, consumer, cancelled, errors>>

InvokeEntry ==
  /\ driver = "building"
  /\ driver' = "invoking"
  /\ Emit(Part("agentCall", 0), {})
  /\ pc' = [pc EXCEPT ![0] = FirstPosition(0)]
  /\ ipc' = [ipc EXCEPT ![0] = FirstTask(0)]
  /\ UNCHANGED <<calls, owner, tool, tpc, fate, memVars, ich, released, consumer,
                 cancelled, errors>>

\* invoke gives up before its first await: the agent is not registered, or after
\* the announcement the conversation does not parse.  (For a delegation the
\* handler has looked the agent up and the prompt is a user message.)
EntryRefused ==
  /\ driver = "building"
  /\ driver' = "invoking"
  /\ UNCHANGED <<out, refused>> \/ Emit(Part("agentCall", 0), {})
  /\ pc' = [pc EXCEPT ![0] = "err"]
  /\ UNCHANGED <<taskVars, memVars, ich, released, consumer, cancelled, errors>>

\* Variant: the driver closes the channel and forgets the error.
DriverFailsSilently ==
  /\ driver = "invoking" /\ pc[0] = "err"
  /\ driver' = "closed"
  /\ UNCHANGED <<taskVars, memVars, pc, ich, released, consumer, cancelled, errors,
                 out, refused>>

\* The entry agent failed: the driver reports it and closes the channel.
DriverFails ==
  /\ driver = "invoking" /\ pc[0] = "err"
  /\ Emit(Part("error", Driver), {Driver})
  /\ driver' = "closed"
  /\ UNCHANGED <<taskVars, memVars, pc, ich, released, consumer, cancelled, errors>>

DriverCloses ==
  /\ driver = "invoking" /\ pc[0] = "ok"
  /\ driver' = "closed"
  /\ UNCHANGED <<taskVars, memVars, pc, ich, released, consumer, cancelled, errors,
                 out, refused>>

----------------------------------------------------------------------------
(* AgentOrchestrator::invoke, one step per await.                            *)

Load(i) ==
  /\ pc[i] = "loading"
  /\ pc' = [pc EXCEPT ![i] = "streaming"]
  /\ ipc' = [ipc EXCEPT ![i] = "start"]
  /\ UNCHANGED <<calls, owner, tool, tpc, fate, memVars, outerVars, ich, released, out, refused>>

\* A storage error in load or in append_turn; nothing but the Err is reported.
MemoryFails(i) ==
  /\ pc[i] \in {"loading", "reading", "writing"}
  /\ pc' = [pc EXCEPT ![i] = "err"]
  /\ UNCHANGED <<taskVars, memVars, outerVars, ich, released, out, refused>>

Forward(i) ==
  /\ pc[i] = "streaming"
  /\ ich[i] # <<>> /\ Head(ich[i]).t # "error"
  /\ Emit(Head(ich[i]), {})
  /\ ich' = [ich EXCEPT ![i] = Tail(@)]
  /\ UNCHANGED <<taskVars, memVars, outerVars, pc, released>>

\* Variant: an Error part is forwarded like any other.
ForwardErrorGoesOn(i) ==
  /\ pc[i] = "streaming"
  /\ ich[i] # <<>> /\ Head(ich[i]).t = "error"
  /\ Emit(Head(ich[i]), {})
  /\ ich' = [ich EXCEPT ![i] = Tail(@)]
  /\ UNCHANGED <<taskVars, memVars, outerVars, pc, released>>

\* An Error part is forwarded and ends the invocation; the bracket releases the
\* token and the receiver goes.
ForwardError(i) ==
  /\ pc[i] = "streaming"
  /\ ich[i] # <<>> /\ Head(ich[i]).t = "error"
  /\ Emit(Head(ich[i]), {})
  /\ ich' = [ich EXCEPT ![i] = <<>>]
  /\ pc' = [pc EXCEPT ![i] = "err"]
  /\ released' = released \cup {i}
  /\ UNCHANGED <<taskVars, memVars, outerVars>>

\* The task is gone and its channel is drained.
StreamEnds(i) ==
  /\ pc[i] = "streaming"
  /\ ich[i] = <<>> /\ ipc[i] = "ended"
  /\ released' = released \cup {i}
  /\ IF Key(i) \in Stateful
     THEN pc' = [pc EXCEPT ![i] = "reading"] /\ UNCHANGED <<out, refused>>
     ELSE pc' = [pc EXCEPT ![i] = "ok"] /\ Emit(Part("agentResult", i), {})
  /\ UNCHANGED <<taskVars, memVars, outerVars, ich>>

\* append_turn: get ...
ReadMemory(i) ==
  /\ pc[i] = "reading"
  /\ got' = [got EXCEPT ![i] = mem[Key(i)]]
  /\ pc' = [pc EXCEPT ![i] = "writing"]
  /\ UNCHANGED <<taskVars, mem, outerVars, ich, released, out, refused>>

\* ... and put; then the result is announced and returned.
WriteMemory(i) ==
  /\ pc[i] = "writing"
  /\ mem' = [mem EXCEPT ![Key(i)] = Append(got[i], i)]
  /\ Emit(Part("agentResult", i), {})
  /\ pc' = [pc EXCEPT ![i] = "ok"]
  /\ UNCHANGED <<taskVars, got, outerVars, ich, released>>

----------------------------------------------------------------------------
(* The interpreter task: run_stream_request over the provider's stream.      *)

\* An Error part goes out and the task finalises.
Fail(i) ==
  /\ ich' = InnerPut(i, Part("error", i))
  /\ refused' = IF InnerFull(i) THEN refused \cup {i} ELSE refused
  /\ fate' = [fate EXCEPT ![i] = "failed"]
  /\ ipc' = [ipc EXCEPT ![i] = "finishing"]

\* The check before any provider call.
StartTask(i) ==
  /\ ipc[i] = "start"
  /\ IF Cancelled(i)
     THEN Fail(i)
     ELSE ipc' = [ipc EXCEPT ![i] = "opening"] /\ UNCHANGED <<ich, refused, fate>>
  /\ UNCHANGED <<calls, owner, tool, tpc, memVars, outerVars, pc, released, out>>

\* make_stream is awaited without regard to the cancellation.
Opened(i) ==
  /\ ipc[i] = "opening"
  /\ ipc' = [ipc EXCEPT ![i] = "turn"]
  /\ UNCHANGED <<calls, owner, tool, tpc, fate, memVars, outerVars, pc, ich, released, out, refused>>

\* Variant: the cancellation is looked at between turns only.
CancelSeenBetweenTurns(i) ==
  /\ ipc[i] = "turn" /\ Cancelled(i)
  /\ Fail(i)
  /\ UNCHANGED <<calls, owner, tool, tpc, memVars, outerVars, pc, released, out>>

\* The cancellation branch of the select!, also while a tool runs: only the wait
\* for its answer ends.
CancelSeen(i) ==
  /\ ipc[i] \in {"turn", "tool"} /\ Cancelled(i)
  /\ Fail(i)
  /\ UNCHANGED <<calls, owner, tool, tpc, memVars, outerVars, pc, released, out>>

\* The provider's stream yields an error.
StreamFails(i) ==
  /\ ipc[i] = "turn"
  /\ Fail(i)
  /\ UNCHANGED <<calls, owner, tool, tpc, memVars, outerVars, pc, released, out>>

StreamDone(i) ==
  /\ ipc[i] = "turn"
  /\ ipc' = [ipc EXCEPT ![i] = "finishing"]
  /\ fate' = [fate EXCEPT ![i] = "ok"]
  /\ UNCHANGED <<calls, owner, tool, tpc, memVars, outerVars, pc, ich, released, out, refused>>

\* The hook announces a tool call on the task's channel, and the call goes into
\* the queue of the tool server.
ToolCall(i) ==
  /\ ipc[i] = "turn" /\ calls < MaxCalls
  /\ calls' = calls + 1
  /\ owner' = [owner EXCEPT ![calls + 1] = i]
  /\ tool' = [tool EXCEPT ![i] = calls + 1]
  /\ tpc' = [tpc EXCEPT ![calls + 1] = "queued"]
  /\ ipc' = [ipc EXCEPT ![i] = "tool"]
  /\ ich' = InnerPut(i, Part("call", calls + 1))
  /\ UNCHANGED <<fate, memVars, outerVars, pc, released, out, refused>>

\* The answer is there: the hook announces it on the task's channel.
TakeResult(i) ==
  /\ ipc[i] = "tool" /\ tpc[tool[i]] = "done"
  /\ ich' = InnerPut(i, Part("result", tool[i]))
  /\ ipc' = [ipc EXCEPT ![i] = "turn"]
  /\ tool' = [tool EXCEPT ![i] = 0]
  /\ UNCHANGED <<calls, owner, tpc, fate, memVars, outerVars, pc, released, out, refused>>

\* finalize_request, close, and the end of the task; an answer still to come has
\* no receiver any more.
FinishTask(i) ==
  /\ ipc[i] = "finishing"
  /\ ipc' = [ipc EXCEPT ![i] = "ended"]
  /\ tool' = [tool EXCEPT ![i] = 0]
  /\ UNCHANGED <<calls, owner, tpc, fate, memVars, outerVars, pc, ich, released, out, refused>>

----------------------------------------------------------------------------
(* The task of a tool call, whether or not anybody awaits its answer.        *)

toolFrame == <<calls, owner, tool, fate, memVars, outerVars, ich, released>>

\* The tool server spawns the task, and TracedHandler announces the call on the
\* request channel.
Announce(c) ==
  /\ tpc[c] = "queued"
  /\ tpc' = [tpc EXCEPT ![c] = "gated"]
  /\ Emit(Part("call", c), {})
  /\ UNCHANGED <<toolFrame, ipc, pc>>

\* Past the approval gate and the guard, which asks for the cancellation once.
Admit(c) ==
  /\ tpc[c] = "gated" /\ ~cancelled
  /\ tpc' = [tpc EXCEPT ![c] = "running"]
  /\ UNCHANGED <<toolFrame, ipc, pc, out, refused>>

\* The weak reference of LateBoundInvoker upgrades while the driver or a running
\* invoke holds the orchestrator.
OrchestratorAlive == driver # "closed" \/ \E i \in Ids : pc[i] \in Live

\* call_agent: invoke announces the delegation.
Delegate(c) ==
  /\ tpc[c] = "running" /\ OrchestratorAlive
  /\ tpc' = [tpc EXCEPT ![c] = "delegating"]
  /\ Emit(Part("agentCall", c), {})
  /\ pc' = [pc EXCEPT ![c] = FirstPosition(c)]
  /\ ipc' = [ipc EXCEPT ![c] = FirstTask(c)]
  /\ UNCHANGED toolFrame

\* TracedHandler announces the result, the answer is sent and the task ends.
Return(c) ==
  /\ tpc' = [tpc EXCEPT ![c] = "done"]
  /\ Emit(Part("result", c), {})
  /\ UNCHANGED <<toolFrame, ipc, pc>>

\* The gate or the guard refuses, a tool other than call_agent returns, or
\* call_agent knows no such agent.
ToolReturns(c) ==
  /\ tpc[c] \in {"gated", "running"}
  /\ Return(c)

\* A failed delegation is a tool error like any other: the owner goes on.
DelegationReturns(c) ==
  /\ tpc[c] = "delegating" /\ pc[c] \in Done
  /\ Return(c)

----------------------------------------------------------------------------
(* The consumer and the host.                                                *)

\* Variant: the tasks of the tool calls are not counted.
SendersGoneButTools == driver = "closed" /\ \A i \in Ids : ipc[i] \in {"none", "ended"}

\* The stream ends when the last sender is dropped, whatever close() said: the
\* driver holds one, and through the dispatcher and its environment so does every
\* interpreter task and every tool call that is queued or runs.
SendersGone ==
  /\ driver = "closed"
  /\ \A i \in Ids : ipc[i] \in {"none", "ended"}
  /\ \A c \in Calls : tpc[c] \in {"none", "done"}

Receive ==
  /\ consumer = "reading" /\ out # <<>>
  /\ errors' = IF Head(out).t = "error" THEN errors \cup {Head(out).id} ELSE errors
  /\ out' = Tail(out)
  /\ UNCHANGED <<taskVars, memVars, pc, ich, released, driver, consumer, cancelled, refused>>

EndOfStream ==
  /\ consumer = "reading" /\ out = <<>> /\ SendersGone
  /\ consumer' = "ended"
  /\ UNCHANGED <<taskVars, memVars, pc, ich, released, out, driver, cancelled, errors, refused>>

\* The reader drops the stream; the request goes on.
Abandon ==
  /\ consumer = "reading"
  /\ consumer' = "gone"
  /\ out' = <<>>
  /\ UNCHANGED <<taskVars, memVars, pc, ich, released, driver, cancelled, errors, refused>>

Cancel ==
  /\ ~cancelled
  /\ cancelled' = TRUE
  /\ UNCHANGED <<taskVars, memVars, pc, ich, released, out, driver, consumer, errors, refused>>

Orchestrate(i) ==
  \/ Load(i) \/ MemoryFails(i) \/ Forward(i) \/ ForwardError(i)
  \/ StreamEnds(i) \/ ReadMemory(i) \/ WriteMemory(i)

Interpret(i) ==
  \/ StartTask(i) \/ Opened(i) \/ CancelSeen(i) \/ StreamFails(i) \/ StreamDone(i)
  \/ ToolCall(i) \/ TakeResult(i) \/ FinishTask(i)

RunTool(c) ==
  \/ Announce(c) \/ Admit(c) \/ Delegate(c) \/ ToolReturns(c) \/ DelegationReturns(c)

RequestStep ==
  \/ BuildFails \/ InvokeEntry \/ EntryRefused \/ DriverFails \/ DriverCloses
  \/ \E i \in Ids : Orchestrate(i) \/ Interpret(i)
  \/ \E c \in Calls : RunTool(c)

Next == RequestStep \/ Receive \/ EndOfStream \/ Abandon \/ Cancel

Spec == Init /\ [][Next]_vars

\* What the runtime polls: the driver, every invoke, every interpreter task and
\* the spawning of a tool's task.  The provider, the approval gate, the tools
\* themselves and the consumer may take for ever.
FairSpec ==
  /\ Spec
  /\ WF_vars(InvokeEntry \/ DriverFails \/ DriverCloses)
  /\ \A i \in Ids :
       /\ WF_vars(Orchestrate(i))
       /\ WF_vars(StartTask(i))
       /\ WF_vars(Opened(i))
       /\ WF_vars(CancelSeen(i))
       /\ WF_vars(TakeResult(i))
       /\ WF_vars(FinishTask(i))
  /\ \A c \in Calls : WF_vars(Announce(c)) /\ WF_vars(DelegationReturns(c))

----------------------------------------------------------------------------
(* Properties                                                                *)

TypeOK ==
  /\ calls \in 0..MaxCalls
  /\ owner \in [Calls -> Ids]
  /\ pc \in [Ids -> {"none"} \cup Live \cup Done]
  /\ ipc \in [Ids -> {"none", "start", "opening", "turn", "tool", "finishing", "ended"}]
  /\ tool \in [Ids -> Ids]
  /\ tpc \in [Calls -> {"none", "queued", "gated", "running", "delegating", "done"}]
  /\ \A i \in Ids : ich[i] \in Seq(Parts) /\ Len(ich[i]) <= InnerCap
  /\ released \subseteq Ids
  /\ mem \in [Keys -> Seq(Ids)]
  /\ got \in [Ids -> Seq(Ids)]
  /\ out \in Seq(Parts) /\ Len(out) <= OutCap
  /\ driver \in {"building", "invoking", "closed"}
  /\ consumer \in {"reading", "ended", "gone"}
  /\ cancelled \in BOOLEAN
  /\ errors \subseteq 0..MaxCalls + 1
  /\ fate \in [Ids -> {"none", "ok", "failed"}]
  /\ refused \subseteq 0..MaxCalls + 1

\* The consumer of a request that failed, in building or in its entry agent, has
\* read the driver's Error part by the end of the stream, unless the buffer was
\* full when the driver sent it.
FailureReported ==
  consumer = "ended" /\ pc[0] \in {"none", "err"} => Driver \in errors \cup refused

\* A turn that memory keeps is one whose interpretation went well, unless the
\* Error part of its failure found the interpreter's channel full: invoke has no
\* other way to learn that a turn failed or was cancelled.
RememberedSucceeded ==
  \A k \in Keys : \A n \in DOMAIN mem[k] :
    fate[mem[k][n]] = "ok" \/ mem[k][n] \in refused

\* Once the stream has ended nothing of the request is at work: no invocation, no
\* delegation whose owner was cancelled under it, and no tool that went on after
\* the cancellation.
QuietAfterEnd ==
  consumer = "ended" =>
    /\ \A i \in Ids : pc[i] \notin Live
    /\ \A c \in Calls : tpc[c] \in {"none", "done"}

\* After a cancellation the driver, every invoke and every interpreter task stop
\* for good, although a tool hangs, the provider is silent or the consumer reads
\* nothing.  Only tools may be left, and with them the open stream.
CancelStopsAgents ==
  cancelled ~> [](/\ driver = "closed"
                  /\ \A i \in Ids : pc[i] \notin Live /\ ipc[i] \in {"none", "ended"})

=============================================================================
