------------------------- MODULE AgentRequestProofs -------------------------
(* Proofs about AgentRequest, for any number of tool calls and any capacity   *)
(* of the channels: which turns are remembered, that nothing of a request     *)
(* outlives its stream, that a failure is reported, what a blocked request    *)
(* waits for, and that only a cancellation leaves a tool behind.              *)
EXTENDS AgentRequest, WellFoundedInduction, TLAPS

Positions == {"none"} \cup Live \cup Done
TaskPositions == {"none", "start", "opening", "turn", "tool", "finishing", "ended"}
ToolPositions == {"none", "queued", "gated", "running", "delegating", "done"}

\* TypeOK without the bounds of the inner channels and without the Boolean flag:
\* the positions, and the data.
Control ==
  /\ calls \in 0..MaxCalls
  /\ owner \in [Calls -> Ids]
  /\ pc \in [Ids -> Positions]
  /\ ipc \in [Ids -> TaskPositions]
  /\ tool \in [Ids -> Ids]
  /\ tpc \in [Calls -> ToolPositions]
  /\ driver \in {"building", "invoking", "closed"}

Data ==
  /\ ich \in [Ids -> Seq(Parts)]
  /\ mem \in [Keys -> Seq(Ids)]
  /\ got \in [Ids -> Seq(Ids)]
  /\ out \in Seq(Parts) /\ Len(out) <= OutCap
  /\ consumer \in {"reading", "ended", "gone"}
  /\ fate \in [Ids -> {"none", "ok", "failed"}]

Shape == Control /\ Data

\* Who is where: the numbers given are those of the tool calls made, a task that
\* awaits an answer owns the call, and an invocation that is alive is in the hands
\* of the driver or of the task of its tool call, which waits for it.
TreeInv ==
  /\ \A c \in Calls : tpc[c] # "none" <=> c <= calls
  /\ \A i \in Ids : ipc[i] = "tool" => tool[i] # 0
  /\ \A i \in Ids : tool[i] # 0 => tool[i] <= calls /\ owner[tool[i]] = i
  /\ \A c \in Calls : pc[c] # "none" => tpc[c] \in {"delegating", "done"}
  /\ \A c \in Calls : pc[c] \in Live => tpc[c] = "delegating"
  /\ \A i \in Ids : pc[i] \in {"none", "loading"} => ipc[i] = "none"
  /\ driver = "building" => pc[0] = "none"
  /\ pc[0] \in Live => driver = "invoking"

HasError(q) == \E n \in DOMAIN q : q[n].t = "error"

Kept(i) == fate[i] = "ok" \/ i \in refused

\* A failure travels from the task to invoke as an Error part, or is lost with it.
MemoryInv ==
  /\ \A i \in Ids : fate[i] = "none" <=> ipc[i] \notin {"finishing", "ended"}
  /\ \A i \in Ids : pc[i] \in {"reading", "writing"} => ipc[i] = "ended"
  /\ \A i \in Ids : fate[i] = "failed" /\ pc[i] \in Live =>
       i \in refused \/ (pc[i] = "streaming" /\ HasError(ich[i]))
  /\ \A k \in Keys : \A n \in DOMAIN mem[k] : Kept(mem[k][n])
  /\ \A i \in Ids : \A n \in DOMAIN got[i] : Kept(got[i][n])

\* The driver's Error part is on its way until the consumer has it.
ReportInv ==
  /\ driver = "closed" /\ pc[0] \in {"none", "err"} /\ consumer # "gone" =>
       \/ Driver \in errors \cup refused
       \/ \E n \in DOMAIN out : out[n] = Part("error", Driver)
  /\ consumer = "ended" => out = <<>> /\ SendersGone

ReqInv == Shape /\ TreeInv /\ MemoryInv /\ ReportInv

\* The steps of the driver, and those of the consumer and the host.
DriverStep == BuildFails \/ InvokeEntry \/ EntryRefused \/ DriverFails \/ DriverCloses
HostStep == Receive \/ EndOfStream \/ Abandon \/ Cancel

----------------------------------------------------------------------------
(* Channels                                                                  *)

\* No step forgets a refusal, and the request channel stays within its capacity.
ChannelOK ==
  /\ out' \in Seq(Parts) /\ Len(out') <= OutCap
  /\ refused \subseteq refused'

\* An empty channel holds no Error part.
LEMMA EmptyHasNone == ~HasError(<<>>)
BY DEF HasError

\* Receiving a part removes no Error part but that one.
LEMMA TailFacts ==
  ASSUME NEW q \in Seq(Parts), q # <<>>
  PROVE  /\ Tail(q) \in Seq(Parts)
         /\ HasError(Tail(q)) => HasError(q)
         /\ Head(q).t = "error" => HasError(q)
         /\ Head(q).t # "error" /\ HasError(q) => HasError(Tail(q))
<1>1. Tail(q) \in Seq(Parts) /\ 1 \in DOMAIN q /\ Head(q) = q[1]
  OBVIOUS
<1>2. \A n \in DOMAIN Tail(q) : n + 1 \in DOMAIN q /\ Tail(q)[n] = q[n + 1]
  OBVIOUS
<1>3. \A n \in DOMAIN q : n # 1 => n - 1 \in DOMAIN Tail(q) /\ Tail(q)[n - 1] = q[n]
  OBVIOUS
<1>4. HasError(Tail(q)) => HasError(q)
  BY <1>2, Zenon DEF HasError
<1>5. Head(q).t = "error" => HasError(q)
  BY <1>1, Zenon DEF HasError
<1>6. ASSUME HasError(q), Head(q).t # "error" PROVE HasError(Tail(q))
  <2>1. PICK n \in DOMAIN q : q[n].t = "error"
    BY <1>6, Zenon DEF HasError
  <2>2. n # 1
    BY <1>1, <1>6, <2>1
  <2>3. n - 1 \in DOMAIN Tail(q) /\ Tail(q)[n - 1].t = "error"
    BY <1>3, <2>1, <2>2
  <2>4. QED
    BY <2>3, Zenon DEF HasError
<1>7. QED
  BY <1>1, <1>4, <1>5, <1>6

\* Sending a part adds an Error part only if it is one.
LEMMA AppendFacts ==
  ASSUME NEW q \in Seq(Parts), NEW p \in Parts
  PROVE  /\ Append(q, p) \in Seq(Parts)
         /\ HasError(Append(q, p)) <=> HasError(q) \/ p.t = "error"
<1>1. Append(q, p) \in Seq(Parts) /\ Len(q) + 1 \in DOMAIN Append(q, p) /\ Append(q, p)[Len(q) + 1] = p
  OBVIOUS
<1>2. \A n \in DOMAIN q : n \in DOMAIN Append(q, p) /\ Append(q, p)[n] = q[n]
  OBVIOUS
<1>3. \A n \in DOMAIN Append(q, p) : n \in DOMAIN q \/ n = Len(q) + 1
  OBVIOUS
<1>4. QED
  BY <1>1, <1>2, <1>3, Zenon DEF HasError

\* What an emit does to the request channel: it keeps what is there, marks what
\* it refuses, and does nothing to a closed channel.
LEMMA EmitFacts ==
  ASSUME Shape, NEW p \in Parts, NEW senders, Emit(p, senders)
  PROVE  /\ ChannelOK
         /\ ~Open => out' = out
         /\ senders \subseteq refused' \/ \E n \in DOMAIN out' : out'[n] = p
<1>1. out \in Seq(Parts) /\ Len(out) <= OutCap /\ OutCap \in Nat /\ Len(out) \in Nat
  BY RequestAssumption DEF Shape, Data
<1>2. refused \subseteq refused'
  BY DEF Emit
<1>3. CASE Open /\ Len(out) < OutCap
  <2>1. out' = Append(out, p)
    BY <1>3 DEF Emit, Put
  <2>2. /\ out' \in Seq(Parts) /\ Len(out') = Len(out) + 1
        /\ Len(out) + 1 \in DOMAIN out' /\ out'[Len(out) + 1] = p
    BY <1>1, <2>1
  <2>3. QED
    BY <1>1, <1>2, <1>3, <2>2 DEF ChannelOK
<1>4. CASE ~(Open /\ Len(out) < OutCap)
  <2>1. out' = out /\ refused' = refused \cup senders
    BY <1>4 DEF Emit, Put
  <2>2. QED
    BY <1>1, <2>1 DEF ChannelOK
<1>5. QED
  BY <1>3, <1>4

\* The parts that tasks, tools and the driver send are parts.
LEMMA PartsOfCalls ==
  ASSUME NEW i \in Ids
  PROVE  /\ Part("call", i) \in Parts /\ Part("result", i) \in Parts
         /\ Part("agentCall", i) \in Parts /\ Part("agentResult", i) \in Parts
         /\ Part("error", i) \in Parts /\ Part("error", i).t = "error"
         /\ Part("call", i).t # "error" /\ Part("result", i).t # "error"
         /\ Part("error", Driver) \in Parts
BY RequestAssumption DEF Part, Parts, Ids, Driver

\* The entry agent is the only invocation that is no tool call.
LEMMA IdsFacts == 0 \in Ids /\ Calls = Ids \ {0}
<1>1. \A c : c \in Calls <=> c \in Ids \ {0}
  BY RequestAssumption DEF Calls, Ids
<1>2. QED
  BY <1>1, RequestAssumption DEF Ids

\* The parts that invoke puts on the request channel.
LEMMA InvokeEmits ==
  ASSUME Shape, NEW i \in Ids, Orchestrate(i)
  PROVE  ChannelOK /\ (~Open => out' = out)
<1>1. CASE Forward(i) \/ ForwardError(i)
  <2>1. Head(ich[i]) \in Parts
    BY <1>1 DEF Forward, ForwardError, Shape, Data
  <2>2. Emit(Head(ich[i]), {})
    BY <1>1 DEF Forward, ForwardError
  <2>3. QED
    BY <2>1, <2>2, EmitFacts
<1>2. CASE StreamEnds(i) \/ WriteMemory(i)
  <2>1. Emit(Part("agentResult", i), {}) \/ UNCHANGED <<out, refused>>
    BY <1>2 DEF StreamEnds, WriteMemory
  <2>2. QED
    BY <2>1, PartsOfCalls, EmitFacts DEF Shape, Data, ChannelOK
<1>3. CASE Load(i) \/ MemoryFails(i) \/ ReadMemory(i)
  BY <1>3 DEF Load, MemoryFails, ReadMemory, Shape, Data, ChannelOK
<1>4. QED
  BY <1>1, <1>2, <1>3 DEF Orchestrate

\* An interpreter task puts nothing on the request channel.
LEMMA TaskEmits ==
  ASSUME Shape, NEW i \in Ids, Interpret(i)
  PROVE  ChannelOK /\ out' = out
<1>1. out' = out
  BY DEF Interpret, StartTask, Opened, CancelSeen, StreamFails, StreamDone, ToolCall, TakeResult,
     FinishTask
<1>2. refused \subseteq refused'
  BY DEF Interpret, StartTask, Opened, CancelSeen, StreamFails, StreamDone, ToolCall, TakeResult,
     FinishTask, Fail
<1>3. QED
  BY <1>1, <1>2 DEF Shape, Data, ChannelOK

\* The parts that the task of a tool call puts there.
LEMMA ToolEmits ==
  ASSUME Shape, NEW c \in Calls, RunTool(c)
  PROVE  ChannelOK /\ (~Open => out' = out)
<1>1. c \in Ids
  BY IdsFacts
<1>2. CASE Announce(c) \/ Delegate(c)
  BY <1>1, <1>2, PartsOfCalls, EmitFacts DEF Announce, Delegate
<1>3. CASE ToolReturns(c) \/ DelegationReturns(c)
  BY <1>1, <1>3, PartsOfCalls, EmitFacts DEF ToolReturns, DelegationReturns, Return
<1>4. CASE Admit(c)
  BY <1>4 DEF Admit, Shape, Data, ChannelOK
<1>5. QED
  BY <1>2, <1>3, <1>4 DEF RunTool

\* So do the driver's steps.
LEMMA DriverEmits ==
  ASSUME Shape, DriverStep
  PROVE  ChannelOK
<1>1. 0 \in Ids
  BY IdsFacts
<1>2. CASE BuildFails \/ DriverFails
  BY <1>1, <1>2, PartsOfCalls, EmitFacts DEF BuildFails, DriverFails
<1>3. CASE InvokeEntry \/ EntryRefused
  <2>1. Emit(Part("agentCall", 0), {}) \/ UNCHANGED <<out, refused>>
    BY <1>3 DEF InvokeEntry, EntryRefused
  <2>2. QED
    BY <1>1, <2>1, PartsOfCalls, EmitFacts DEF Shape, Data, ChannelOK
<1>4. CASE DriverCloses
  BY <1>4 DEF DriverCloses, Shape, Data, ChannelOK
<1>5. QED
  BY <1>2, <1>3, <1>4 DEF DriverStep

\* And so does the consumer.
LEMMA ConsumerReads ==
  ASSUME Shape, HostStep
  PROVE  ChannelOK
<1>1. CASE Receive
  <2>1. out \in Seq(Parts) /\ out # <<>> /\ out' = Tail(out) /\ refused' = refused
    BY <1>1 DEF Receive, Shape, Data
  <2>2. Len(out) \in Nat /\ Len(out) <= OutCap /\ OutCap \in Nat
    BY <2>1, RequestAssumption DEF Shape, Data
  <2>3. out' \in Seq(Parts) /\ Len(out') = Len(out) - 1
    BY <2>1
  <2>4. QED
    BY <2>1, <2>2, <2>3 DEF ChannelOK
<1>2. CASE Abandon
  BY <1>2, RequestAssumption DEF Abandon, Shape, Data, ChannelOK
<1>3. CASE EndOfStream \/ Cancel
  BY <1>3 DEF EndOfStream, Cancel, Shape, Data, ChannelOK
<1>4. QED
  BY <1>1, <1>2, <1>3 DEF HostStep

\* What a task puts on its own channel joins what is there, or is refused.
LEMMA InnerFacts ==
  ASSUME Shape, NEW i \in Ids, NEW p \in Parts
  PROVE  /\ InnerPut(i, p) \in [Ids -> Seq(Parts)]
         /\ \A j \in Ids : HasError(ich[j]) => HasError(InnerPut(i, p)[j])
         /\ p.t = "error" /\ ~InnerFull(i) => HasError(InnerPut(i, p)[i])
         /\ p.t # "error" => \A j \in Ids : HasError(InnerPut(i, p)[j]) => HasError(ich[j])
<1>0. ich \in [Ids -> Seq(Parts)] /\ ich[i] \in Seq(Parts)
  BY DEF Shape, Data
<1>1. CASE InnerFull(i)
  <2>1. InnerPut(i, p) = ich
    BY <1>0, <1>1, RequestAssumption DEF InnerFull, InnerPut, Put
  <2>2. QED
    BY <1>0, <1>1, <2>1
<1>2. CASE ~InnerFull(i)
  <2>0. pc[i] \in Live /\ Len(ich[i]) < InnerCap
    BY <1>0, <1>2, RequestAssumption DEF InnerFull
  <2>1. InnerPut(i, p) = [ich EXCEPT ![i] = Append(ich[i], p)]
    BY <2>0 DEF InnerPut, Put
  <2>2. QED
    BY <1>0, <1>2, <2>1, AppendFacts
<1>3. QED
  BY <1>1, <1>2

\* A tool call that is made has a number.
LEMMA NextCall ==
  ASSUME Control, calls < MaxCalls
  PROVE  calls + 1 \in Ids
BY RequestAssumption DEF Control, Ids

----------------------------------------------------------------------------
(* Positions of driver, invocations, tasks and tools                         *)

\* Where an invocation that is taken up begins.
LEMMA FirstFacts ==
  ASSUME NEW i
  PROVE  /\ FirstPosition(i) \in {"loading", "streaming"} /\ FirstTask(i) \in {"none", "start"}
         /\ FirstPosition(i) = "loading" <=> FirstTask(i) = "none"
BY DEF FirstPosition, FirstTask

\* A step of invoke keeps the tree of invocations.
LEMMA OrchestrateTree ==
  ASSUME Control, TreeInv, NEW i \in Ids, Orchestrate(i)
  PROVE  Control' /\ TreeInv'
<1> USE DEF Live, Done, Positions, TaskPositions, ToolPositions, Control, TreeInv
<1>a. 0 \in Ids /\ Calls = Ids \ {0}
  BY IdsFacts
<1>0. CASE Load(i)
  BY <1>0, <1>a DEF Load, outerVars
<1>1. CASE MemoryFails(i)
  BY <1>1, <1>a DEF MemoryFails, taskVars, outerVars
<1>2. CASE Forward(i)
  BY <1>2, <1>a DEF Forward, taskVars, outerVars
<1>3. CASE ForwardError(i)
  BY <1>3, <1>a DEF ForwardError, taskVars, outerVars
<1>4. CASE StreamEnds(i)
  BY <1>4, <1>a DEF StreamEnds, taskVars, outerVars
<1>5. CASE ReadMemory(i)
  BY <1>5, <1>a DEF ReadMemory, taskVars, outerVars
<1>6. CASE WriteMemory(i)
  BY <1>6, <1>a DEF WriteMemory, taskVars, outerVars
<1>7. QED
  BY <1>0, <1>1, <1>2, <1>3, <1>4, <1>5, <1>6 DEF Orchestrate

\* A step of an interpreter task keeps the tree of invocations.
LEMMA InterpretTree ==
  ASSUME Control, TreeInv, NEW i \in Ids, Interpret(i)
  PROVE  Control' /\ TreeInv'
<1> USE DEF Live, Done, Positions, TaskPositions, ToolPositions, Control, TreeInv
<1>a. 0 \in Ids /\ Calls = Ids \ {0}
  BY IdsFacts
<1>1. CASE StartTask(i)
  <2>1. /\ ipc[i] = "start"
        /\ ipc' = [ipc EXCEPT ![i] = "finishing"] \/ ipc' = [ipc EXCEPT ![i] = "opening"]
        /\ UNCHANGED <<calls, owner, tool, tpc, pc, driver>>
    BY <1>1 DEF StartTask, Fail, outerVars
  <2>2. QED
    BY <1>a, <2>1
<1>2. CASE CancelSeen(i) \/ StreamFails(i)
  BY <1>2, <1>a DEF CancelSeen, StreamFails, Fail, outerVars
<1>3. CASE Opened(i) \/ StreamDone(i)
  BY <1>3, <1>a DEF Opened, StreamDone, outerVars
<1>4. CASE ToolCall(i)
  <2>1. calls \in Nat /\ calls + 1 \in Calls /\ calls + 1 \in Ids /\ calls + 1 \in 0..MaxCalls
    BY <1>4, RequestAssumption DEF ToolCall, Calls, Ids
  <2>3. \A j \in Ids : j \in Nat
    BY RequestAssumption DEF Ids
  <2>n. ~(calls + 1 <= calls)
    BY <2>1
  <2>m. tpc[calls + 1] = "none"
    BY <2>1, <2>n
  <2>2. pc[calls + 1] = "none" /\ \A j \in Ids : tool[j] # calls + 1
    BY <1>a, <2>1, <2>m, <2>n
  <2>4. Control'
    BY <1>4, <2>1 DEF ToolCall, outerVars
  <2>5. /\ calls' = calls + 1 /\ owner' = [owner EXCEPT ![calls + 1] = i]
        /\ tool' = [tool EXCEPT ![i] = calls + 1] /\ tpc' = [tpc EXCEPT ![calls + 1] = "queued"]
        /\ ipc' = [ipc EXCEPT ![i] = "tool"] /\ ipc[i] = "turn" /\ UNCHANGED <<pc, driver>>
    BY <1>4 DEF ToolCall, outerVars
  <2>6. (\A c \in Calls : tpc[c] # "none" <=> c <= calls)'
    BY <1>a, <2>1, <2>3, <2>5
  <2>7. (\A j \in Ids : tool[j] # 0 => tool[j] <= calls /\ owner[tool[j]] = j)'
    BY <1>a, <2>1, <2>2, <2>3, <2>5
  <2>8. QED
    BY <1>a, <2>1, <2>m, <2>2, <2>4, <2>5, <2>6, <2>7
<1>5. CASE TakeResult(i)
  BY <1>5, <1>a DEF TakeResult, outerVars
<1>6. CASE FinishTask(i)
  BY <1>6, <1>a DEF FinishTask, outerVars
<1>7. QED
  BY <1>1, <1>2, <1>3, <1>4, <1>5, <1>6 DEF Interpret

\* A step of a tool's task keeps it: an invocation starts under a tool call that
\* then waits for it.
LEMMA ToolTree ==
  ASSUME Control, TreeInv, NEW c \in Calls, RunTool(c)
  PROVE  Control' /\ TreeInv'
<1> USE DEF Live, Done, Positions, TaskPositions, ToolPositions, Control, TreeInv
<1>a. 0 \in Ids /\ Calls = Ids \ {0} /\ c \in Ids /\ c # 0
  BY IdsFacts
<1>1. CASE Announce(c) \/ Admit(c)
  BY <1>1, <1>a DEF Announce, Admit, toolFrame, outerVars
<1>2. CASE Delegate(c)
  <2>1. /\ tpc[c] = "running" /\ tpc' = [tpc EXCEPT ![c] = "delegating"]
        /\ pc' = [pc EXCEPT ![c] = FirstPosition(c)] /\ ipc' = [ipc EXCEPT ![c] = FirstTask(c)]
        /\ UNCHANGED <<calls, owner, tool, driver>>
    BY <1>2 DEF Delegate, toolFrame, outerVars
  <2>2. pc[c] = "none" /\ ipc[c] = "none"
    BY <1>a, <2>1
  <2>3. QED
    BY <1>a, <2>1, <2>2, FirstFacts
<1>3. CASE ToolReturns(c) \/ DelegationReturns(c)
  <2>1. tpc[c] \in {"gated", "running"} \/ (tpc[c] = "delegating" /\ pc[c] \in Done)
    BY <1>3 DEF ToolReturns, DelegationReturns
  <2>2. tpc' = [tpc EXCEPT ![c] = "done"] /\ UNCHANGED <<calls, owner, tool, driver, pc, ipc>>
    BY <1>3 DEF ToolReturns, DelegationReturns, Return, toolFrame, outerVars
  <2>3. QED
    BY <1>a, <2>1, <2>2
<1>4. QED
  BY <1>1, <1>2, <1>3 DEF RunTool

\* A step of the driver, of the consumer or of the host does, too.
LEMMA OuterTree ==
  ASSUME Control, TreeInv, DriverStep \/ HostStep \/ UNCHANGED vars
  PROVE  Control' /\ TreeInv'
<1> USE DEF Live, Done, Positions, TaskPositions, ToolPositions, Control, TreeInv
<1>a. 0 \in Ids /\ Calls = Ids \ {0}
  BY IdsFacts
<1>1. CASE BuildFails \/ DriverFails \/ DriverCloses
  <2>1. driver' = "closed" /\ pc[0] \notin Live
    BY <1>1 DEF BuildFails, DriverFails, DriverCloses
  <2>2. UNCHANGED <<calls, owner, pc, ipc, tool, tpc>>
    BY <1>1 DEF BuildFails, DriverFails, DriverCloses, taskVars
  <2>3. QED
    BY <1>a, <2>1, <2>2
<1>2. CASE InvokeEntry
  <2>1. /\ driver = "building" /\ driver' = "invoking"
        /\ pc' = [pc EXCEPT ![0] = FirstPosition(0)] /\ ipc' = [ipc EXCEPT ![0] = FirstTask(0)]
        /\ UNCHANGED <<calls, owner, tool, tpc>>
    BY <1>2 DEF InvokeEntry
  <2>2. QED
    BY <1>a, <2>1, FirstFacts
<1>3. CASE EntryRefused
  <2>1. pc' = [pc EXCEPT ![0] = "err"] /\ driver = "building" /\ driver' = "invoking"
        /\ UNCHANGED <<calls, owner, ipc, tool, tpc>>
    BY <1>3 DEF EntryRefused, taskVars
  <2>2. QED
    BY <1>a, <2>1
<1>4. CASE HostStep
  <2>1. UNCHANGED <<calls, owner, pc, ipc, tool, tpc, driver>>
    BY <1>4 DEF HostStep, Receive, EndOfStream, Abandon, Cancel, taskVars
  <2>2. QED
    BY <2>1
<1>5. CASE UNCHANGED vars
  BY <1>5 DEF vars
<1>6. QED
  BY <1>1, <1>2, <1>3, <1>4, <1>5 DEF DriverStep

----------------------------------------------------------------------------
(* Data and memory                                                           *)

\* Appending a turn keeps the turns that are there.
LEMMA AppendOne ==
  ASSUME NEW s \in Seq(Ids), NEW i \in Ids
  PROVE  /\ Append(s, i) \in Seq(Ids)
         /\ \A n \in DOMAIN Append(s, i) : (n \in DOMAIN s /\ Append(s, i)[n] = s[n]) \/ Append(s, i)[n] = i
  OBVIOUS

\* A step that leaves memory alone and no turn worse off keeps what is remembered.
LEMMA KeptFrame ==
  ASSUME Data, MemoryInv, \A j \in Ids : Kept(j) => Kept(j)', UNCHANGED <<mem, got>>
  PROVE  /\ (\A k \in Keys : \A n \in DOMAIN mem[k] : Kept(mem[k][n]))'
         /\ (\A j \in Ids : \A n \in DOMAIN got[j] : Kept(got[j][n]))'
<1>1. ASSUME NEW k \in Keys, NEW n \in DOMAIN mem[k] PROVE Kept(mem[k][n])'
  <2>1. mem[k][n] \in Ids
    BY DEF Data
  <2>2. Kept(mem[k][n])
    BY DEF MemoryInv
  <2>3. QED
    BY <2>1, <2>2
<1>2. ASSUME NEW j \in Ids, NEW n \in DOMAIN got[j] PROVE Kept(got[j][n])'
  <2>1. got[j][n] \in Ids
    BY DEF Data
  <2>2. Kept(got[j][n])
    BY DEF MemoryInv
  <2>3. QED
    BY <2>1, <2>2
<1>3. QED
  BY <1>1, <1>2

\* A step of invoke keeps the types of the data, and remembers only turns that
\* went well or whose Error part was refused.
LEMMA OrchestrateMemory ==
  ASSUME Shape, TreeInv, MemoryInv, NEW i \in Ids, Orchestrate(i)
  PROVE  Data' /\ MemoryInv'
<1> USE DEF Shape, Data
<1>t. pc \in [Ids -> Positions] /\ ipc \in [Ids -> TaskPositions]
  BY DEF Control
<1>0. ChannelOK
  BY InvokeEmits
<1>1. out' \in Seq(Parts) /\ Len(out') <= OutCap /\ refused \subseteq refused'
  BY <1>0 DEF ChannelOK
<1>k. Key(i) \in Keys
  BY DEF Key, Keys
<1>2. CASE Load(i)
  BY <1>1, <1>2 DEF Load, memVars, outerVars, MemoryInv, TreeInv, Live, Kept
<1>3. CASE MemoryFails(i)
  BY ZenonT(60), <1>t, <1>1, <1>3 DEF MemoryFails, taskVars, memVars, outerVars, MemoryInv, Live, Kept
<1>4. CASE Forward(i)
  <2>1. ich[i] \in Seq(Parts) /\ ich[i] # <<>> /\ Head(ich[i]).t # "error" /\ ich' = [ich EXCEPT ![i] = Tail(ich[i])]
    BY <1>4 DEF Forward
  <2>2. Tail(ich[i]) \in Seq(Parts) /\ (HasError(ich[i]) => HasError(Tail(ich[i])))
    BY <2>1, TailFacts
  <2>3. UNCHANGED <<pc, ipc, fate, mem, got, consumer>>
    BY <1>4 DEF Forward, taskVars, memVars, outerVars
  <2>4. ich' \in [Ids -> Seq(Parts)] /\ \A j \in Ids : HasError(ich[j]) => HasError(ich'[j])
    BY <2>1, <2>2
  <2>5. QED
    BY ZenonT(60), <1>1, <2>3, <2>4 DEF MemoryInv, Kept
<1>5. CASE ForwardError(i)
  <2>1. /\ ich' = [ich EXCEPT ![i] = <<>>] /\ pc' = [pc EXCEPT ![i] = "err"]
        /\ UNCHANGED <<ipc, fate, mem, got, consumer>>
    BY <1>5 DEF ForwardError, taskVars, memVars, outerVars
  <2>2. <<>> \in Seq(Parts)
    OBVIOUS
  <2>3. QED
    BY <1>t, <1>1, <2>1, <2>2 DEF MemoryInv, Kept, Live
<1>6. CASE StreamEnds(i)
  <2>1. /\ pc[i] = "streaming" /\ ich[i] = <<>> /\ ipc[i] = "ended"
        /\ pc' = [pc EXCEPT ![i] = "reading"] \/ pc' = [pc EXCEPT ![i] = "ok"]
        /\ UNCHANGED <<ich, ipc, fate, mem, got, consumer>>
    BY <1>6 DEF StreamEnds, taskVars, memVars, outerVars
  <2>2. ~HasError(ich[i])
    BY <2>1, EmptyHasNone
  <2>5. fate[i] # "none" /\ (fate[i] = "failed" => i \in refused)
    BY ZenonT(30), <2>1, <2>2 DEF MemoryInv, Live
  <2>3. fate[i] = "ok" \/ i \in refused
    BY <2>5
  <2>4. QED
    BY ZenonT(60), <1>t, <1>1, <2>1, <2>2, <2>3 DEF MemoryInv, Kept, Live
<1>7. CASE ReadMemory(i)
  <2>1. /\ got' = [got EXCEPT ![i] = mem[Key(i)]] /\ pc' = [pc EXCEPT ![i] = "writing"] /\ pc[i] = "reading"
        /\ UNCHANGED <<ich, ipc, fate, mem, consumer>>
    BY <1>7 DEF ReadMemory, taskVars, outerVars
  <2>2. QED
    BY ZenonT(60), <1>t, <1>1, <1>k, <2>1 DEF MemoryInv, Kept, Live
<1>8. CASE WriteMemory(i)
  <2>1. /\ mem' = [mem EXCEPT ![Key(i)] = Append(got[i], i)] /\ pc' = [pc EXCEPT ![i] = "ok"] /\ pc[i] = "writing"
        /\ UNCHANGED <<ich, ipc, fate, got, consumer>>
    BY <1>8 DEF WriteMemory, taskVars, outerVars
  <2>2. Kept(i)
    BY ZenonT(60), <2>1 DEF MemoryInv, Kept, Live
  <2>3. got[i] \in Seq(Ids) /\ Append(got[i], i) \in Seq(Ids)
    BY AppendOne
  <2>4. \A n \in DOMAIN Append(got[i], i) : Kept(Append(got[i], i)[n])
    <3>1. \A n \in DOMAIN got[i] : Kept(got[i][n])
      BY DEF MemoryInv
    <3>2. SUFFICES ASSUME NEW n \in DOMAIN Append(got[i], i) PROVE Kept(Append(got[i], i)[n])
      OBVIOUS
    <3>3. (n \in DOMAIN got[i] /\ Append(got[i], i)[n] = got[i][n]) \/ Append(got[i], i)[n] = i
      BY <2>3, AppendOne
    <3>4. QED
      BY <2>2, <3>1, <3>3, Zenon
  <2>5. \A k \in Keys : \A n \in DOMAIN mem'[k] : Kept(mem'[k][n])
    BY ZenonT(60), <1>k, <2>1, <2>4 DEF MemoryInv
  <2>6. \A j : Kept(j) => Kept(j)'
    BY <1>1, <2>1 DEF Kept
  <2>7. Data'
    BY <1>1, <1>k, <2>1, <2>3
  <2>8. QED
    BY ZenonT(60), <1>t, <1>1, <2>1, <2>5, <2>6, <2>7 DEF MemoryInv, Live, Kept
<1>9. QED
  BY <1>2, <1>3, <1>4, <1>5, <1>6, <1>7, <1>8 DEF Orchestrate

\* A failing task leaves its Error part in the channel or is marked.
LEMMA FailMemory ==
  ASSUME Shape, TreeInv, MemoryInv, NEW i \in Ids, Fail(i), UNCHANGED <<pc, mem, got, out, consumer>>,
         ipc[i] \in {"start", "turn", "tool"}
  PROVE  Data' /\ MemoryInv'
<1> USE DEF Shape, Control, Data
<1>1. Part("error", i) \in Parts /\ Part("error", i).t = "error"
  BY PartsOfCalls
<1>2. /\ ich' \in [Ids -> Seq(Parts)]
      /\ \A j \in Ids : HasError(ich[j]) => HasError(ich'[j])
      /\ i \in refused' \/ HasError(ich'[i])
  BY <1>1, InnerFacts DEF Fail
<1>3. refused \subseteq refused' /\ fate' = [fate EXCEPT ![i] = "failed"] /\ ipc' = [ipc EXCEPT ![i] = "finishing"]
  BY DEF Fail
<1>4. pc[i] \in Live => pc[i] = "streaming"
  <2>1. pc[i] \notin {"reading", "writing"}
    BY Zenon DEF MemoryInv
  <2>2. pc[i] # "loading"
    BY Zenon DEF TreeInv
  <2>3. QED
    BY <2>1, <2>2, Zenon DEF Live
<1>5. \A j \in Ids : Kept(j) => Kept(j)'
  BY ZenonT(60), <1>3 DEF Kept, MemoryInv
<1>6. Data'
  BY <1>2, <1>3
<1>7. (\A k \in Keys : \A n \in DOMAIN mem[k] : Kept(mem[k][n]))'
  BY ZenonT(60), <1>5, KeptFrame
<1>8. (\A j \in Ids : \A n \in DOMAIN got[j] : Kept(got[j][n]))'
  BY ZenonT(60), <1>5, KeptFrame
<1>9. (\A j \in Ids : fate[j] = "failed" /\ pc[j] \in Live =>
         j \in refused \/ (pc[j] = "streaming" /\ HasError(ich[j])))'
  <2> SUFFICES ASSUME NEW j \in Ids, fate'[j] = "failed", pc[j] \in Live
               PROVE  j \in refused' \/ (pc[j] = "streaming" /\ HasError(ich'[j]))
    BY Zenon
  <2>1. CASE j = i
    BY <1>2, <1>4, <2>1
  <2>2. CASE j # i
    <3>1. fate[j] = "failed"
      BY <1>3, <2>2
    <3>2. QED
      BY <1>2, <1>3, <3>1, Zenon DEF MemoryInv
  <2>3. QED
    BY <2>1, <2>2
<1>10. (\A j \in Ids : fate[j] = "none" <=> ipc[j] \notin {"finishing", "ended"})'
  BY ZenonT(60), <1>3 DEF MemoryInv
<1>11. (\A j \in Ids : pc[j] \in {"reading", "writing"} => ipc[j] = "ended")'
  BY <1>3 DEF MemoryInv
<1>12. QED
  BY ZenonT(60), <1>6, <1>7, <1>8, <1>9, <1>10, <1>11 DEF MemoryInv

\* A step of an interpreter task touches no memory, and a failure sends its
\* Error part.
LEMMA InterpretMemory ==
  ASSUME Shape, TreeInv, MemoryInv, NEW i \in Ids, Interpret(i)
  PROVE  Data' /\ MemoryInv'
<1> USE DEF Shape, Control, Data
<1>0. ChannelOK
  BY TaskEmits
<1>1. out' \in Seq(Parts) /\ Len(out') <= OutCap /\ refused \subseteq refused'
  BY <1>0 DEF ChannelOK
<1>2. CASE StartTask(i)
  <2>1. CASE Cancelled(i)
    BY <1>2, <2>1, FailMemory DEF StartTask, memVars, outerVars
  <2>2. CASE ~Cancelled(i)
    <3>1. ipc[i] = "start" /\ ipc' = [ipc EXCEPT ![i] = "opening"]
          /\ UNCHANGED <<pc, ich, fate, refused, mem, got, consumer>>
      BY <1>2, <2>2 DEF StartTask, memVars, outerVars
    <3>2. QED
      BY ZenonT(60), <1>1, <3>1 DEF MemoryInv, Kept
  <2>3. QED
    BY <2>1, <2>2
<1>3. CASE CancelSeen(i) \/ StreamFails(i)
  BY <1>3, FailMemory DEF CancelSeen, StreamFails, memVars, outerVars
<1>4. CASE Opened(i)
  BY ZenonT(60), <1>1, <1>4 DEF Opened, memVars, outerVars, MemoryInv, Kept
<1>5. CASE StreamDone(i)
  <2>1. /\ ipc[i] = "turn" /\ ipc' = [ipc EXCEPT ![i] = "finishing"] /\ fate' = [fate EXCEPT ![i] = "ok"]
        /\ UNCHANGED <<pc, ich, mem, got, consumer>>
    BY <1>5 DEF StreamDone, memVars, outerVars
  <2>2. Data'
    BY <1>1, <2>1
  <2>3. \A j \in Ids : fate[j] # "none" => fate'[j] = fate[j]
    BY <2>1 DEF MemoryInv
  <2>4. \A j \in Ids : Kept(j) => Kept(j)'
    BY <1>1, <2>3 DEF Kept
  <2>5. /\ (\A k \in Keys : \A n \in DOMAIN mem[k] : Kept(mem[k][n]))'
        /\ (\A j \in Ids : \A n \in DOMAIN got[j] : Kept(got[j][n]))'
    BY ZenonT(60), <2>1, <2>4, KeptFrame
  <2>6. (\A j \in Ids : fate[j] = "none" <=> ipc[j] \notin {"finishing", "ended"})'
    BY ZenonT(60), <2>1 DEF MemoryInv
  <2>7. (\A j \in Ids : pc[j] \in {"reading", "writing"} => ipc[j] = "ended")'
    BY <2>1 DEF MemoryInv
  <2>8. \A j \in Ids : fate'[j] = "failed" => fate[j] = "failed"
    BY <2>1
  <2>9. (\A j \in Ids : fate[j] = "failed" /\ pc[j] \in Live =>
           j \in refused \/ (pc[j] = "streaming" /\ HasError(ich[j])))'
    BY ZenonT(60), <1>1, <2>1, <2>8 DEF MemoryInv
  <2>10. QED
    BY ZenonT(60), <2>2, <2>5, <2>6, <2>7, <2>9 DEF MemoryInv
<1>6. CASE ToolCall(i) \/ TakeResult(i)
  <2>1. PICK p \in Parts : ich' = InnerPut(i, p)
    <3>1. CASE ToolCall(i)
      <4>1. calls + 1 \in Ids
        BY <3>1, NextCall DEF ToolCall
      <4>2. QED
        BY <3>1, <4>1, PartsOfCalls DEF ToolCall
    <3>2. CASE TakeResult(i)
      BY <3>2, PartsOfCalls DEF TakeResult
    <3>3. QED
      BY <1>6, <3>1, <3>2
  <2>2. ich' \in [Ids -> Seq(Parts)] /\ \A j \in Ids : HasError(ich[j]) => HasError(ich'[j])
    BY SMTT(60), <2>1, InnerFacts
  <2>3. /\ ipc[i] \in {"turn", "tool"} /\ ipc' \in {[ipc EXCEPT ![i] = "tool"], [ipc EXCEPT ![i] = "turn"]}
        /\ UNCHANGED <<pc, fate, mem, got, consumer>>
    BY <1>6 DEF ToolCall, TakeResult, memVars, outerVars
  <2>4. QED
    BY ZenonT(60), <1>1, <2>2, <2>3 DEF MemoryInv, Kept
<1>7. CASE FinishTask(i)
  <2>1. /\ ipc[i] = "finishing" /\ ipc' = [ipc EXCEPT ![i] = "ended"]
        /\ UNCHANGED <<pc, ich, fate, mem, got, consumer>>
    BY <1>7 DEF FinishTask, memVars, outerVars
  <2>2. QED
    BY ZenonT(60), <1>1, <2>1 DEF MemoryInv, Kept
<1>8. QED
  BY <1>2, <1>3, <1>4, <1>5, <1>6, <1>7 DEF Interpret

\* An invocation that is taken up has neither failed nor remembered anything.
LEMMA TakenUpMemory ==
  ASSUME Shape, TreeInv, MemoryInv, ChannelOK, NEW i \in Ids, pc[i] = "none",
         pc' = [pc EXCEPT ![i] = FirstPosition(i)], ipc' = [ipc EXCEPT ![i] = FirstTask(i)],
         UNCHANGED <<ich, fate, mem, got, consumer>>
  PROVE  Data' /\ MemoryInv'
<1> USE DEF Shape, Control, Data
<1>1. out' \in Seq(Parts) /\ Len(out') <= OutCap /\ refused \subseteq refused'
  BY DEF ChannelOK
<1>2. ipc[i] = "none"
  BY DEF TreeInv
<1>3. FirstPosition(i) \in {"loading", "streaming"} /\ FirstTask(i) \in {"none", "start"}
  BY FirstFacts
<1>4. QED
  BY ZenonT(60), <1>1, <1>2, <1>3 DEF MemoryInv, Kept

\* A tool's task touches no memory.
LEMMA ToolMemory ==
  ASSUME Shape, TreeInv, MemoryInv, NEW c \in Calls, RunTool(c)
  PROVE  Data' /\ MemoryInv'
<1>1. ChannelOK
  BY ToolEmits
<1>2. UNCHANGED <<ich, fate, mem, got, consumer>>
  BY DEF RunTool, Announce, Admit, Delegate, ToolReturns, DelegationReturns, Return, toolFrame,
     memVars, outerVars
<1>3. CASE Delegate(c)
  <2>1. c \in Ids /\ pc[c] = "none"
    BY <1>3, IdsFacts DEF Delegate, TreeInv, Shape, Control, ToolPositions
  <2>2. QED
    BY <1>1, <1>2, <1>3, <2>1, TakenUpMemory DEF Delegate
<1>4. CASE ~Delegate(c)
  <2>1. UNCHANGED <<pc, ipc>>
    BY <1>4 DEF RunTool, Announce, Admit, ToolReturns, DelegationReturns, Return
  <2>2. QED
    BY ZenonT(60), <1>1, <1>2, <2>1 DEF ChannelOK, Shape, Data, MemoryInv, Kept
<1>5. QED
  BY <1>3, <1>4

\* Driver, consumer and host touch no memory.
LEMMA OuterMemory ==
  ASSUME Shape, TreeInv, MemoryInv, DriverStep \/ HostStep \/ UNCHANGED vars
  PROVE  Data' /\ MemoryInv'
<1>0. 0 \in Ids
  BY IdsFacts
<1>1. CASE BuildFails \/ DriverFails \/ DriverCloses
  BY ZenonT(60), <1>1, DriverEmits DEF DriverStep, BuildFails, DriverFails, DriverCloses, ChannelOK,
     taskVars, memVars, Shape, Data, MemoryInv, Kept
<1>2. CASE InvokeEntry
  <2>1. pc[0] = "none" /\ ChannelOK
    BY <1>2, DriverEmits DEF DriverStep, InvokeEntry, TreeInv
  <2>2. QED
    BY <1>0, <1>2, <2>1, TakenUpMemory DEF InvokeEntry, memVars
<1>3. CASE EntryRefused
  <2>1. pc' = [pc EXCEPT ![0] = "err"] /\ UNCHANGED <<ipc, ich, fate, mem, got, consumer>>
    BY <1>3 DEF EntryRefused, taskVars, memVars
  <2>2. ChannelOK
    BY <1>3, DriverEmits DEF DriverStep
  <2>3. QED
    BY ZenonT(60), <1>0, <2>1, <2>2 DEF ChannelOK, Shape, Control, Data, MemoryInv, Kept, Live
<1>4. CASE HostStep
  BY ZenonT(60), <1>4, ConsumerReads DEF HostStep, Receive, EndOfStream, Abandon, Cancel, ChannelOK,
     taskVars, memVars, Shape, Data, MemoryInv, Kept
<1>5. CASE UNCHANGED vars
  BY ZenonT(60), <1>5 DEF vars, Shape, Data, MemoryInv, Kept
<1>6. QED
  BY <1>1, <1>2, <1>3, <1>4, <1>5 DEF DriverStep

----------------------------------------------------------------------------
(* The report of a failure, and the end of the stream                        *)

\* When every sender is gone no invocation is alive: a delegation lives inside
\* the task of its tool call.
LEMMA GoneIsQuiet ==
  ASSUME TreeInv, SendersGone, NEW i \in Ids
  PROVE  pc[i] \notin Live
<1>1. CASE i = 0
  BY <1>1 DEF TreeInv, SendersGone
<1>2. CASE i \in Calls
  BY <1>2 DEF TreeInv, SendersGone
<1>3. QED
  BY <1>1, <1>2, IdsFacts

\* Whoever takes a step of a request below the driver keeps the stream open.
LEMMA StepperHoldsSender ==
  ASSUME TreeInv, (\E i \in Ids : Orchestrate(i) \/ Interpret(i)) \/ (\E c \in Calls : RunTool(c))
  PROVE  ~SendersGone
<1>1. ASSUME NEW i \in Ids, Orchestrate(i), SendersGone PROVE FALSE
  <2>1. pc[i] \in Live
    BY <1>1 DEF Orchestrate, Load, MemoryFails, Forward, ForwardError, StreamEnds, ReadMemory,
       WriteMemory, Live
  <2>2. QED
    BY <1>1, <2>1, GoneIsQuiet
<1>2. ASSUME NEW i \in Ids, Interpret(i), SendersGone PROVE FALSE
  BY <1>2, ZenonT(30) DEF Interpret, StartTask, Opened, CancelSeen, StreamFails, StreamDone, ToolCall,
     TakeResult, FinishTask, SendersGone
<1>3. ASSUME NEW c \in Calls, RunTool(c), SendersGone PROVE FALSE
  BY <1>3, ZenonT(30) DEF RunTool, Announce, Admit, Delegate, ToolReturns, DelegationReturns, SendersGone
<1>4. QED
  BY <1>1, <1>2, <1>3

\* What keeps a report: driver, consumer and the driver's Error part stay.
LEMMA ReportFrame ==
  ASSUME ReportInv, ~SendersGone, UNCHANGED <<driver, consumer, errors>>,
         driver = "closed" => out' = out /\ refused \subseteq refused' /\ pc'[0] = pc[0]
  PROVE  ReportInv'
<1>1. consumer # "ended"
  BY DEF ReportInv
<1>2. (driver = "closed" /\ pc[0] \in {"none", "err"} /\ consumer # "gone" =>
         \/ Driver \in errors \cup refused
         \/ \E n \in DOMAIN out : out[n] = Part("error", Driver))'
  BY DEF ReportInv, Driver, Part
<1>3. QED
  BY <1>1, <1>2 DEF ReportInv

\* Nobody but the consumer takes the driver's Error part out of the channel.
LEMMA InnerReport ==
  ASSUME Shape, TreeInv, ReportInv,
         (\E i \in Ids : Orchestrate(i) \/ Interpret(i)) \/ (\E c \in Calls : RunTool(c))
  PROVE  ReportInv'
<1>0. ~SendersGone /\ 0 \in Ids /\ Calls = Ids \ {0}
  BY StepperHoldsSender, IdsFacts
<1>1. ASSUME NEW i \in Ids, Orchestrate(i) PROVE ReportInv'
  <2>1. UNCHANGED <<driver, consumer, errors>>
    BY <1>1 DEF Orchestrate, Load, MemoryFails, Forward, ForwardError, StreamEnds, ReadMemory,
       WriteMemory, outerVars
  <2>2. pc[i] \in Live
    BY <1>1 DEF Orchestrate, Load, MemoryFails, Forward, ForwardError, StreamEnds, ReadMemory,
       WriteMemory, Live
  <2>3. UNCHANGED pc \/ \E s \in Positions : pc' = [pc EXCEPT ![i] = s]
    BY ZenonT(60), <1>1 DEF Orchestrate, Load, MemoryFails, Forward, ForwardError, StreamEnds, ReadMemory,
       WriteMemory, Positions, Live, Done
  <2>4. driver = "closed" => pc'[0] = pc[0]
    BY <1>0, <2>2, <2>3 DEF TreeInv, Shape, Control
  <2>5. driver = "closed" => out' = out /\ refused \subseteq refused'
    BY <1>1, InvokeEmits DEF Open, ChannelOK
  <2>6. QED
    BY <1>0, <2>1, <2>4, <2>5, ReportFrame
<1>2. ASSUME NEW i \in Ids, Interpret(i) PROVE ReportInv'
  <2>1. UNCHANGED <<driver, consumer, errors>> /\ UNCHANGED pc
    BY <1>2 DEF Interpret, StartTask, Opened, CancelSeen, StreamFails, StreamDone, ToolCall,
       TakeResult, FinishTask, outerVars
  <2>2. out' = out /\ refused \subseteq refused'
    BY <1>2, TaskEmits DEF ChannelOK
  <2>3. QED
    BY <1>0, <2>1, <2>2, ReportFrame
<1>3. ASSUME NEW c \in Calls, RunTool(c) PROVE ReportInv'
  <2>1. UNCHANGED <<driver, consumer, errors>>
    BY <1>3 DEF RunTool, Announce, Admit, Delegate, ToolReturns, DelegationReturns, Return, toolFrame, outerVars
  <2>2. UNCHANGED pc \/ pc' = [pc EXCEPT ![c] = FirstPosition(c)]
    BY <1>3 DEF RunTool, Announce, Admit, Delegate, ToolReturns, DelegationReturns, Return
  <2>3. pc'[0] = pc[0]
    BY <1>0, <2>2 DEF Shape, Control
  <2>4. driver = "closed" => out' = out /\ refused \subseteq refused'
    BY <1>3, ToolEmits DEF Open, ChannelOK
  <2>5. QED
    BY <1>0, <2>1, <2>3, <2>4, ReportFrame
<1>4. QED
  BY <1>1, <1>2, <1>3

\* The driver sends its Error part before it closes, and the consumer reads
\* in order.
LEMMA OuterReport ==
  ASSUME Shape, TreeInv, ReportInv, DriverStep \/ HostStep \/ UNCHANGED vars
  PROVE  ReportInv'
<1> DEFINE Sent == \E n \in DOMAIN out : out[n] = Part("error", Driver)
<1>1. CASE BuildFails \/ DriverFails
  <2>1. Emit(Part("error", Driver), {Driver}) /\ Part("error", Driver) \in Parts
    BY <1>1, PartsOfCalls, IdsFacts DEF BuildFails, DriverFails
  <2>2. Driver \in refused' \/ \E n \in DOMAIN out' : out'[n] = Part("error", Driver)
    BY <2>1, EmitFacts
  <2>3. consumer' # "ended"
    BY <1>1 DEF BuildFails, DriverFails, ReportInv, SendersGone
  <2>4. QED
    BY <2>2, <2>3 DEF ReportInv, Driver, Part
<1>2. CASE InvokeEntry \/ EntryRefused \/ DriverCloses
  <2>1. driver' # "closed" \/ pc'[0] = "ok"
    BY <1>2 DEF InvokeEntry, EntryRefused, DriverCloses
  <2>2. consumer' # "ended"
    BY <1>2 DEF InvokeEntry, EntryRefused, DriverCloses, ReportInv, SendersGone
  <2>3. QED
    BY <2>1, <2>2 DEF ReportInv
<1>3. CASE Receive
  <2>1. UNCHANGED <<driver, pc, consumer, refused>> /\ consumer = "reading" /\ errors \subseteq errors'
    BY ZenonT(60), <1>3 DEF Receive
  <2>2. ASSUME Sent PROVE Driver \in errors' \/ Sent'
    <3>1. PICK n \in DOMAIN out : out[n] = Part("error", Driver)
      BY <2>2
    <3>2. CASE n = 1
      <4>1. Head(out) = Part("error", Driver)
        BY <3>1, <3>2, <1>3 DEF Receive, Shape, Data
      <4>2. Head(out).t = "error" /\ Head(out).id = Driver
        BY <4>1 DEF Part
      <4>3. QED
        BY <1>3, <4>2 DEF Receive
    <3>3. CASE n # 1
      <4>1. out' = Tail(out) /\ n - 1 \in DOMAIN out' /\ out'[n - 1] = out[n]
        BY <1>3, <3>3 DEF Receive, Shape, Data
      <4>2. QED
        BY <3>1, <4>1 DEF Driver, Part
    <3>4. QED
      BY <3>2, <3>3
  <2>3. QED
    BY <2>1, <2>2 DEF ReportInv, Driver, Part
<1>4. CASE EndOfStream
  <2>1. /\ UNCHANGED <<driver, pc, ipc, tpc, out, errors, refused>>
        /\ consumer = "reading" /\ out = <<>> /\ SendersGone
    BY <1>4 DEF EndOfStream, taskVars
  <2>2. QED
    BY <2>1 DEF ReportInv, SendersGone, Driver, Part
<1>5. CASE Abandon
  BY <1>5 DEF Abandon, ReportInv
<1>6. CASE Cancel \/ UNCHANGED vars
  BY <1>6 DEF Cancel, vars, taskVars, ReportInv, SendersGone, Driver, Part
<1>7. QED
  BY <1>1, <1>2, <1>3, <1>4, <1>5, <1>6 DEF DriverStep, HostStep

----------------------------------------------------------------------------
(* The theorems                                                              *)

\* The invariant holds when a request starts.
LEMMA ReqInvInit == Init => ReqInv
<1> SUFFICES ASSUME Init PROVE ReqInv
  OBVIOUS
<1>1. 0 \in Ids /\ MaxCalls \in Nat /\ OutCap \in Nat /\ \A c \in Calls : c \in Nat /\ c # 0
  BY IdsFacts, RequestAssumption DEF Calls
<1>2. Control
  BY <1>1 DEF Init, Control, Positions, TaskPositions, ToolPositions
<1>3. Data
  BY <1>1 DEF Init, Data
<1>4. TreeInv
  <2>1. \A c \in Calls : ~(c <= 0)
    BY <1>1
  <2>2. QED
    BY <1>1, <2>1, IdsFacts DEF Init, TreeInv, Live
<1>5. MemoryInv
  BY DEF Init, MemoryInv, Live
<1>6. ReportInv
  BY DEF Init, ReportInv
<1>7. QED
  BY <1>2, <1>3, <1>4, <1>5, <1>6 DEF ReqInv, Shape

\* A step is one of an invoke, of an interpreter task, of a tool's task, or of the
\* driver, the consumer or the host.
LEMMA StepKinds ==
  ASSUME [Next]_vars
  PROVE  \/ \E i \in Ids : Orchestrate(i)
         \/ \E i \in Ids : Interpret(i)
         \/ \E c \in Calls : RunTool(c)
         \/ DriverStep \/ HostStep \/ UNCHANGED vars
BY DEF Next, RequestStep, DriverStep, HostStep

\* Every step of a request keeps the invariant.
LEMMA ReqInvNext == ReqInv /\ [Next]_vars => ReqInv'
<1> SUFFICES ASSUME ReqInv, [Next]_vars PROVE ReqInv'
  OBVIOUS
<1> USE DEF ReqInv, Shape
<1>1. CASE \E i \in Ids : Orchestrate(i)
  BY <1>1, OrchestrateTree, OrchestrateMemory, InnerReport
<1>2. CASE \E i \in Ids : Interpret(i)
  BY <1>2, InterpretTree, InterpretMemory, InnerReport
<1>3. CASE \E c \in Calls : RunTool(c)
  BY <1>3, ToolTree, ToolMemory, InnerReport
<1>4. CASE DriverStep \/ HostStep \/ UNCHANGED vars
  BY <1>4, OuterTree, OuterMemory, OuterReport
<1>5. QED
  BY <1>1, <1>2, <1>3, <1>4, StepKinds

\* The inductive invariant holds in every reachable state.
THEOREM RequestInvariant == Spec => []ReqInv
  BY ReqInvInit, ReqInvNext, PTL DEF Spec

\* What memory keeps of a conversation are turns that went well, except for a
\* turn whose Error part found the interpreter's channel full (invoke returns Ok
\* for it): whatever the depth of delegation, the capacities and the moment of
\* the cancellation.
THEOREM MemoryKeepsSuccesses == Spec => []RememberedSucceeded
<1>1. ReqInv => RememberedSucceeded
  BY DEF ReqInv, MemoryInv, Kept, RememberedSucceeded
<1>2. QED
  BY <1>1, RequestInvariant, PTL

\* The end of the stream means the end of the request: no invocation, no
\* delegation and no tool call is left behind it, not even one whose caller was
\* cancelled while it ran.
THEOREM NothingOutlivesStream == Spec => []QuietAfterEnd
<1>1. ReqInv => QuietAfterEnd
  BY GoneIsQuiet DEF ReqInv, ReportInv, QuietAfterEnd, SendersGone
<1>2. QED
  BY <1>1, RequestInvariant, PTL

\* A consumer that reads to the end learns of the failure of its request, or the
\* request channel was full when the driver reported it.
THEOREM FailureReachesConsumer == Spec => []FailureReported
<1>1. ReqInv => FailureReported
  BY DEF ReqInv, ReportInv, FailureReported, SendersGone
<1>2. QED
  BY <1>1, RequestInvariant, PTL

\* Once the consumer has seen the end of the stream nothing of the request changes
\* any more: no invocation and no tool begins or ends, no turn is remembered and
\* nothing is sent.  A host that starts its next request then reads the final
\* memory.
EndIsFinal == [][consumer = "ended" => UNCHANGED <<pc, ipc, tpc, mem, got, out, driver>>]_vars

\* The end of the stream is final, for any tree of delegations and any tools that
\* outlive their callers.
THEOREM StreamEndIsFinal == Spec => EndIsFinal
<1> DEFINE Final == consumer = "ended" => UNCHANGED <<pc, ipc, tpc, mem, got, out, driver>>
<1>1. ReqInv /\ [Next]_vars => [Final]_vars
  <2> SUFFICES ASSUME ReqInv, Next, consumer = "ended"
               PROVE  UNCHANGED <<pc, ipc, tpc, mem, got, out, driver>>
    OBVIOUS
  <2>1. SendersGone /\ TreeInv
    BY DEF ReqInv, ReportInv
  <2>2. ~DriverStep
    BY <2>1 DEF SendersGone, DriverStep, BuildFails, InvokeEntry, EntryRefused, DriverFails, DriverCloses
  <2>3. ~(Receive \/ EndOfStream \/ Abandon)
    BY DEF Receive, EndOfStream, Abandon
  <2>4. Cancel
    BY <2>1, <2>2, <2>3, StepperHoldsSender DEF Next, RequestStep, DriverStep
  <2>5. QED
    BY <2>4 DEF Cancel, taskVars, memVars
<1>2. QED
  BY <1>1, RequestInvariant, PTL DEF Spec, EndIsFinal

----------------------------------------------------------------------------
(* Nobody waits for somebody who waits                                       *)

\* No step that the runtime polls can be taken: not the driver's, not an invoke's
\* (a storage call answers, a part waits in the channel or its task is gone), not
\* an interpreter task's, the cancellation branch of its select! included, and not
\* that of a tool call which is queued or whose delegation has answered.
Blocked ==
  /\ driver # "building" /\ ~(driver = "invoking" /\ pc[0] \in Done)
  /\ \A i \in Ids :
       /\ pc[i] \notin {"loading", "reading", "writing"}
       /\ pc[i] = "streaming" => ich[i] = <<>> /\ ipc[i] # "ended"
       /\ ipc[i] \notin {"start", "opening", "finishing"}
       /\ ipc[i] \in {"turn", "tool"} => ~Cancelled(i)
       /\ ipc[i] = "tool" => tpc[tool[i]] # "done"
  /\ \A c \in Calls : tpc[c] # "queued" /\ (tpc[c] = "delegating" => pc[c] \notin Done)

\* A request in which nothing can move is over, or waits for the outside: a task
\* that is not cancelled awaits the provider's stream, or a tool call the approval
\* gate or the tool itself.  Driver, invokes, tasks, tool calls and delegations
\* never wait for each other in a circle, however deep the delegation; what keeps
\* a cancelled request open is a tool that has not returned.
WaitsOutside ==
  Blocked =>
    \/ SendersGone
    \/ \E i \in Ids : ipc[i] = "turn" /\ ~Cancelled(i)
    \/ \E c \in Calls : tpc[c] \in {"gated", "running"}

\* The entry agent's invoke is there for the driver, a stream has a task behind
\* it, a delegating call an invoke, and a tool call is younger than its owner.
WaitInv ==
  /\ driver = "invoking" => pc[0] # "none"
  /\ \A i \in Ids : pc[i] = "streaming" => ipc[i] # "none"
  /\ \A c \in Calls : tpc[c] = "delegating" => pc[c] # "none"
  /\ \A i \in Ids : tool[i] # 0 => i < tool[i]

\* Among the invocations of a nonempty set there is a youngest.
LEMMA YoungestExists ==
  ASSUME NEW T, T \subseteq Ids, T # {}
  PROVE  \E x \in T : \A y \in T : y <= x
<1> DEFINE R == OpToRel(<, Nat)
           U == {MaxCalls - x : x \in T}
<1>1. IsWellFoundedOn(R, Nat)
  BY NatLessThanWellFounded
<1>2. \A x, y \in Nat : y < x => <<y, x>> \in R
  BY DEF OpToRel
<1> HIDE DEF R
<1>3. U \subseteq Nat /\ U # {}
  <2>1. \A x \in T : MaxCalls - x \in Nat
    BY RequestAssumption DEF Ids
  <2>2. PICK x \in T : TRUE
    OBVIOUS
  <2>3. MaxCalls - x \in U
    BY <2>2
  <2>4. QED
    BY <2>1, <2>3
<1> HIDE DEF U
<1>4. PICK u \in U : \A y \in U : ~(<<y, u>> \in R)
  BY <1>1, <1>3, WFMin, Zenon
<1>5. PICK x \in T : u = MaxCalls - x
  BY DEF U
<1>6. ASSUME NEW y \in T PROVE y <= x
  <2>1. MaxCalls - y \in U
    BY DEF U
  <2>2. ~(MaxCalls - y < u)
    BY <1>2, <1>3, <1>4, <2>1
  <2>3. QED
    BY <1>5, <2>2, RequestAssumption DEF Ids
<1>7. QED
  BY <1>6

\* A step of invoke keeps what others wait for.
LEMMA OrchestrateWait ==
  ASSUME Control, TreeInv, WaitInv, NEW i \in Ids, Orchestrate(i)
  PROVE  WaitInv'
<1> USE DEF Control, WaitInv
<1>a. 0 \in Ids /\ Calls = Ids \ {0}
  BY IdsFacts
<1>1. CASE Load(i)
  BY <1>1, <1>a DEF Load, outerVars
<1>2. CASE MemoryFails(i) \/ ForwardError(i)
  <2>1. pc' = [pc EXCEPT ![i] = "err"] /\ UNCHANGED <<ipc, tool, tpc, driver>>
    BY <1>2 DEF MemoryFails, ForwardError, taskVars, outerVars
  <2>2. QED
    BY <1>a, <2>1
<1>3. CASE Forward(i)
  BY <1>3, <1>a DEF Forward, taskVars, outerVars
<1>4. CASE StreamEnds(i)
  <2>1. pc' = [pc EXCEPT ![i] = "reading"] \/ pc' = [pc EXCEPT ![i] = "ok"]
    BY <1>4 DEF StreamEnds
  <2>2. UNCHANGED <<ipc, tool, tpc, driver>>
    BY <1>4 DEF StreamEnds, taskVars, outerVars
  <2>3. QED
    BY <1>a, <2>1, <2>2
<1>5. CASE ReadMemory(i) \/ WriteMemory(i)
  <2>1. pc' = [pc EXCEPT ![i] = "writing"] \/ pc' = [pc EXCEPT ![i] = "ok"]
    BY <1>5 DEF ReadMemory, WriteMemory
  <2>2. UNCHANGED <<ipc, tool, tpc, driver>>
    BY <1>5 DEF ReadMemory, WriteMemory, taskVars, outerVars
  <2>3. QED
    BY <1>a, <2>1, <2>2
<1>6. QED
  BY <1>1, <1>2, <1>3, <1>4, <1>5 DEF Orchestrate

\* So does a step of an interpreter task.
LEMMA InterpretWait ==
  ASSUME Control, TreeInv, WaitInv, NEW i \in Ids, Interpret(i)
  PROVE  WaitInv'
<1> USE DEF Control, WaitInv
<1>a. 0 \in Ids /\ Calls = Ids \ {0}
  BY IdsFacts
<1>1. CASE StartTask(i) \/ CancelSeen(i) \/ StreamFails(i)
  <2>1. ipc' = [ipc EXCEPT ![i] = "finishing"] \/ ipc' = [ipc EXCEPT ![i] = "opening"]
    BY <1>1 DEF StartTask, CancelSeen, StreamFails, Fail
  <2>2. UNCHANGED <<pc, tool, tpc, driver>>
    BY <1>1 DEF StartTask, CancelSeen, StreamFails, outerVars
  <2>3. QED
    BY <1>a, <2>1, <2>2
<1>2. CASE Opened(i) \/ StreamDone(i)
  BY <1>2, <1>a DEF Opened, StreamDone, outerVars
<1>3. CASE ToolCall(i)
  <2>1. calls \in Nat /\ i \in Nat /\ calls + 1 \in Calls
    BY <1>3, RequestAssumption DEF ToolCall, Ids, Calls
  <2>2. pc[i] # "none"
    BY <1>3 DEF ToolCall, TreeInv
  <2>3. i < calls + 1
    BY <1>a, <2>1, <2>2 DEF TreeInv
  <2>4. /\ tool' = [tool EXCEPT ![i] = calls + 1] /\ tpc' = [tpc EXCEPT ![calls + 1] = "queued"]
        /\ ipc' = [ipc EXCEPT ![i] = "tool"] /\ UNCHANGED <<pc, driver>>
    BY <1>3 DEF ToolCall, outerVars
  <2>5. QED
    BY <1>a, <2>1, <2>3, <2>4
<1>4. CASE TakeResult(i)
  BY <1>4, <1>a DEF TakeResult, outerVars
<1>5. CASE FinishTask(i)
  BY <1>5, <1>a DEF FinishTask, outerVars
<1>6. QED
  BY <1>1, <1>2, <1>3, <1>4, <1>5 DEF Interpret

\* So does a step of a tool's task.
LEMMA ToolWait ==
  ASSUME Control, TreeInv, WaitInv, NEW c \in Calls, RunTool(c)
  PROVE  WaitInv'
<1> USE DEF Control, WaitInv
<1>a. 0 \in Ids /\ Calls = Ids \ {0} /\ c \in Ids /\ c # 0
  BY IdsFacts
<1>1. CASE Announce(c) \/ Admit(c)
  BY <1>1, <1>a DEF Announce, Admit, toolFrame, outerVars
<1>2. CASE Delegate(c)
  <2>1. /\ tpc' = [tpc EXCEPT ![c] = "delegating"]
        /\ pc' = [pc EXCEPT ![c] = FirstPosition(c)] /\ ipc' = [ipc EXCEPT ![c] = FirstTask(c)]
        /\ UNCHANGED <<tool, driver>>
    BY <1>2 DEF Delegate, toolFrame, outerVars
  <2>2. QED
    BY <1>a, <2>1, FirstFacts
<1>3. CASE ToolReturns(c) \/ DelegationReturns(c)
  BY <1>3, <1>a DEF ToolReturns, DelegationReturns, Return, toolFrame, outerVars
<1>4. QED
  BY <1>1, <1>2, <1>3 DEF RunTool

\* And so does every other step.
LEMMA OuterWait ==
  ASSUME Control, TreeInv, WaitInv, DriverStep \/ HostStep \/ UNCHANGED vars
  PROVE  WaitInv'
<1> USE DEF Control, WaitInv
<1>a. 0 \in Ids /\ Calls = Ids \ {0}
  BY IdsFacts
<1>1. CASE BuildFails \/ DriverFails \/ DriverCloses
  BY <1>1 DEF BuildFails, DriverFails, DriverCloses, taskVars
<1>2. CASE InvokeEntry
  <2>1. /\ pc' = [pc EXCEPT ![0] = FirstPosition(0)] /\ ipc' = [ipc EXCEPT ![0] = FirstTask(0)]
        /\ UNCHANGED <<tool, tpc>>
    BY <1>2 DEF InvokeEntry
  <2>2. QED
    BY <1>a, <2>1, FirstFacts
<1>3. CASE EntryRefused
  BY <1>3, <1>a DEF EntryRefused, taskVars
<1>4. CASE HostStep \/ UNCHANGED vars
  BY <1>4 DEF HostStep, Receive, EndOfStream, Abandon, Cancel, vars, taskVars
<1>5. QED
  BY <1>1, <1>2, <1>3, <1>4 DEF DriverStep

\* In a blocked request an invocation that is alive has a task that runs.
LEMMA LiveHasTask ==
  ASSUME WaitInv, Blocked, NEW i \in Ids, pc[i] \in Live
  PROVE  ipc[i] \notin {"none", "ended"}
BY DEF WaitInv, Blocked, Live

\* The youngest task that runs waits for nobody inside the request.
LEMMA YoungestWaitsOutside ==
  ASSUME Control, TreeInv, WaitInv, Blocked, ~SendersGone
  PROVE  \/ \E i \in Ids : ipc[i] = "turn" /\ ~Cancelled(i)
         \/ \E c \in Calls : tpc[c] \in {"gated", "running"}
<1> DEFINE Active == {i \in Ids : ipc[i] \notin {"none", "ended"}}
<1>a. 0 \in Ids /\ Calls = Ids \ {0}
  BY IdsFacts
<1>0. SUFFICES ASSUME \A c \in Calls : tpc[c] \notin {"gated", "running"}
               PROVE  \E i \in Ids : ipc[i] = "turn" /\ ~Cancelled(i)
  OBVIOUS
<1>1. ASSUME NEW c \in Calls, tpc[c] \notin {"none", "done"}
      PROVE  c \in Active
  <2>1. tpc[c] = "delegating"
    BY <1>0, <1>1 DEF Blocked, Control, ToolPositions
  <2>2. pc[c] \in Live
    BY <1>a, <2>1 DEF Blocked, WaitInv, Control, Positions
  <2>3. QED
    BY <1>a, <2>2, LiveHasTask
<1>2. Active # {}
  <2>1. CASE driver # "closed"
    <3>1. pc[0] \in Live
      BY <1>a, <2>1 DEF Blocked, WaitInv, Control, Positions
    <3>2. QED
      BY <1>a, <3>1, LiveHasTask
  <2>2. CASE driver = "closed"
    BY <1>1, <2>2 DEF SendersGone
  <2>3. QED
    BY <2>1, <2>2
<1>3. PICK i \in Active : \A j \in Active : j <= i
  BY <1>2, YoungestExists
<1>4. ipc[i] \in {"turn", "tool"} /\ ~Cancelled(i) /\ i \in Ids
  BY DEF Blocked, Control, TaskPositions
<1>5. ipc[i] # "tool"
  <2> SUFFICES ASSUME ipc[i] = "tool" PROVE FALSE
    OBVIOUS
  <2>1. tool[i] \in Calls /\ i < tool[i] /\ tpc[tool[i]] \notin {"none", "done"}
    BY <1>a, <1>4 DEF TreeInv, WaitInv, Control, Blocked
  <2>2. tool[i] \in Active
    BY <1>1, <2>1
  <2>3. tool[i] <= i
    BY <1>3, <2>2
  <2>4. tool[i] \in Nat /\ i \in Nat
    BY <1>4, <2>2, RequestAssumption DEF Ids
  <2>5. QED
    BY <2>1, <2>3, <2>4
<1>6. QED
  BY <1>4, <1>5

\* A request never blocks on itself, for any number of nested delegations, any
\* capacity of the channels and any moment of a cancellation: the safety half of
\* CancelStopsAgents.
THEOREM NoCircularWait == Spec => []WaitsOutside
<1>1. Init => WaitInv
  BY DEF Init, WaitInv
<1>2. ReqInv /\ WaitInv /\ [Next]_vars => WaitInv'
  <2> SUFFICES ASSUME Control, TreeInv, WaitInv, [Next]_vars PROVE WaitInv'
    BY DEF ReqInv, Shape
  <2>1. QED
    BY StepKinds, OrchestrateWait, InterpretWait, ToolWait, OuterWait
<1>3. ReqInv /\ WaitInv => WaitsOutside
  BY YoungestWaitsOutside DEF ReqInv, Shape, WaitsOutside
<1>4. QED
  BY <1>1, <1>2, <1>3, RequestInvariant, PTL DEF Spec

----------------------------------------------------------------------------
(* Who leaves a tool behind                                                  *)

\* The task that made the call still waits for its answer.
Awaited(c) == tool[owner[c]] = c /\ ipc[owner[c]] = "tool"

AllAwaited == \A c \in Calls : tpc[c] \notin {"none", "done"} => Awaited(c)

\* A tool call, and with it a whole delegation, that runs with nobody to take its
\* answer is left from a cancellation of the request: neither a failing invoke,
\* whose bracket releases the token of its task, nor a failing provider detaches
\* the work of a request that goes on.
OrphansAreCancelled == ~cancelled => AllAwaited

\* A token is released only after its task has stopped, since an Error part comes
\* from a task that failed.
ReleaseInv ==
  /\ \A i \in released : i \in Ids /\ ipc[i] \in {"finishing", "ended"}
  /\ \A i \in Ids : HasError(ich[i]) => fate[i] = "failed"

\* A step of invoke releases the token of a task that has stopped.
LEMMA OrchestrateRelease ==
  ASSUME Shape, TreeInv, MemoryInv, ReleaseInv, NEW i \in Ids, Orchestrate(i)
  PROVE  ReleaseInv'
<1> USE DEF Shape, Control, Data, ReleaseInv
<1>1. CASE Load(i)
  <2>1. ipc[i] = "none" /\ ipc' = [ipc EXCEPT ![i] = "start"] /\ UNCHANGED <<released, ich, fate>>
    BY <1>1 DEF Load, TreeInv
  <2>2. QED
    BY <2>1
<1>2. CASE Forward(i)
  <2>1. /\ ich[i] \in Seq(Parts) /\ ich[i] # <<>> /\ ich' = [ich EXCEPT ![i] = Tail(ich[i])]
        /\ UNCHANGED <<ipc, released, fate>>
    BY <1>2 DEF Forward, taskVars
  <2>2. HasError(Tail(ich[i])) => HasError(ich[i])
    BY <2>1, TailFacts
  <2>3. QED
    BY <2>1, <2>2
<1>3. CASE ForwardError(i)
  <2>1. /\ ich[i] \in Seq(Parts) /\ ich[i] # <<>> /\ Head(ich[i]).t = "error"
        /\ ich' = [ich EXCEPT ![i] = <<>>] /\ released' = released \cup {i} /\ UNCHANGED <<ipc, fate>>
    BY <1>3 DEF ForwardError, taskVars
  <2>3. HasError(ich[i]) /\ ~HasError(<<>>)
    BY <2>1, TailFacts, EmptyHasNone
  <2>4. ipc[i] \in {"finishing", "ended"}
    BY <2>3 DEF MemoryInv
  <2>5. QED
    BY <2>1, <2>3, <2>4
<1>4. CASE StreamEnds(i)
  BY <1>4 DEF StreamEnds, taskVars
<1>5. CASE MemoryFails(i) \/ ReadMemory(i) \/ WriteMemory(i)
  BY <1>5 DEF MemoryFails, ReadMemory, WriteMemory, taskVars
<1>6. QED
  BY <1>1, <1>2, <1>3, <1>4, <1>5 DEF Orchestrate

\* A task whose token is released has stopped, and one that fails says so.
LEMMA InterpretRelease ==
  ASSUME Shape, TreeInv, MemoryInv, ReleaseInv, NEW i \in Ids, Interpret(i)
  PROVE  ReleaseInv'
<1> USE DEF Shape, Control, Data, ReleaseInv
<1>1. ASSUME Fail(i), UNCHANGED released PROVE ReleaseInv'
  <2>1. /\ ipc' = [ipc EXCEPT ![i] = "finishing"] /\ fate' = [fate EXCEPT ![i] = "failed"]
        /\ ich' = InnerPut(i, Part("error", i))
    BY <1>1 DEF Fail
  <2>2. \A j \in Ids : j # i => ich'[j] = ich[j]
    BY <2>1 DEF InnerPut
  <2>3. QED
    BY <1>1, <2>1, <2>2
<1>2. CASE StartTask(i)
  <2>1. \/ Fail(i)
        \/ ipc' = [ipc EXCEPT ![i] = "opening"] /\ UNCHANGED <<ich, refused, fate>>
    BY <1>2 DEF StartTask
  <2>2. ipc[i] = "start" /\ UNCHANGED released
    BY <1>2 DEF StartTask
  <2>3. QED
    BY <1>1, <2>1, <2>2
<1>3. CASE CancelSeen(i) \/ StreamFails(i)
  BY <1>1, <1>3 DEF CancelSeen, StreamFails
<1>4. CASE Opened(i)
  BY <1>4 DEF Opened
<1>5. CASE StreamDone(i)
  <2>1. fate[i] = "none"
    BY <1>5 DEF StreamDone, MemoryInv
  <2>2. QED
    BY <1>5, <2>1 DEF StreamDone
<1>6. CASE ToolCall(i) \/ TakeResult(i)
  <2>1. PICK p \in Parts : p.t # "error" /\ ich' = InnerPut(i, p)
    <3>1. CASE ToolCall(i)
      <4>1. calls + 1 \in Ids
        BY <3>1, NextCall DEF ToolCall
      <4>2. QED
        BY <3>1, <4>1, PartsOfCalls DEF ToolCall
    <3>2. CASE TakeResult(i)
      BY <3>2, PartsOfCalls DEF TakeResult
    <3>3. QED
      BY <1>6, <3>1, <3>2
  <2>2. \A j \in Ids : HasError(ich'[j]) => HasError(ich[j])
    BY <2>1, InnerFacts
  <2>3. /\ ipc[i] \in {"turn", "tool"} /\ UNCHANGED <<released, fate>>
        /\ ipc' = [ipc EXCEPT ![i] = "tool"] \/ ipc' = [ipc EXCEPT ![i] = "turn"]
    BY <1>6 DEF ToolCall, TakeResult
  <2>4. QED
    BY <2>2, <2>3
<1>7. CASE FinishTask(i)
  BY <1>7 DEF FinishTask
<1>8. QED
  BY <1>2, <1>3, <1>4, <1>5, <1>6, <1>7 DEF Interpret

\* Nobody else releases a token or sends on a task's channel.
LEMMA OtherRelease ==
  ASSUME Shape, TreeInv, ReleaseInv,
         (\E c \in Calls : RunTool(c)) \/ DriverStep \/ HostStep \/ UNCHANGED vars
  PROVE  ReleaseInv'
<1> USE DEF Shape, Control, ReleaseInv
<1>0. 0 \in Ids /\ Calls = Ids \ {0}
  BY IdsFacts
<1>1. UNCHANGED <<released, ich, fate>>
  BY DEF RunTool, Announce, Admit, Delegate, ToolReturns, DelegationReturns, Return, toolFrame,
     DriverStep, BuildFails, InvokeEntry, EntryRefused, DriverFails, DriverCloses,
     HostStep, Receive, EndOfStream, Abandon, Cancel, taskVars, vars
<1>2. UNCHANGED ipc \/ \E j \in Ids : ipc[j] = "none" /\ ipc' = [ipc EXCEPT ![j] = FirstTask(j)]
  <2>1. ASSUME NEW c \in Calls, Delegate(c)
        PROVE  c \in Ids /\ ipc[c] = "none" /\ ipc' = [ipc EXCEPT ![c] = FirstTask(c)]
    <3>1. c \in Ids /\ pc[c] = "none"
      BY <1>0, <2>1 DEF Delegate, TreeInv, ToolPositions
    <3>2. QED
      BY <2>1, <3>1 DEF Delegate, TreeInv
  <2>2. ASSUME InvokeEntry PROVE ipc[0] = "none" /\ ipc' = [ipc EXCEPT ![0] = FirstTask(0)]
    BY <1>0, <2>2 DEF InvokeEntry, TreeInv
  <2>3. (\E c \in Calls : Delegate(c)) \/ InvokeEntry \/ UNCHANGED ipc
    BY DEF RunTool, Announce, Admit, ToolReturns, DelegationReturns, Return,
       DriverStep, BuildFails, EntryRefused, DriverFails, DriverCloses,
       HostStep, Receive, EndOfStream, Abandon, Cancel, taskVars, vars
  <2>4. QED
    BY <1>0, <2>1, <2>2, <2>3
<1>3. QED
  BY <1>1, <1>2

\* No step but a cancellation sets the flag, and none takes it back.
LEMMA FlagStays ==
  ASSUME [Next]_vars, ~Cancel
  PROVE  cancelled' = cancelled
<1>1. ASSUME NEW i \in Ids, Orchestrate(i) PROVE cancelled' = cancelled
  BY <1>1, ZenonT(40) DEF Orchestrate, Load, MemoryFails, Forward, ForwardError, StreamEnds, ReadMemory,
     WriteMemory, outerVars
<1>2. ASSUME NEW i \in Ids, Interpret(i) PROVE cancelled' = cancelled
  BY <1>2, ZenonT(40) DEF Interpret, StartTask, Opened, CancelSeen, StreamFails, StreamDone, ToolCall,
     TakeResult, FinishTask, outerVars
<1>3. ASSUME NEW c \in Calls, RunTool(c) PROVE cancelled' = cancelled
  BY <1>3, ZenonT(40) DEF RunTool, Announce, Admit, Delegate, ToolReturns, DelegationReturns, Return,
     toolFrame, outerVars
<1>4. ASSUME DriverStep PROVE cancelled' = cancelled
  BY <1>4, ZenonT(40) DEF DriverStep, BuildFails, InvokeEntry, EntryRefused, DriverFails, DriverCloses
<1>5. ASSUME HostStep \/ UNCHANGED vars PROVE cancelled' = cancelled
  BY <1>5, ZenonT(40) DEF HostStep, Receive, EndOfStream, Abandon, vars
<1>6. QED
  BY <1>1, <1>2, <1>3, <1>4, <1>5, StepKinds, Zenon

\* An interpreter task gives up an answer only when its token is cancelled.
LEMMA InterpretAwaits ==
  ASSUME Shape, TreeInv, ReleaseInv, ~cancelled, AllAwaited, NEW i \in Ids, Interpret(i)
  PROVE  AllAwaited'
<1> USE DEF Shape, Control, AllAwaited, Awaited
<1>a. 0 \in Ids /\ Calls = Ids \ {0}
  BY IdsFacts
<1>0. ASSUME ipc[i] # "tool", UNCHANGED <<owner, tpc>>,
             \A j \in Ids : j # i => ipc'[j] = ipc[j] /\ tool'[j] = tool[j]
      PROVE  AllAwaited'
  BY <1>0, <1>a
<1>1. CASE StartTask(i)
  <2>1. ipc[i] = "start" /\ UNCHANGED <<owner, tpc, tool>>
    BY <1>1 DEF StartTask
  <2>2. ipc' = [ipc EXCEPT ![i] = "finishing"] \/ ipc' = [ipc EXCEPT ![i] = "opening"]
    BY <1>1 DEF StartTask, Fail
  <2>3. QED
    BY <1>0, <2>1, <2>2
<1>2. CASE Opened(i) \/ StreamFails(i) \/ StreamDone(i)
  BY <1>0, <1>2 DEF Opened, StreamFails, StreamDone, Fail
<1>3. CASE CancelSeen(i)
  <2>1. i \in released
    BY <1>3, Zenon DEF CancelSeen, Cancelled
  <2>2. ipc[i] \in {"turn", "tool"}
    BY <1>3 DEF CancelSeen
  <2>3. QED
    BY <2>1, <2>2 DEF ReleaseInv
<1>4. CASE ToolCall(i)
  <2>1. calls + 1 \in Calls
    BY <1>4, RequestAssumption DEF ToolCall, Calls
  <2>2. /\ ipc[i] = "turn" /\ ipc' = [ipc EXCEPT ![i] = "tool"]
        /\ owner' = [owner EXCEPT ![calls + 1] = i] /\ tool' = [tool EXCEPT ![i] = calls + 1]
        /\ tpc' = [tpc EXCEPT ![calls + 1] = "queued"]
    BY <1>4 DEF ToolCall
  <2>3. QED
    BY <1>a, <2>1, <2>2
<1>5. CASE TakeResult(i)
  BY <1>5, <1>a DEF TakeResult
<1>6. CASE FinishTask(i)
  <2>1. ipc[i] = "finishing" /\ ipc' = [ipc EXCEPT ![i] = "ended"] /\ tool' = [tool EXCEPT ![i] = 0]
        /\ UNCHANGED <<owner, tpc>>
    BY <1>6 DEF FinishTask
  <2>2. QED
    BY <1>0, <2>1
<1>7. QED
  BY <1>1, <1>2, <1>3, <1>4, <1>5, <1>6 DEF Interpret

\* The other steps leave a waiting task alone.
LEMMA OtherAwaits ==
  ASSUME Shape, TreeInv, AllAwaited,
         \/ \E i \in Ids : Orchestrate(i)
         \/ \E c \in Calls : RunTool(c)
         \/ DriverStep \/ HostStep \/ UNCHANGED vars
  PROVE  AllAwaited'
<1> USE DEF Shape, Control, AllAwaited, Awaited
<1>a. 0 \in Ids /\ Calls = Ids \ {0}
  BY IdsFacts
<1>0. ASSUME UNCHANGED <<owner, tool>>, \A j \in Ids : ipc[j] = "tool" => ipc'[j] = "tool",
             \A c \in Calls : tpc'[c] \notin {"none", "done"} => tpc[c] \notin {"none", "done"}
      PROVE  AllAwaited'
  BY <1>0
<1>1. ASSUME NEW i \in Ids, Orchestrate(i) PROVE AllAwaited'
  <2>1. UNCHANGED <<owner, tool, tpc>>
    BY <1>1 DEF Orchestrate, Load, MemoryFails, Forward, ForwardError, StreamEnds, ReadMemory,
       WriteMemory, taskVars
  <2>2. UNCHANGED ipc \/ (pc[i] = "loading" /\ ipc' = [ipc EXCEPT ![i] = "start"])
    BY <1>1 DEF Orchestrate, Load, MemoryFails, Forward, ForwardError, StreamEnds, ReadMemory,
       WriteMemory, taskVars
  <2>3. QED
    <3>1. pc[i] = "loading" => ipc[i] = "none"
      BY DEF TreeInv
    <3>2. \A j \in Ids : ipc[j] = "tool" => ipc'[j] = "tool"
      BY <2>2, <3>1
    <3>3. QED
      BY <1>0, <2>1, <3>2
<1>2. ASSUME NEW c \in Calls, Delegate(c) PROVE AllAwaited'
  <2>1. c \in Ids /\ pc[c] = "none" /\ tpc[c] = "running"
    BY <1>a, <1>2 DEF Delegate, TreeInv
  <2>2. ipc[c] = "none"
    BY <2>1 DEF TreeInv
  <2>3. /\ ipc' = [ipc EXCEPT ![c] = FirstTask(c)] /\ tpc' = [tpc EXCEPT ![c] = "delegating"]
        /\ UNCHANGED <<owner, tool>>
    BY <1>2 DEF Delegate, toolFrame
  <2>4. QED
    BY <1>0, <2>1, <2>2, <2>3
<1>3. ASSUME NEW c \in Calls, RunTool(c), ~Delegate(c) PROVE AllAwaited'
  <2>1. tpc[c] \notin {"none", "done"}
    BY <1>3 DEF RunTool, Announce, Admit, ToolReturns, DelegationReturns
  <2>2. UNCHANGED <<owner, tool, ipc>> /\ \E s \in ToolPositions : tpc' = [tpc EXCEPT ![c] = s]
    BY <1>3 DEF RunTool, Announce, Admit, ToolReturns, DelegationReturns, Return, toolFrame, ToolPositions
  <2>3. QED
    BY <1>0, <2>1, <2>2
<1>4. ASSUME DriverStep PROVE AllAwaited'
  <2>1. UNCHANGED <<owner, tool, tpc>>
    BY <1>4 DEF DriverStep, BuildFails, InvokeEntry, EntryRefused, DriverFails, DriverCloses, taskVars
  <2>2. UNCHANGED ipc \/ (pc[0] = "none" /\ ipc' = [ipc EXCEPT ![0] = FirstTask(0)])
    BY <1>4 DEF DriverStep, BuildFails, InvokeEntry, EntryRefused, DriverFails, DriverCloses, taskVars,
       TreeInv
  <2>3. QED
    <3>1. pc[0] = "none" => ipc[0] = "none"
      BY <1>a DEF TreeInv
    <3>2. \A j \in Ids : ipc[j] = "tool" => ipc'[j] = "tool"
      BY <2>2, <3>1
    <3>3. QED
      BY <1>0, <2>1, <3>2
<1>5. ASSUME HostStep \/ UNCHANGED vars PROVE AllAwaited'
  BY <1>0, <1>5 DEF HostStep, Receive, EndOfStream, Abandon, Cancel, vars, taskVars
<1>6. QED
  BY <1>1, <1>2, <1>3, <1>4, <1>5

\* Only a cancellation of the request leaves a tool running without its caller.
THEOREM OnlyCancelOrphans == Spec => []OrphansAreCancelled
<1>1. Init => ReleaseInv /\ OrphansAreCancelled
  BY DEF Init, ReleaseInv, HasError, OrphansAreCancelled, AllAwaited
<1>2. ReqInv /\ ReleaseInv /\ [Next]_vars => ReleaseInv'
  <2> SUFFICES ASSUME ReqInv, ReleaseInv, [Next]_vars PROVE ReleaseInv'
    OBVIOUS
  <2>1. Shape /\ TreeInv /\ MemoryInv
    BY DEF ReqInv
  <2>2. QED
    BY <2>1, StepKinds, OrchestrateRelease, InterpretRelease, OtherRelease
<1>3. ReqInv /\ ReleaseInv /\ OrphansAreCancelled /\ [Next]_vars => OrphansAreCancelled'
  <2> SUFFICES ASSUME ReqInv, ReleaseInv, OrphansAreCancelled, [Next]_vars PROVE OrphansAreCancelled'
    OBVIOUS
  <2>0. Shape /\ TreeInv
    BY DEF ReqInv
  <2>1. CASE Cancel
    BY <2>1, Zenon DEF Cancel, OrphansAreCancelled
  <2>2. CASE ~Cancel /\ ~cancelled
    <3>1. AllAwaited
      BY <2>2, Zenon DEF OrphansAreCancelled
    <3>2. AllAwaited'
      BY <2>0, <2>2, <3>1, StepKinds, InterpretAwaits, OtherAwaits
    <3>3. QED
      BY <3>2, Zenon DEF OrphansAreCancelled
  <2>3. CASE ~Cancel /\ cancelled
    BY <2>3, FlagStays, Zenon DEF OrphansAreCancelled
  <2>4. QED
    BY <2>1, <2>2, <2>3
<1>4. QED
  BY <1>1, <1>2, <1>3, RequestInvariant, PTL DEF Spec

----------------------------------------------------------------------------
(* Types                                                                     *)

\* The rest of TypeOK: the capacity of the inner channels, and the histories.
Bounds ==
  /\ \A i \in Ids : Len(ich[i]) <= InnerCap
  /\ released \subseteq Ids
  /\ errors \subseteq 0..MaxCalls + 1
  /\ refused \subseteq 0..MaxCalls + 1

\* What try_send puts on a task's channel stays within its capacity.
LEMMA InnerPutBound ==
  ASSUME Data, Bounds, NEW i \in Ids, NEW p \in Parts
  PROVE  \A j \in Ids : Len(InnerPut(i, p)[j]) <= InnerCap
<1>1. ich[i] \in Seq(Parts) /\ ich \in [Ids -> Seq(Parts)] /\ InnerCap \in Nat
  BY RequestAssumption DEF Data
<1>2. Len(ich[i]) \in Nat /\ Len(Append(ich[i], p)) = Len(ich[i]) + 1
  BY <1>1
<1>3. Len(Put(ich[i], InnerCap, p)) <= InnerCap
  BY <1>1, <1>2 DEF Put, Bounds
<1>4. QED
  BY <1>1, <1>3 DEF InnerPut, Bounds

\* An emit marks at most the senders it is given.
LEMMA EmitMarks ==
  ASSUME NEW p, NEW senders, Emit(p, senders)
  PROVE  refused' \subseteq refused \cup senders
BY DEF Emit

\* A step of invoke keeps the bounds.
LEMMA OrchestrateBounds ==
  ASSUME Shape, Bounds, NEW i \in Ids, Orchestrate(i)
  PROVE  Bounds'
<1>a. InnerCap \in Nat
  BY RequestAssumption
<1>1. refused' \subseteq refused
  <2>1. UNCHANGED refused \/ \E p : Emit(p, {})
    BY Zenon DEF Orchestrate, Load, MemoryFails, Forward, ForwardError, StreamEnds, ReadMemory, WriteMemory
  <2>2. QED
    BY <2>1, EmitMarks
<1>2. released' \subseteq released \cup {i} /\ errors' = errors
  BY DEF Orchestrate, Load, MemoryFails, Forward, ForwardError, StreamEnds, ReadMemory,
     WriteMemory, outerVars
<1>3. ASSUME NEW j \in Ids PROVE Len(ich'[j]) <= InnerCap
  <2>1. ich[j] \in Seq(Parts) /\ Len(ich[j]) <= InnerCap /\ ich \in [Ids -> Seq(Parts)]
    BY DEF Shape, Data, Bounds
  <2>2. CASE Forward(i)
    <3>1. ich[i] # <<>> /\ ich' = [ich EXCEPT ![i] = Tail(ich[i])]
      BY <2>2 DEF Forward
    <3>2. j = i => Len(Tail(ich[j])) <= InnerCap
      <4>1. ASSUME j = i PROVE Len(Tail(ich[j])) = Len(ich[j]) - 1 /\ Len(ich[j]) \in Nat
        BY <2>1, <3>1, <4>1
      <4>2. QED
        BY <1>a, <2>1, <4>1
    <3>3. QED
      BY <2>1, <3>1, <3>2
  <2>3. CASE ForwardError(i)
    <3>1. ich' = [ich EXCEPT ![i] = <<>>] /\ Len(<<>>) = 0
      BY <2>3 DEF ForwardError
    <3>2. QED
      BY <1>a, <2>1, <3>1
  <2>4. CASE ich' = ich
    BY <2>1, <2>4
  <2>5. QED
    BY <2>2, <2>3, <2>4 DEF Orchestrate, Load, MemoryFails, StreamEnds, ReadMemory, WriteMemory
<1>4. QED
  BY <1>a, <1>1, <1>2, <1>3 DEF Bounds

\* So does a step of an interpreter task.
LEMMA InterpretBounds ==
  ASSUME Shape, Bounds, NEW i \in Ids, Interpret(i)
  PROVE  Bounds'
<1>a. InnerCap \in Nat /\ i \in 0..MaxCalls + 1
  BY RequestAssumption DEF Ids
<1>1. refused' \subseteq refused \cup {i}
  BY DEF Interpret, StartTask, Opened, CancelSeen, StreamFails, StreamDone, ToolCall,
     TakeResult, FinishTask, Fail
<1>2. UNCHANGED <<released, errors>>
  BY DEF Interpret, StartTask, Opened, CancelSeen, StreamFails, StreamDone, ToolCall,
     TakeResult, FinishTask, outerVars
<1>3. ASSUME NEW j \in Ids PROVE Len(ich'[j]) <= InnerCap
  <2>1. Len(ich[j]) <= InnerCap
    BY DEF Bounds
  <2>2. CASE \E p \in Parts : ich' = InnerPut(i, p)
    BY <2>2, InnerPutBound DEF Shape
  <2>3. CASE ich' = ich
    BY <2>1, <2>3
  <2>4. CASE ToolCall(i)
    <3>1. calls + 1 \in Ids
      BY <2>4, NextCall DEF ToolCall, Shape
    <3>2. QED
      BY <2>2, <2>4, <3>1, PartsOfCalls DEF ToolCall
  <2>5. CASE TakeResult(i)
    <3>1. tool[i] \in Ids
      BY DEF Shape, Control
    <3>2. QED
      BY <2>2, <2>5, <3>1, PartsOfCalls DEF TakeResult
  <2>6. CASE StartTask(i) \/ CancelSeen(i) \/ StreamFails(i)
    BY <2>2, <2>3, <2>6, PartsOfCalls DEF StartTask, CancelSeen, StreamFails, Fail
  <2>7. QED
    BY <2>3, <2>4, <2>5, <2>6 DEF Interpret, Opened, StreamDone, FinishTask
<1>4. QED
  BY <1>a, <1>1, <1>2, <1>3 DEF Bounds

\* And so does every other step.
LEMMA OtherBounds ==
  ASSUME Shape, Bounds, (\E c \in Calls : RunTool(c)) \/ DriverStep \/ HostStep \/ UNCHANGED vars
  PROVE  Bounds'
<1>a. Driver \in 0..MaxCalls + 1
  BY RequestAssumption DEF Driver
<1>1. refused' \subseteq refused \cup {Driver}
  <2>1. ASSUME NEW c \in Calls, RunTool(c) PROVE refused' \subseteq refused
    <3>1. UNCHANGED refused \/ \E p : Emit(p, {})
      BY <2>1, Zenon DEF RunTool, Announce, Admit, Delegate, ToolReturns, DelegationReturns, Return
    <3>2. QED
      BY <3>1, EmitMarks
  <2>2. CASE DriverStep \/ HostStep \/ UNCHANGED vars
    <3>1. UNCHANGED refused \/ (\E p : Emit(p, {})) \/ (\E p : Emit(p, {Driver}))
      BY <2>2, ZenonT(30) DEF DriverStep, BuildFails, InvokeEntry, EntryRefused, DriverFails,
         DriverCloses, HostStep, Receive, EndOfStream, Abandon, Cancel, vars
    <3>2. QED
      BY <3>1, EmitMarks
  <2>3. QED
    BY <2>1, <2>2
<1>2. UNCHANGED <<ich, released>>
  BY DEF RunTool, Announce, Admit, Delegate, ToolReturns, DelegationReturns, Return, toolFrame,
     DriverStep, BuildFails, InvokeEntry, EntryRefused, DriverFails, DriverCloses,
     HostStep, Receive, EndOfStream, Abandon, Cancel, vars
<1>3. errors' \subseteq 0..MaxCalls + 1
  <2>1. CASE Receive
    <3>1. out \in Seq(Parts) /\ out # <<>>
      BY <2>1 DEF Receive, Shape, Data
    <3>2. Head(out) \in Parts
      BY <3>1
    <3>3. Head(out).id \in 0..MaxCalls + 1
      BY <3>2 DEF Parts
    <3>4. QED
      BY <2>1, <3>3 DEF Receive, Bounds
  <2>2. CASE errors' = errors
    BY <2>2 DEF Bounds
  <2>3. QED
    BY <2>1, <2>2 DEF RunTool, Announce, Admit, Delegate, ToolReturns, DelegationReturns, Return,
       toolFrame, outerVars, DriverStep, BuildFails, InvokeEntry, EntryRefused, DriverFails,
       DriverCloses, HostStep, EndOfStream, Abandon, Cancel, vars
<1>4. QED
  BY <1>a, <1>1, <1>2, <1>3 DEF Bounds

\* Every variable keeps its type; in particular no channel exceeds its capacity.
THEOREM TypeCorrect == Spec => []TypeOK
<1> DEFINE Flag == cancelled \in BOOLEAN
<1>1. Init => Bounds /\ Flag
  <2>1. Init => Bounds
    BY RequestAssumption DEF Init, Bounds
  <2>2. Init => Flag
    BY Zenon DEF Init
  <2>3. QED
    BY <2>1, <2>2
<1>2. ReqInv /\ Bounds /\ [Next]_vars => Bounds'
  <2> SUFFICES ASSUME Shape, Bounds, [Next]_vars PROVE Bounds'
    BY DEF ReqInv
  <2>1. QED
    BY StepKinds, OrchestrateBounds, InterpretBounds, OtherBounds
<1>3. Flag /\ [Next]_vars => Flag'
  <2>1. Cancel => cancelled' = TRUE
    BY Zenon DEF Cancel
  <2>2. QED
    BY <2>1, FlagStays, Zenon
<1>4. ReqInv /\ Bounds /\ Flag => TypeOK
  <2> HIDE DEF Flag
  <2>1. ReqInv /\ Bounds => /\ Control /\ Data /\ Bounds
                            /\ \A i \in Ids : ich[i] \in Seq(Parts)
    BY DEF ReqInv, Shape, Data
  <2>2. QED
    BY <2>1, Zenon DEF Control, Data, Bounds, TypeOK, Positions, TaskPositions, ToolPositions, Flag
<1>5. QED
  BY <1>1, <1>2, <1>3, <1>4, RequestInvariant, PTL DEF Spec

=============================================================================
