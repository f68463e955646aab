--------------------------- MODULE StreamCapture ---------------------------
(* The fold by which an evaluation reads the stream of a request             *)
(* (agent-fw-eval stream_capture.rs): which tool calls were made, under which*)
(* agents, and with which results.  TrajectoryEventCapture scopes its events *)
(* in the same way.                                                          *)
(*                                                                           *)
(* A part is [t |-> kind, id |-> number]: the kinds "agentCall" and          *)
(* "agentResult" carry an invocation, "call" and "result" a tool call.  The  *)
(* invocation id of a delegation is the id of the tool call that makes it.   *)
(* Text, progress, errors and usage do not touch what is modelled here.       *)
EXTENDS Naturals, Sequences

Part(t, i) == [t |-> t, id |-> i]

NewCapture == [stack |-> <<>>, calls |-> <<>>]

\* The captured calls that the part's scoped key names.
AtKey(cap, p) ==
  {k \in DOMAIN cap.calls : cap.calls[k].id = p.id /\ cap.calls[k].scope = cap.stack}

\* A call is captured unless its key was seen.
CaptureCall(cap, p) ==
  IF AtKey(cap, p) = {}
  THEN [cap EXCEPT !.calls = Append(@, [id |-> p.id, scope |-> cap.stack, done |-> FALSE])]
  ELSE cap

\* A result belongs to the call of the same key and is ignored without one.
CaptureResult(cap, p) ==
  [cap EXCEPT !.calls =
     [k \in DOMAIN @ |-> IF k \in AtKey(cap, p) THEN [@[k] EXCEPT !.done = TRUE] ELSE @[k]]]

\* rposition and truncate: the innermost frame of the invocation and all above it go.
PopAgent(cap, p) ==
  LET at == {k \in DOMAIN cap.stack : cap.stack[k] = p.id}
      last == CHOOSE k \in at : \A j \in at : j <= k
  IN  IF at = {} THEN cap ELSE [cap EXCEPT !.stack = SubSeq(@, 1, last - 1)]

CaptureStep(cap, p) ==
  CASE p.t = "call"        -> CaptureCall(cap, p)
    [] p.t = "result"      -> CaptureResult(cap, p)
    [] p.t = "agentCall"   -> [cap EXCEPT !.stack = Append(@, p.id)]
    [] p.t = "agentResult" -> PopAgent(cap, p)
    [] OTHER               -> cap

=============================================================================
