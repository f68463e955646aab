--------------------------- MODULE RequestCapture ---------------------------
(* AgentRequest read by an evaluation: capture_stream_inner steps StreamCapture*)
(* with every part until the stream ends.  The reader neither leaves nor      *)
(* cancels; everything else of the request happens as it does there.          *)
EXTENDS AgentRequest

VARIABLE cap     \* what the evaluation captured

cvars == <<vars, cap>>

CInit == Init /\ cap = NewCapture

CReceive == Receive /\ cap' = CaptureStep(cap, Head(out))

CNext == CReceive \/ ((RequestStep \/ EndOfStream) /\ UNCHANGED cap)

CSpec == CInit /\ [][CNext]_cvars

\* A live duplicate of a tool call event is captured once by its id: the events
\* that invoke forwards from the hook repeat those of TracedHandler.
CapturedOnce ==
  \A j, k \in DOMAIN cap.calls : cap.calls[j].id = cap.calls[k].id => j = k

=============================================================================
