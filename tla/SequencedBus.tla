---------------------------- MODULE SequencedBus ----------------------------
(***************************************************************************)
(* SequencedBus of agent-fw-eval: emit takes the emit lock and the next    *)
(* sequence number, inserts the event into the history and sends it on the *)
(* broadcast channel; subscribe and history_since take no lock.  Several   *)
(* tasks emit on one bus: EvalEventBus::emit of a child bus first forwards *)
(* the event to its parent.  A client streams the events: it subscribes,   *)
(* replays the history after its last event id when it has one, and skips  *)
(* what it has seen.  The iteration over the history is not a snapshot: it *)
(* goes through the shards of a DashMap while others insert and evict.     *)
(***************************************************************************)
EXTENDS Integers, Sequences, FiniteSetsExt

CONSTANTS Emitters,      \* tasks that emit: a run, and child buses that forward
          Capacity,      \* of the broadcast channel
          MaxEvents,     \* bound on the events
          MaxConnects    \* bound on the connections of the client

ASSUME BusAssumption == Capacity \in Nat \ {0} /\ {MaxEvents, MaxConnects} \subseteq Nat

VARIABLES emitting,  \* emitting[e]: the emit e is in
          seq,       \* the sequence counter
          history,   \* sequence numbers in the history and younger than the TTL
          chan,      \* sequence numbers sent on the channel, in order
          cpc,       \* the client: off, subscribed, replay or live
          base,      \* what history_since is sure to meet: its range as the iteration starts
          pos,       \* how much of chan its receiver has passed
          got,       \* sequence numbers the client has
          lost,      \* sequence numbers that expired, that a receiver lagged behind or
                     \* that were inserted behind an iteration over the history
          connects

busVars == <<emitting, seq, history, chan>>
vars == <<busVars, cpc, base, pos, got, lost, connects>>

NoEmit == [step |-> "idle", seq |-> 0]
Numbers == 0..(MaxEvents - 1)

TypeOK ==
  /\ emitting \in [Emitters -> [step : {"idle", "insert", "send"}, seq : Nat]]
  /\ seq \in 0..MaxEvents /\ history \subseteq Numbers
  /\ chan \in Seq(Numbers)
  /\ cpc \in {"off", "subscribed", "replay", "live"} /\ base \subseteq Numbers /\ pos \in 0..Len(chan)
  /\ got \subseteq Numbers /\ lost \subseteq Numbers
  /\ connects \in 0..MaxConnects

Init ==
  /\ emitting = [e \in Emitters |-> NoEmit]
  /\ seq = 0 /\ history = {} /\ chan = <<>>
  /\ cpc = "off" /\ base = {} /\ pos = 0 /\ got = {} /\ lost = {} /\ connects = 0

-----------------------------------------------------------------------------
(* emit                                                                    *)

\* A variant without the emit lock.
EmitBeginUnlocked(e) ==
  /\ emitting[e].step = "idle" /\ seq < MaxEvents
  /\ emitting' = [emitting EXCEPT ![e] = [step |-> "insert", seq |-> seq]]
  /\ seq' = seq + 1
  /\ UNCHANGED <<history, chan, cpc, base, pos, got, lost, connects>>

EmitBegin(e) ==
  /\ \A f \in Emitters : emitting[f].step = "idle"
  /\ seq < MaxEvents
  /\ emitting' = [emitting EXCEPT ![e] = [step |-> "insert", seq |-> seq]]
  /\ seq' = seq + 1
  /\ UNCHANGED <<history, chan, cpc, base, pos, got, lost, connects>>

EmitInsert(e) ==
  /\ emitting[e].step = "insert"
  /\ history' = history \cup {emitting[e].seq}
  /\ emitting' = [emitting EXCEPT ![e] = [step |-> "send", seq |-> emitting[e].seq]]
  /\ UNCHANGED <<seq, chan, cpc, base, pos, got, lost, connects>>

EmitSend(e) ==
  /\ emitting[e].step = "send"
  /\ chan' = Append(chan, emitting[e].seq)
  /\ emitting' = [emitting EXCEPT ![e] = NoEmit]
  /\ UNCHANGED <<seq, history, cpc, base, pos, got, lost, connects>>

\* The oldest entry reaches the TTL: history_since skips it from now on and
\* evict_expired drops it.
Expire ==
  /\ history # {}
  /\ history' = history \ {Min(history)}
  /\ lost' = lost \cup {Min(history)}
  /\ UNCHANGED <<emitting, seq, chan, cpc, base, pos, got, connects>>

-----------------------------------------------------------------------------
(* The client's stream                                                     *)

\* A variant that starts one event too late.
HistorySinceLate(n) == {s \in history : s > n + 1}

HistorySince(n) == {s \in history : s > n}

\* A variant that does not replay.
SubscribeOnly ==
  /\ cpc = "off" /\ connects < MaxConnects
  /\ cpc' = "live"
  /\ pos' = Len(chan) /\ connects' = connects + 1
  /\ UNCHANGED <<busVars, base, got, lost>>

Subscribe ==
  /\ cpc = "off" /\ connects < MaxConnects
  /\ cpc' = IF got = {} THEN "live" ELSE "subscribed"
  /\ pos' = Len(chan) /\ connects' = connects + 1
  /\ UNCHANGED <<busVars, base, got, lost>>

ReplayBegin ==
  /\ cpc = "subscribed"
  /\ base' = HistorySince(Max(got))
  /\ cpc' = "replay"
  /\ UNCHANGED <<busVars, pos, got, lost, connects>>

\* history_since returns what was there all the time, and some of what came or
\* went meanwhile; the client has seen everything up to the last one.
ReplayEnd ==
  /\ cpc = "replay"
  /\ \E new \in SUBSET (HistorySince(Max(got)) \cup base) :
       /\ base \cap history \subseteq new
       /\ got' = got \cup new
  /\ lost' = lost \cup {s \in history \ base : s \notin got' /\ Max(got) < s /\ s < Max(got')}
  /\ base' = {} /\ cpc' = "live"
  /\ UNCHANGED <<busVars, pos, connects>>

\* recv: the next event; a receiver more than Capacity behind is told that it
\* lagged and goes on at the oldest event of the channel.
Receive ==
  /\ cpc = "live" /\ pos < Len(chan)
  /\ IF Len(chan) - pos > Capacity
     THEN /\ pos' = Len(chan) - Capacity
          /\ lost' = lost \cup {chan[i] : i \in (pos + 1)..pos'}
          /\ UNCHANGED got
     ELSE LET s == chan[pos + 1] IN
          /\ pos' = pos + 1
          /\ got' = IF \A g \in got : g < s THEN got \cup {s} ELSE got
          /\ UNCHANGED lost
  /\ UNCHANGED <<busVars, cpc, base, connects>>

Disconnect ==
  /\ cpc # "off"
  /\ cpc' = "off" /\ base' = {}
  /\ UNCHANGED <<busVars, pos, got, lost, connects>>

EmitStep(e) == EmitInsert(e) \/ EmitSend(e)

Next ==
  \/ \E e \in Emitters : EmitBegin(e) \/ EmitStep(e)
  \/ Expire \/ Subscribe \/ ReplayBegin \/ ReplayEnd \/ Receive \/ Disconnect

Spec == Init /\ [][Next]_vars

\* A started emit ends, and a connected client reads its stream.
FairSpec == Spec /\ (\A e \in Emitters : WF_vars(EmitStep(e))) /\ WF_vars(ReplayBegin \/ ReplayEnd \/ Receive)

-----------------------------------------------------------------------------
(* Properties                                                              *)

\* S1 and S2: the channel carries strictly increasing sequence numbers, from
\* whichever task or child bus the events come.
SequenceOrder == \A i, j \in DOMAIN chan : i < j => chan[i] < chan[j]

\* "Enables clients to replay missed events": between the first and the last
\* event a client has, none is missing but those that expired, that its
\* receiver lagged behind or that an emit inserted behind a running
\* history_since, wherever its connections broke.
NoGap == got # {} => Min(got)..Max(got) \subseteq got \cup lost

\* A connected client gets every event after its first one, or has lost it.
CatchesUp ==
  \A s \in Numbers : (cpc # "off" /\ s < seq /\ \E g \in got : g < s)
                        ~> (cpc = "off" \/ s \in got \cup lost)
=============================================================================
