------------------------- MODULE SequencedBusProofs -------------------------
(***************************************************************************)
(* The channel of a SequencedBus is in sequence order and a client that    *)
(* replays after each reconnection misses nothing silently, for any number *)
(* of emitters, events and connections and any capacity.                   *)
(***************************************************************************)
EXTENDS SequencedBus, WellFoundedInduction, TLAPS

\* The emitter in the critical section holds the highest number, and everything
\* on the channel is below it.
OrderInv ==
  /\ emitting \in [Emitters -> [step : {"idle", "insert", "send"}, seq : Nat]]
  /\ seq \in Nat /\ chan \in Seq(Nat)
  /\ SequenceOrder
  /\ \A i \in 1..Len(chan) : chan[i] < seq
  /\ \A e \in Emitters : emitting[e].step # "idle" =>
       /\ emitting[e].seq < seq
       /\ \A i \in 1..Len(chan) : chan[i] < emitting[e].seq
       /\ \A f \in Emitters : emitting[f].step # "idle" => e = f

\* Every step keeps the numbers in order.
LEMMA OrderStep == OrderInv /\ [Next]_vars => OrderInv'
<1> SUFFICES ASSUME OrderInv, [Next]_vars PROVE OrderInv'
  OBVIOUS
<1> USE DEF OrderInv, SequenceOrder, NoEmit
<1>1. ASSUME NEW e \in Emitters, EmitBegin(e) PROVE OrderInv'
  BY <1>1 DEF EmitBegin
<1>2. ASSUME NEW e \in Emitters, EmitInsert(e) PROVE OrderInv'
  BY <1>2 DEF EmitInsert
<1>3. ASSUME NEW e \in Emitters, EmitSend(e) PROVE OrderInv'
  <2>1. chan' = Append(chan, emitting[e].seq) /\ emitting[e].seq \in Nat
    BY <1>3 DEF EmitSend
  <2>2. chan' \in Seq(Nat) /\ Len(chan') = Len(chan) + 1
    BY <2>1
  <2>3. \A i \in 1..Len(chan') :
          chan'[i] = IF i = Len(chan') THEN emitting[e].seq ELSE chan[i]
    BY <2>1
  <2>4. \A i, j \in 1..Len(chan') : i < j => chan'[i] < chan'[j]
    BY <1>3, <2>2, <2>3 DEF EmitSend
  <2>5. DOMAIN chan' = 1..Len(chan')
    BY <2>2
  <2>6. QED
    BY <1>3, <2>2, <2>3, <2>4, <2>5 DEF EmitSend
<1>4. ASSUME \/ Expire \/ Subscribe \/ ReplayBegin \/ ReplayEnd
             \/ Receive \/ Disconnect
      PROVE  OrderInv'
  BY <1>4 DEF Expire, Subscribe, ReplayBegin, ReplayEnd, Receive, Disconnect, busVars
<1>5. ASSUME UNCHANGED vars PROVE OrderInv'
  BY <1>5 DEF vars, busVars
<1>6. QED
  BY <1>1, <1>2, <1>3, <1>4, <1>5 DEF Next, EmitStep

\* S1 and S2 for any number of tasks and child buses that emit.
THEOREM ChannelInOrder == Spec => []SequenceOrder
<1>1. Init => OrderInv
  BY DEF Init, OrderInv, SequenceOrder, NoEmit
<1>2. OrderInv => SequenceOrder
  BY DEF OrderInv
<1>3. QED
  BY <1>1, <1>2, OrderStep, PTL DEF Spec

-----------------------------------------------------------------------------
(* Least and greatest elements.                                            *)

\* A nonempty set of naturals has a least element.
LEMMA LeastExists ==
  ASSUME NEW T, T \subseteq Nat, T # {}
  PROVE  \E x \in T : \A y \in T : x =< y
<1> DEFINE R == OpToRel(<, Nat)
<1>1. IsWellFoundedOn(R, Nat)
  BY NatLessThanWellFounded
<1>2. \A x, y \in Nat : y < x => <<y, x>> \in R
  BY DEF OpToRel
<1> HIDE DEF R
<1>3. PICK x \in T : \A y \in T : ~(<<y, x>> \in R)
  BY <1>1, WFMin, Zenon
<1>4. \A y \in T : ~(y < x)
  BY <1>2, <1>3
<1>5. QED
  BY <1>3, <1>4

\* What Min returns.
LEMMA MinFacts ==
  ASSUME NEW T, T \subseteq Nat, T # {}
  PROVE  Min(T) \in T /\ \A y \in T : Min(T) =< y
  BY LeastExists, Zenon DEF Min

\* What Max returns on a bounded set.
LEMMA MaxFacts ==
  ASSUME NEW n \in Nat, NEW T, T \subseteq 0..n, T # {}
  PROVE  Max(T) \in T /\ \A y \in T : y =< Max(T)
<1> DEFINE U == {m \in Nat : \A y \in T : y =< m}
<1>1. n \in U /\ U \subseteq Nat
  OBVIOUS
<1>2. PICK m \in U : \A u \in U : m =< u
  BY <1>1, LeastExists
<1>3. m \in T
  <2>1. SUFFICES ASSUME m \notin T PROVE FALSE
    OBVIOUS
  <2>2. \A y \in T : y \in Nat /\ y =< m - 1
    BY <2>1, <1>2
  <2>3. m \in Nat /\ m - 1 \in Nat
    <3>1. PICK y \in T : TRUE
      OBVIOUS
    <3>2. m \in Nat /\ y \in Nat /\ y =< m - 1
      BY <1>2, <2>2
    <3>3. QED
      BY <3>2
  <2>4. m - 1 \in U
    BY <2>2, <2>3
  <2>5. QED
    BY <1>2, <2>3, <2>4
<1>4. \E x \in T : \A y \in T : x >= y
  BY <1>2, <1>3
<1>5. Max(T) \in T /\ \A y \in T : Max(T) >= y
  BY <1>4, Zenon DEF Max
<1>6. QED
  BY <1>5

-----------------------------------------------------------------------------
(* The client.                                                             *)

\* The emit lock makes the channel the numbers from 0 on; the number in flight
\* is the next one, and every other number is in the history or was lost.
BusInv ==
  /\ emitting \in [Emitters -> [step : {"idle", "insert", "send"}, seq : Nat]]
  /\ seq \in 0..MaxEvents /\ chan \in Seq(Numbers)
  /\ \A i \in 1..Len(chan) : chan[i] = i - 1
  /\ \A e \in Emitters : emitting[e].step # "idle" =>
       /\ emitting[e].seq = Len(chan) /\ seq = Len(chan) + 1
       /\ \A f \in Emitters : emitting[f].step # "idle" => e = f
  /\ (\A e \in Emitters : emitting[e].step = "idle") => seq = Len(chan)
  /\ history \subseteq 0..(seq - 1) /\ lost \subseteq 0..(seq - 1)
  /\ \A s \in 0..(seq - 1) :
       \/ s \in history \cup lost
       \/ s = seq - 1 /\ \E e \in Emitters : emitting[e].step = "insert"

Newest(s) == \A g \in got : g < s

\* What lies behind the client: nothing between its events is missing but what
\* was lost, and what its receiver has passed is lost or will be replayed.
ClientInv ==
  /\ cpc \in {"off", "subscribed", "replay", "live"}
  /\ got \subseteq 0..(seq - 1) /\ base \subseteq 0..(seq - 1)
  /\ pos \in 0..Len(chan) /\ connects \in 0..MaxConnects
  /\ cpc \in {"subscribed", "replay"} => got # {}
  /\ \A a, b \in got : \A s \in Nat : a < s /\ s < b => s \in got \cup lost
  /\ cpc = "live" /\ got # {} => \A s \in Nat : s < pos /\ Newest(s) => s \in lost
  /\ cpc = "replay" => \A s \in base : Newest(s)
  /\ cpc = "replay" => \A s \in history : s < pos /\ Newest(s) => s \in base

\* Every step keeps the numbering of the bus.
LEMMA BusStep == BusInv /\ ClientInv /\ [Next]_vars => BusInv'
<1> SUFFICES ASSUME BusInv, ClientInv, [Next]_vars PROVE BusInv'
  OBVIOUS
<1> USE BusAssumption DEF BusInv, NoEmit, Numbers, busVars
<1>0. Len(chan) \in Nat /\ seq \in Nat
  OBVIOUS
<1>1. ASSUME NEW e \in Emitters, EmitBegin(e) PROVE BusInv'
  <2>1. /\ \A f \in Emitters : emitting'[f].step # "idle" => f = e
        /\ emitting'[e].step = "insert" /\ emitting'[e].seq = Len(chan)
        /\ seq = Len(chan) /\ seq' = Len(chan) + 1 /\ seq' \in 0..MaxEvents
        /\ emitting' \in [Emitters -> [step : {"idle", "insert", "send"}, seq : Nat]]
    BY <1>0, <1>1 DEF EmitBegin
  <2>2. UNCHANGED <<history, chan, lost>>
    BY <1>1 DEF EmitBegin
  <2>3. 0..(seq' - 1) = 0..(seq - 1) \cup {seq' - 1}
    BY <1>0, <2>1
  <2>4. \A s \in 0..(seq' - 1) :
          \/ s \in history' \cup lost'
          \/ s = seq' - 1 /\ \E f \in Emitters : emitting'[f].step = "insert"
    BY <1>1, <2>1, <2>2, <2>3 DEF EmitBegin
  <2>5. QED
    BY <1>0, <2>1, <2>2, <2>3, <2>4
<1>2. ASSUME NEW e \in Emitters, EmitInsert(e) PROVE BusInv'
  <2>1. /\ emitting[e].step = "insert" /\ emitting[e].seq = Len(chan) /\ seq = Len(chan) + 1
        /\ \A f \in Emitters : emitting[f].step # "idle" => f = e
    BY <1>2 DEF EmitInsert
  <2>2. /\ emitting' \in [Emitters -> [step : {"idle", "insert", "send"}, seq : Nat]]
        /\ emitting'[e].step = "send" /\ emitting'[e].seq = Len(chan)
        /\ \A f \in Emitters : emitting'[f].step # "idle" => f = e
        /\ history' = history \cup {seq - 1} /\ UNCHANGED <<seq, chan, lost>>
    BY <1>0, <1>2, <2>1 DEF EmitInsert
  <2>3. seq - 1 \in 0..(seq - 1)
    BY <1>0, <2>1
  <2>4. \A s \in 0..(seq' - 1) : s \in history' \cup lost'
    BY <2>2
  <2>5. QED
    BY <2>1, <2>2, <2>3, <2>4
<1>3. ASSUME NEW e \in Emitters, EmitSend(e) PROVE BusInv'
  <2>1. chan' = Append(chan, emitting[e].seq) /\ emitting[e].seq = Len(chan) /\ emitting[e].seq \in Numbers
    BY <1>0, <1>3 DEF EmitSend
  <2>2. /\ chan' \in Seq(Numbers) /\ Len(chan') = Len(chan) + 1
        /\ \A i \in 1..Len(chan') : chan'[i] = i - 1
    BY <1>0, <2>1
  <2>3. \A f \in Emitters : emitting'[f].step = "idle"
    BY <1>3 DEF EmitSend
  <2>4. QED
    BY <1>0, <1>3, <2>2, <2>3 DEF EmitSend
<1>4. ASSUME Expire PROVE BusInv'
  <2>1. Min(history) \in history
    <3>1. history \subseteq Nat /\ history # {}
      BY <1>0, <1>4 DEF Expire
    <3>2. QED
      BY <3>1, MinFacts, Zenon
  <2>2. QED
    BY <1>4, <2>1 DEF Expire
<1>5. ASSUME Subscribe \/ ReplayBegin \/ Disconnect \/ UNCHANGED vars PROVE BusInv'
  BY <1>5 DEF Subscribe, ReplayBegin, Disconnect, vars
<1>6. ASSUME ReplayEnd PROVE BusInv'
  <2>1. lost' \subseteq lost \cup history /\ lost \subseteq lost'
    BY <1>6 DEF ReplayEnd
  <2>2. QED
    BY <1>6, <2>1 DEF ReplayEnd
<1>7. ASSUME Receive PROVE BusInv'
  <2>1. lost \subseteq lost' /\ lost' \subseteq 0..(seq - 1)
    <3>1. CASE UNCHANGED lost
      BY <3>1
    <3>2. CASE lost' = lost \cup {chan[i] : i \in (pos + 1)..pos'} /\ pos' = Len(chan) - Capacity
      <4>1. \A i \in (pos + 1)..pos' : chan[i] \in 0..(seq - 1)
        <5>1. Len(chan) <= seq /\ pos \in Nat /\ pos' <= Len(chan)
          BY <1>0, <3>2 DEF ClientInv
        <5>2. \A i \in (pos + 1)..pos' : i \in 1..Len(chan) /\ i - 1 \in 0..(seq - 1)
          <6> HIDE DEF BusInv
          <6>1. pos' \in Int /\ pos' <= seq
            BY <1>0, <3>2, <5>1
          <6>2. QED
            BY <1>0, <5>1, <6>1
        <5>3. QED
          BY <5>2
      <4>2. QED
        BY ZenonT(30), <3>2, <4>1
    <3>3. QED
      BY <1>7, <3>1, <3>2 DEF Receive
  <2>2. QED
    BY <1>7, <2>1 DEF Receive
<1>8. QED
  BY <1>1, <1>2, <1>3, <1>4, <1>5, <1>6, <1>7 DEF Next, EmitStep

\* The client's invariant survives what the emitters do.
LEMMA ClientFrame ==
  ASSUME BusInv, BusInv', ClientInv, UNCHANGED <<cpc, got, base, pos, connects>>,
         seq <= seq', Len(chan) <= Len(chan'), lost \subseteq lost',
         \A s \in history' : s \in history \/ s >= pos
  PROVE  ClientInv'
<1>1. Len(chan) \in Nat /\ Len(chan') \in Nat /\ seq \in Nat /\ seq' \in Nat
  BY BusAssumption DEF BusInv
<1>2. /\ got' \subseteq 0..(seq' - 1) /\ base' \subseteq 0..(seq' - 1) /\ pos' \in 0..Len(chan')
      /\ connects' \in 0..MaxConnects /\ cpc' \in {"off", "subscribed", "replay", "live"}
  <2>1. \A s \in 0..(seq - 1) : s \in 0..(seq' - 1)
    <3>1. \A m, n \in Nat : m <= n => \A s \in 0..(m - 1) : s \in 0..(n - 1)
      OBVIOUS
    <3>2. QED
      BY <1>1, <3>1, Zenon
  <2>2. pos \in 0..Len(chan')
    BY <1>1 DEF ClientInv
  <2>3. QED
    BY <2>1, <2>2 DEF ClientInv
<1>3. \A s \in history' : s \in Nat
  <2>1. history' \subseteq 0..(seq' - 1)
    BY DEF BusInv
  <2>2. \A s \in 0..(seq' - 1) : s \in Nat
    BY <1>1
  <2>3. QED
    BY <2>1, <2>2
<1>4. \A s : (\A g \in got' : g < s) <=> Newest(s)
  BY DEF Newest
<1>5. cpc' = "replay" => \A s \in history' : s < pos' /\ Newest(s)' => s \in base'
  <2> SUFFICES ASSUME cpc' = "replay", NEW s \in history', s < pos', Newest(s)' PROVE s \in base'
    OBVIOUS
  <2>1. s \in Nat /\ pos \in Nat /\ s < pos /\ Newest(s)
    BY <1>1, <1>3 DEF ClientInv, Newest
  <2>2. s \in history
    BY <2>1
  <2>3. QED
    BY <2>1, <2>2 DEF ClientInv
<1>6. cpc' = "replay" => \A s \in base' : Newest(s)'
  BY DEF ClientInv, Newest
<1>7. cpc' = "live" /\ got' # {} => \A s \in Nat : s < pos' /\ Newest(s)' => s \in lost'
  BY DEF ClientInv, Newest
<1>8. /\ cpc' \in {"subscribed", "replay"} => got' # {}
      /\ \A a, b \in got' : \A s \in Nat : a < s /\ s < b => s \in got' \cup lost'
  BY DEF ClientInv
<1>9. QED
  BY <1>2, <1>5, <1>6, <1>7, <1>8 DEF ClientInv

\* Every step keeps what lies behind the client accounted for.
LEMMA ClientStep == BusInv /\ BusInv' /\ ClientInv /\ [Next]_vars => ClientInv'
<1> SUFFICES ASSUME BusInv, BusInv', ClientInv, [Next]_vars PROVE ClientInv'
  OBVIOUS
<1> USE BusAssumption
<1>0. Len(chan) \in Nat /\ seq \in Nat /\ pos \in Nat /\ Len(chan) <= seq
  BY DEF BusInv, ClientInv
<1>1. ASSUME NEW e \in Emitters, EmitBegin(e) PROVE ClientInv'
  BY <1>0, <1>1, ClientFrame DEF EmitBegin
<1>2. ASSUME NEW e \in Emitters, EmitInsert(e) PROVE ClientInv'
  <2>1. emitting[e].seq = Len(chan) /\ Len(chan) >= pos
    BY <1>0, <1>2 DEF EmitInsert, BusInv, ClientInv
  <2>2. QED
    BY <1>0, <1>2, <2>1, ClientFrame DEF EmitInsert
<1>3. ASSUME NEW e \in Emitters, EmitSend(e) PROVE ClientInv'
  <2>1. Len(chan') >= Len(chan)
    BY <1>0, <1>3 DEF EmitSend, BusInv
  <2>2. QED
    BY <1>0, <1>3, <2>1, ClientFrame DEF EmitSend
<1>4. ASSUME Expire PROVE ClientInv'
  BY <1>0, <1>4, ClientFrame DEF Expire
<1>5. ASSUME Subscribe PROVE ClientInv'
  <2>1. /\ cpc' \in {"live", "subscribed"} /\ (cpc' = "live" <=> got = {})
        /\ pos' = Len(chan) /\ connects' \in 0..MaxConnects
        /\ UNCHANGED <<seq, chan, history, base, got, lost>>
    BY <1>5 DEF Subscribe, busVars, ClientInv
  <2>2. pos' \in 0..Len(chan')
    BY <1>0, <2>1
  <2>3. cpc' # "replay" /\ ~(cpc' = "live" /\ got' # {}) /\ (cpc' = "subscribed" => got' # {})
    BY <2>1
  <2>4. QED
    BY <2>1, <2>2, <2>3 DEF ClientInv
<1>6. ASSUME ReplayBegin PROVE ClientInv'
  <2>1. Max(got) \in got /\ \A g \in got : g =< Max(got)
    <3>1. got # {} /\ got \subseteq 0..seq
      BY <1>0, <1>6 DEF ReplayBegin, ClientInv
    <3>2. QED
      BY <1>0, <3>1, MaxFacts
  <2>2. \A s \in history : s > Max(got) <=> Newest(s)
    <3>1. history \subseteq Nat /\ got \subseteq Nat
      BY <1>0 DEF BusInv, ClientInv
    <3>2. ASSUME NEW s \in history, s > Max(got) PROVE Newest(s)
      <4>1. s \in Nat /\ Max(got) \in Nat
        BY <2>1, <3>1
      <4>2. \A g \in got : g \in Nat /\ g =< Max(got)
        BY <2>1, <3>1
      <4>3. QED
        BY <3>2, <4>1, <4>2 DEF Newest
    <3>3. ASSUME NEW s \in history, Newest(s) PROVE s > Max(got)
      BY <2>1, <3>1, <3>3 DEF Newest
    <3>4. QED
      BY <3>2, <3>3
  <2>3. base' = {s \in history : Newest(s)}
    BY <1>6, <2>2 DEF ReplayBegin, HistorySince
  <2>4. QED
    BY <1>0, <1>6, <2>3 DEF ReplayBegin, ClientInv, BusInv, busVars, Newest
<1>7. ASSUME Disconnect PROVE ClientInv'
  BY <1>0, <1>7 DEF Disconnect, ClientInv, busVars, Newest
<1>8. ASSUME UNCHANGED vars PROVE ClientInv'
  BY <1>8 DEF vars, ClientInv, busVars, Newest
<1>9. ASSUME ReplayEnd PROVE ClientInv'
  <2>1. PICK new \in SUBSET (HistorySince(Max(got)) \cup base) :
          base \cap history \subseteq new /\ got' = got \cup new
    BY <1>9 DEF ReplayEnd
  <2>2. Max(got) \in got /\ \A g \in got : g =< Max(got)
    <3>1. got # {} /\ got \subseteq 0..seq
      BY <1>0, <1>9 DEF ReplayEnd, ClientInv
    <3>2. QED
      BY <1>0, <3>1, MaxFacts
  <2>3. got' \subseteq 0..(seq - 1) /\ got' # {} /\ got \subseteq got'
    BY <1>9, <2>1, <2>2 DEF HistorySince, BusInv, ClientInv
  <2>4. Max(got') \in got' /\ \A g \in got' : g =< Max(got')
    <3>1. got' \subseteq 0..seq
      BY <1>0, <2>3
    <3>2. QED
      BY <1>0, <2>3, <3>1, MaxFacts
  <2>5. \A s \in new : s > Max(got)
    BY <1>9, <2>1, <2>2 DEF ReplayEnd, HistorySince, ClientInv, Newest
  <2>6. \A s \in history : s \in base => s \in got'
    BY <2>1
  <2>7. \A s \in Nat : Max(got) < s /\ s < Max(got') => s \in got' \cup lost'
    <3> SUFFICES ASSUME NEW s \in Nat, Max(got) < s, s < Max(got') PROVE s \in got' \cup lost'
      OBVIOUS
    <3>1. s < seq - 1 /\ s \in 0..(seq - 1)
      <4>1. Max(got') \in 0..(seq - 1)
        BY <2>3, <2>4
      <4>2. QED
        BY <1>0, <4>1
    <3>2. s \in history \cup lost
      BY <1>0, <3>1 DEF BusInv
    <3>3. QED
      BY <1>9, <2>6, <3>2 DEF ReplayEnd
  <2>8. \A a, b \in got' : \A s \in Nat : a < s /\ s < b => s \in got' \cup lost'
    <3> SUFFICES ASSUME NEW a \in got', NEW b \in got', NEW s \in Nat, a < s, s < b
                 PROVE  s \in got' \cup lost'
      OBVIOUS
    <3>0. a \in Nat /\ b \in Nat /\ Max(got) \in Nat /\ Max(got') \in Nat /\ lost \subseteq lost'
      BY <1>0, <1>9, <2>2, <2>3, <2>4 DEF ReplayEnd
    <3>1. CASE s > Max(got)
      BY <2>4, <2>7, <3>0, <3>1
    <3>2. CASE s = Max(got)
      BY <2>2, <2>3, <3>2
    <3>3. CASE s < Max(got)
      <4>1. a \in got
        BY <2>1, <2>5, <3>0, <3>3
      <4>2. s \in got \cup lost
        BY <2>2, <3>3, <4>1 DEF ClientInv
      <4>3. QED
        BY <2>3, <3>0, <4>2
    <3>4. QED
      BY <3>0, <3>1, <3>2, <3>3
  <2>9. \A s \in Nat : s < pos /\ (\A g \in got' : g < s) => s \in lost'
    <3> SUFFICES ASSUME NEW s \in Nat, s < pos, \A g \in got' : g < s PROVE s \in lost'
      OBVIOUS
    <3>1. s \in 0..(seq - 1) /\ s < Len(chan) /\ Newest(s)
      BY <1>0, <2>3 DEF ClientInv, Newest
    <3>2. s \in history \cup lost
      BY SMTT(30), <1>0, <3>1 DEF BusInv
    <3>3. s \in history => s \in got'
      BY <1>9, <2>6, <3>1 DEF ReplayEnd, ClientInv
    <3>4. s \notin got'
      BY <2>3
    <3>5. QED
      BY <1>9, <3>2, <3>3, <3>4 DEF ReplayEnd
  <2>10. QED
    BY <1>9, <2>3, <2>8, <2>9 DEF ReplayEnd, ClientInv, busVars, Newest
<1>10. ASSUME Receive PROVE ClientInv'
  <2>1. CASE Len(chan) - pos > Capacity
    <3>1. /\ pos' = Len(chan) - Capacity /\ pos' \in 0..Len(chan) /\ pos < pos'
          /\ lost' = lost \cup {chan[i] : i \in (pos + 1)..pos'} /\ cpc = "live"
          /\ UNCHANGED <<cpc, got, base, seq, chan, history, connects>>
      BY <1>0, <1>10, <2>1 DEF Receive, busVars
    <3>2. \A s \in Nat : pos <= s /\ s < pos' => s \in lost'
      <4> SUFFICES ASSUME NEW s \in Nat, pos <= s, s < pos' PROVE s \in lost'
        OBVIOUS
      <4>1. s + 1 \in (pos + 1)..pos' /\ chan[s + 1] = s
        BY <1>0, <3>1 DEF BusInv
      <4>2. QED
        BY <3>1, <4>1
    <3>3. \A s \in Nat : got # {} /\ s < pos' /\ Newest(s) => s \in lost'
      BY <1>0, <3>1, <3>2 DEF ClientInv
    <3>4. QED
      BY <3>1, <3>3 DEF ClientInv, Newest
  <2>2. CASE ~(Len(chan) - pos > Capacity)
    <3>1. /\ chan[pos + 1] = pos /\ pos' = pos + 1 /\ pos' \in 0..Len(chan) /\ cpc = "live"
          /\ got' = IF Newest(pos) THEN got \cup {pos} ELSE got
          /\ UNCHANGED <<cpc, lost, base, seq, chan, history, connects>>
      BY <1>0, <1>10, <2>2 DEF Receive, busVars, BusInv, Newest
    <3>2. got' \subseteq 0..(seq - 1)
      BY <1>0, <3>1 DEF ClientInv
    <3>3. CASE Newest(pos)
      <4>1. \A a, b \in got' : \A s \in Nat : a < s /\ s < b => s \in got' \cup lost'
        <5> SUFFICES ASSUME NEW a \in got', NEW b \in got', NEW s \in Nat, a < s, s < b
                     PROVE  s \in got' \cup lost'
          OBVIOUS
        <5>1. a \in Nat /\ b \in Nat /\ a \in got /\ b <= pos
          BY <1>0, <3>1, <3>2, <3>3 DEF Newest, ClientInv
        <5>2. CASE b \in got
          BY <3>1, <3>3, <5>1, <5>2 DEF ClientInv
        <5>3. CASE b = pos
          <6>1. CASE Newest(s)
            BY <3>1, <5>1, <5>3, <6>1 DEF ClientInv
          <6>2. CASE ~Newest(s)
            <7>1. PICK g \in got : ~(g < s)
              BY <6>2 DEF Newest
            <7>2. g = s \/ s < g
              BY <7>1 DEF ClientInv
            <7>3. QED
              BY <3>1, <3>3, <5>1, <7>1, <7>2 DEF ClientInv
          <6>3. QED
            BY <6>1, <6>2
        <5>4. QED
          BY <3>1, <3>3, <5>2, <5>3
      <4>2. \A s \in Nat : s < pos' /\ (\A g \in got' : g < s) => s \in lost'
        <5>1. pos \in got' /\ pos' = pos + 1
          BY <3>1, <3>3
        <5>2. QED
          BY <1>0, <5>1
      <4>3. QED
        BY <3>1, <3>2, <4>1, <4>2 DEF ClientInv, Newest
    <3>4. CASE ~Newest(pos)
      <4>1. \A s \in Nat : s < pos' /\ Newest(s) => s < pos
        BY <1>0, <3>1, <3>4
      <4>2. QED
        BY <3>1, <3>2, <3>4, <4>1 DEF ClientInv, Newest
    <3>5. QED
      BY <3>3, <3>4
  <2>3. QED
    BY <2>1, <2>2
<1>11. QED
  BY <1>1, <1>2, <1>3, <1>4, <1>5, <1>6, <1>7, <1>8, <1>9, <1>10 DEF Next, EmitStep

\* Both hold of every bus.
LEMMA ClientInvariant == Spec => [](BusInv /\ ClientInv)
<1>1. Init => BusInv /\ ClientInv
  BY BusAssumption DEF Init, BusInv, ClientInv, NoEmit, Numbers, Newest
<1>2. QED
  BY <1>1, BusStep, ClientStep, PTL DEF Spec

\* Wherever its connections break, a client that replays after its last event
\* has every event between its first and its last one, but those that expired,
\* that it lagged behind or that were inserted behind a running history_since.
THEOREM NothingSkipped == Spec => []NoGap
<1>1. BusInv /\ ClientInv => NoGap
  <2> SUFFICES ASSUME BusInv, ClientInv, got # {},
                      NEW s \in Min(got)..Max(got)
               PROVE  s \in got \cup lost
    BY DEF NoGap
  <2>1. seq \in Nat /\ got \subseteq 0..seq /\ got \subseteq Nat
    BY BusAssumption DEF BusInv, ClientInv
  <2>2. Min(got) \in got /\ Max(got) \in got
    BY <2>1, MinFacts, MaxFacts
  <2>3. s \in Nat /\ Min(got) \in Nat /\ Max(got) \in Nat
    <3>1. Min(got) \in Nat /\ Max(got) \in Nat
      BY <2>1, <2>2
    <3>2. QED
      BY <3>1
  <2>4. s = Min(got) \/ s = Max(got) \/ (Min(got) < s /\ s < Max(got))
    BY <2>3
  <2>5. QED
    BY <2>2, <2>3, <2>4 DEF ClientInv
<1>2. QED
  BY <1>1, ClientInvariant, PTL

\* Every variable keeps its type.
THEOREM TypeCorrect == Spec => []TypeOK
<1>1. BusInv /\ ClientInv => TypeOK
  <2> SUFFICES ASSUME BusInv, ClientInv PROVE TypeOK
    OBVIOUS
  <2>1. 0..(seq - 1) \subseteq Numbers
    BY BusAssumption DEF BusInv, Numbers
  <2>2. QED
    BY <2>1 DEF BusInv, ClientInv, TypeOK
<1>2. QED
  BY <1>1, ClientInvariant, PTL

-----------------------------------------------------------------------------
(* Where an event is that the client still lacks.                          *)

\* Some place the client's stream has yet to read holds the number: an emit
\* that has not sent it, the channel ahead of the receiver, or the history that
\* is to be replayed.
Ahead(s) ==
  \/ \E e \in Emitters : emitting[e].step # "idle" /\ emitting[e].seq = s
  \/ \E i \in (pos + 1)..Len(chan) : chan[i] = s
  \/ cpc = "subscribed" /\ s \in HistorySince(Max(got))
  \/ cpc = "replay" /\ s \in base \cap history

\* A connected client that lacks an event after its first one, without having
\* lost it, has it ahead of it and accepts it when it comes: no event it has is
\* as new.
StillToCome ==
  \A s \in 0..(seq - 1) :
    cpc # "off" /\ s \notin got \cup lost /\ (\E g \in got : g < s) => Newest(s) /\ Ahead(s)

\* A live client that has read the channel to its end, with no emit under way,
\* has every event after its first one but the lost ones.
CaughtUp ==
  cpc = "live" /\ pos = Len(chan) /\ (\A e \in Emitters : emitting[e].step = "idle")
    => \A s \in 0..(seq - 1) : (\E g \in got : g < s) => s \in got \cup lost

\* It follows from what lies behind the client and from the numbering of the bus.
LEMMA LackingIsAhead == BusInv /\ ClientInv => StillToCome
<1> SUFFICES ASSUME BusInv, ClientInv, NEW s \in 0..(seq - 1), cpc # "off", s \notin got \cup lost,
                    NEW g \in got, g < s
             PROVE  Newest(s) /\ Ahead(s)
  BY DEF StillToCome
<1>0. Len(chan) \in Nat /\ seq \in Nat /\ pos \in 0..Len(chan) /\ s \in Nat /\ got \subseteq 0..(seq - 1)
  BY BusAssumption DEF BusInv, ClientInv
<1>1. Newest(s)
  <2> SUFFICES ASSUME NEW b \in got, ~(b < s) PROVE FALSE
    BY DEF Newest
  <2>1. b \in Nat /\ s < b
    BY <1>0
  <2>2. QED
    BY <1>0, <2>1 DEF ClientInv
<1>2. CASE s >= Len(chan)
  <2>1. PICK e \in Emitters : emitting[e].step # "idle"
    BY <1>0, <1>2 DEF BusInv
  <2>2. emitting[e].seq = Len(chan) /\ seq = Len(chan) + 1
    BY <2>1 DEF BusInv
  <2>3. emitting[e].seq = s
    BY <1>0, <1>2, <2>2
  <2>4. QED
    BY <1>1, <2>1, <2>3 DEF Ahead
<1>3. CASE pos <= s /\ s < Len(chan)
  <2>1. s + 1 \in (pos + 1)..Len(chan) /\ s + 1 \in 1..Len(chan) /\ (s + 1) - 1 = s
    BY <1>0, <1>3
  <2>2. chan[s + 1] = s
    BY <2>1 DEF BusInv
  <2>3. QED
    BY <1>1, <2>1, <2>2 DEF Ahead
<1>4. CASE s < pos
  <2>1. s \in history
    <3>1. s < Len(chan)
      BY <1>0, <1>4
    <3>2. ~(s = seq - 1 /\ \E e \in Emitters : emitting[e].step = "insert")
      BY <1>0, <3>1 DEF BusInv
    <3>3. QED
      BY <3>2 DEF BusInv
  <2>2. cpc # "live"
    BY <1>0, <1>1, <1>4 DEF ClientInv
  <2>3. CASE cpc = "subscribed"
    <3>1. got \subseteq 0..seq /\ got # {}
      BY <1>0
    <3>2. Max(got) \in got
      BY <1>0, <3>1, MaxFacts
    <3>3. s > Max(got)
      BY <1>0, <1>1, <3>2 DEF Newest
    <3>4. QED
      BY <1>1, <2>1, <2>3, <3>3 DEF Ahead, HistorySince
  <2>4. CASE cpc = "replay"
    BY <1>1, <1>4, <2>1, <2>4 DEF Ahead, ClientInv
  <2>5. QED
    BY <2>2, <2>3, <2>4 DEF ClientInv
<1>5. QED
  BY <1>0, <1>2, <1>3, <1>4

\* The safety half of CatchesUp: a client that goes on reading never waits for
\* an event that is nowhere to be read.
THEOREM NothingOutOfReach == Spec => []StillToCome
BY LackingIsAhead, ClientInvariant, PTL

\* A client at the end of its stream is complete, whatever reconnections and
\* overlapping emits it has been through.
THEOREM ReadToTheEnd == Spec => []CaughtUp
<1>1. BusInv /\ ClientInv => CaughtUp
  <2> SUFFICES ASSUME BusInv, ClientInv, cpc = "live", pos = Len(chan),
                      \A e \in Emitters : emitting[e].step = "idle",
                      NEW s \in 0..(seq - 1), \E g \in got : g < s, s \notin got \cup lost
               PROVE  FALSE
    BY DEF CaughtUp
  <2>1. Len(chan) \in Nat
    BY DEF BusInv
  <2>2. Ahead(s)
    BY LackingIsAhead DEF StillToCome
  <2>3. QED
    BY <2>1, <2>2 DEF Ahead
<1>2. QED
  BY <1>1, ClientInvariant, PTL
=============================================================================
