------------------------ MODULE ScheduledRetryProofs ------------------------
(***************************************************************************)
(* Proofs about PauseToken, Schedule and ScheduledRetry, for any number of *)
(* tokens and controllers and for any schedules: no notification is lost,  *)
(* no checkpoint overlooks a pause, every combinator of schedules keeps    *)
(* its promise, a sleep lasts its delay however often it is frozen, and    *)
(* the loops make the attempts that are granted and stop when cancelled.   *)
(***************************************************************************)
EXTENDS ScheduledRetry, TLAPS

-----------------------------------------------------------------------------
(* Schedules: what each constructor and combinator promises is what step   *)
(* does.                                                                   *)

\* The minimum and the maximum of two durations are durations.
LEMMA MinMax ==
  ASSUME NEW a \in Nat, NEW b \in Nat
  PROVE  Least(a, b) \in Nat /\ Greatest(a, b) \in Nat
  BY DEF Least, Greatest

\* The delays of a union: durations, and none only if neither has any.
LEMMA UnionDelaysFacts ==
  ASSUME NEW A, NEW B, A \subseteq Nat, B \subseteq Nat
  PROVE  /\ UnionDelays(A, B) \subseteq Nat
         /\ UnionDelays(A, B) = {} <=> A = {} /\ B = {}
<1> DEFINE L == {Least(x, y) : x \in A, y \in B}
<1>1. L \subseteq Nat
  BY DEF Least
<1>2. L = {} <=> A = {} \/ B = {}
  BY DEF Least
<1>3. UnionDelays(A, B) = IF A = {} THEN B ELSE IF B = {} THEN A ELSE L
  BY DEF UnionDelays
<1> HIDE DEF L
<1>4. QED
  BY <1>1, <1>2, <1>3

\* as_millis drops less than a millisecond.
LEMMA AsMillisFacts ==
  ASSUME NEW d \in Nat
  PROVE  /\ AsMillis(d) \in Nat
         /\ FromMillis(AsMillis(d)) <= d /\ d < FromMillis(AsMillis(d)) + Milli
         /\ AsMillis(d) = 0 <=> d < Milli
<1>1. Milli \in Nat \ {0}
  BY MilliAssumption
<1> DEFINE q == d \div Milli
<1>2. q \in Int /\ Milli * q <= d /\ d < Milli * (q + 1)
  BY <1>1
<1> HIDE DEF q
<1>3. q \in Nat /\ Milli * (q + 1) = Milli * q + Milli /\ q * Milli = Milli * q
  BY <1>1, <1>2
<1>4. q = 0 <=> d < Milli
  BY <1>1, <1>2, <1>3
<1>5. AsMillis(d) = q
  BY DEF AsMillis, q
<1>6. QED
  BY <1>1, <1>2, <1>3, <1>4, <1>5 DEF FromMillis

\* from_millis keeps the order, and is zero for zero only.
LEMMA FromMillisFacts ==
  ASSUME NEW m \in Nat, NEW n \in Nat
  PROVE  /\ FromMillis(m) \in Nat
         /\ m <= n => FromMillis(m) <= FromMillis(n)
         /\ FromMillis(m) = 0 <=> m = 0
         /\ FromMillis(2 * m) = 2 * FromMillis(m)
         /\ FromMillis(2 * m + 1) = 2 * FromMillis(m) + Milli
<1>1. Milli \in Nat \ {0}
  BY MilliAssumption
<1>2. FromMillis(m) \in Nat /\ (FromMillis(m) = 0 <=> m = 0)
  BY <1>1 DEF FromMillis
<1>3. m <= n => FromMillis(m) <= FromMillis(n)
  BY <1>1 DEF FromMillis
<1>4. FromMillis(2 * m) = 2 * FromMillis(m)
  BY <1>1 DEF FromMillis
<1>5. FromMillis(2 * m + 1) = 2 * FromMillis(m) + Milli
  BY <1>1 DEF FromMillis
<1>6. QED
  BY <1>2, <1>3, <1>4, <1>5

\* The patterns of DelayPattern::delay_for give a duration for every attempt.
LEMMA PatternsOK ==
  ASSUME NEW d \in Nat, NEW base, NEW factor, NEW two, NEW max \in Nat
  PROVE  /\ Immediate \in [Nat -> Nat] /\ Fixed(d) \in [Nat -> Nat]
         /\ Exponential(base, factor, max) \in [Nat -> Nat]
         /\ Fibonacci(base, two, max) \in [Nat -> Nat]
<1>1. \A x : CapAt(x, max) \in Nat
  BY DEF CapAt
<1>6. \A x : FromMillis(CapAt(x, AsMillis(max))) \in Nat
  <2>1. AsMillis(max) \in Nat
    BY AsMillisFacts
  <2>2. \A x : CapAt(x, AsMillis(max)) \in Nat
    BY <2>1 DEF CapAt
  <2>3. QED
    BY <2>2, FromMillisFacts
<1>2. Immediate \in [Nat -> Nat] /\ Fixed(d) \in [Nat -> Nat]
  BY DEF Immediate, Fixed
<1>3. Exponential(base, factor, max) \in [Nat -> Nat]
  BY <1>6 DEF Exponential
<1>4. Fibonacci(base, two, max) \in [Nat -> Nat]
  BY <1>1, <1>6 DEF Fibonacci
<1>5. QED
  BY <1>2, <1>3, <1>4

\* Schedule::never and Schedule::once.
LEMMA NeverOnceOK == IsSchedule(Never) /\ IsSchedule(Once)
  BY DEF IsSchedule, Never, Once, NoLimit

\* Schedule::recurs: max retries are max + 1 attempts.
LEMMA RecursOK ==
  ASSUME NEW max \in Nat, NEW delays \in [Nat -> Nat]
  PROVE  IsSchedule(Recurs(max, delays))
  BY DEF IsSchedule, Recurs, RecursDelays, NoLimit

\* Schedule::forever, spaced, exponential and fibonacci never end.
LEMMA ForeverOK ==
  ASSUME NEW delays \in [Nat -> Nat]
  PROVE  IsSchedule(Forever(delays))
  BY DEF IsSchedule, Forever, NoLimit

\* The promise of a schedule, for one call of its step.
LEMMA StepFacts ==
  ASSUME NEW s, IsSchedule(s), NEW k \in Nat, NEW t \in Nat
  PROVE  /\ s.granted \in Nat \/ s.granted = NoLimit
         /\ s.step[k][t] \subseteq Nat
         /\ s.granted # NoLimit /\ k >= s.granted => s.step[k][t] = {}
         /\ (s.granted = NoLimit \/ k < s.granted) /\ s.step[k][t] = {} =>
              \E d \in s.limits : t >= d
  BY DEF IsSchedule

\* union grants the larger number of attempts.
LEMMA UnionOK ==
  ASSUME NEW a, NEW b, IsSchedule(a), IsSchedule(b)
  PROVE  IsSchedule(Union(a, b))
<1> DEFINE u == Union(a, b)
<1>1. /\ u.granted = IF NoLimit \in {a.granted, b.granted} THEN NoLimit
                     ELSE Greatest(a.granted, b.granted)
      /\ u.limits = a.limits \cup b.limits
      /\ \A k, t \in Nat : u.step[k][t] = UnionDelays(a.step[k][t], b.step[k][t])
  BY DEF Union
<1> HIDE DEF u
<1>2. u.granted \in Nat \cup {NoLimit}
  BY <1>1 DEF IsSchedule, NoLimit, Greatest
<1>3. ASSUME NEW k \in Nat, NEW t \in Nat
      PROVE  /\ u.step[k][t] \subseteq Nat
             /\ u.granted # NoLimit /\ k >= u.granted => u.step[k][t] = {}
             /\ (u.granted = NoLimit \/ k < u.granted) /\ u.step[k][t] = {} =>
                  \E d \in u.limits : t >= d
  <2> DEFINE A == a.step[k][t]
             B == b.step[k][t]
  <2>1. A \subseteq Nat /\ B \subseteq Nat
    BY DEF IsSchedule
  <2>2. UnionDelays(A, B) \subseteq Nat /\ (UnionDelays(A, B) = {} <=> A = {} /\ B = {})
    BY <2>1, UnionDelaysFacts
  <2>3. u.step[k][t] = UnionDelays(A, B)
    BY <1>1
  <2>4. u.granted # NoLimit /\ k >= u.granted => A = {} /\ B = {}
    BY <1>1, StepFacts DEF NoLimit, Greatest
  <2>5. (u.granted = NoLimit \/ k < u.granted) /\ A = {} /\ B = {} => \E d \in u.limits : t >= d
    <3>1. \/ ~(u.granted = NoLimit \/ k < u.granted)
          \/ a.granted = NoLimit \/ k < a.granted
          \/ b.granted = NoLimit \/ k < b.granted
      BY <1>1, StepFacts DEF NoLimit, Greatest
    <3>2. QED
      BY <1>1, <3>1, StepFacts
  <2> HIDE DEF A, B
  <2>6. QED
    BY <2>2, <2>3, <2>4, <2>5
<1>4. QED
  BY <1>2, <1>3 DEF IsSchedule, u

\* intersect grants the smaller number of attempts,
LEMMA IntersectOK ==
  ASSUME NEW a, NEW b, IsSchedule(a), IsSchedule(b)
  PROVE  IsSchedule(Intersect(a, b))
<1> DEFINE u == Intersect(a, b)
<1>1. /\ u.granted = IF a.granted = NoLimit THEN b.granted
                     ELSE IF b.granted = NoLimit THEN a.granted
                     ELSE Least(a.granted, b.granted)
      /\ u.limits = a.limits \cup b.limits
      /\ \A k, t \in Nat : u.step[k][t] =
           {Greatest(x, y) : x \in a.step[k][t], y \in b.step[k][t]}
  BY DEF Intersect
<1> HIDE DEF u
<1>2. u.granted \in Nat \cup {NoLimit}
  BY <1>1 DEF IsSchedule, NoLimit, Least
<1>3. ASSUME NEW k \in Nat, NEW t \in Nat
      PROVE  /\ u.step[k][t] \subseteq Nat
             /\ u.granted # NoLimit /\ k >= u.granted => u.step[k][t] = {}
             /\ (u.granted = NoLimit \/ k < u.granted) /\ u.step[k][t] = {} =>
                  \E d \in u.limits : t >= d
  <2> DEFINE A == a.step[k][t]
             B == b.step[k][t]
  <2>1. A \subseteq Nat /\ B \subseteq Nat
    BY StepFacts
  <2>2. u.granted # NoLimit /\ k >= u.granted => A = {} \/ B = {}
    BY <1>1, StepFacts DEF NoLimit, Least
  <2>3. (u.granted = NoLimit \/ k < u.granted) /\ (A = {} \/ B = {}) => \E d \in u.limits : t >= d
    <3>1. u.granted = NoLimit <=> a.granted = NoLimit /\ b.granted = NoLimit
      BY <1>1, StepFacts DEF NoLimit, Least
    <3>2. k < u.granted => /\ a.granted = NoLimit \/ k < a.granted
                           /\ b.granted = NoLimit \/ k < b.granted
      BY <1>1, StepFacts DEF NoLimit, Least
    <3>3. QED
      BY <1>1, <3>1, <3>2, StepFacts
  <2> DEFINE G == {Greatest(x, y) : x \in A, y \in B}
  <2>4. G \subseteq Nat /\ (G = {} <=> A = {} \/ B = {})
    <3> HIDE DEF A, B
    <3>0. \A x \in A, y \in B : Greatest(x, y) \in Nat
      BY <2>1, MinMax
    <3>1. G \subseteq Nat
      BY <3>0
    <3>2. G = {} <=> A = {} \/ B = {}
      OBVIOUS
    <3> HIDE DEF G
    <3>3. QED
      BY <3>1, <3>2
  <2>5. u.step[k][t] = G
    BY <1>1
  <2> HIDE DEF A, B, G
  <2>6. QED
    BY <2>2, <2>3, <2>4, <2>5
<1>4. QED
  BY <1>2, <1>3 DEF IsSchedule, u

\* ... and take(n) at most n + 1.
LEMMA TakeOK ==
  ASSUME NEW s, IsSchedule(s), NEW n \in Nat
  PROVE  IsSchedule(Take(s, n))
  BY IntersectOK, RecursOK, PatternsOK DEF Take

\* up_to ends a schedule early and never late.
LEMMA UpToOK ==
  ASSUME NEW s, IsSchedule(s), NEW d \in Nat
  PROVE  IsSchedule(UpTo(s, d))
  BY DEF IsSchedule, UpTo, NoLimit

\* A schedule whose delays differ only is a schedule.
LEMMA SameAttempts ==
  ASSUME NEW s, IsSchedule(s), NEW r, r.granted = s.granted, r.limits = s.limits,
         \A k, t \in Nat : r.step[k][t] \subseteq Nat /\ (r.step[k][t] = {} <=> s.step[k][t] = {})
  PROVE  IsSchedule(r)
<1>1. r.granted \in Nat \cup {NoLimit}
  BY DEF IsSchedule
<1>2. ASSUME NEW k \in Nat, NEW t \in Nat
      PROVE  /\ r.step[k][t] \subseteq Nat
             /\ r.granted # NoLimit /\ k >= r.granted => r.step[k][t] = {}
             /\ (r.granted = NoLimit \/ k < r.granted) /\ r.step[k][t] = {} =>
                  \E d \in r.limits : t >= d
  <2>1. r.step[k][t] \subseteq Nat /\ (r.step[k][t] = {} <=> s.step[k][t] = {})
    OBVIOUS
  <2>2. QED
    BY <2>1, StepFacts
<1>3. QED
  BY <1>1, <1>2 DEF IsSchedule

\* capped and delayed change delays and no number of attempts.
LEMMA CappedDelayedOK ==
  ASSUME NEW s, IsSchedule(s), NEW d \in Nat
  PROVE  IsSchedule(Capped(s, d)) /\ IsSchedule(Delayed(s, d))
<1>1. IsSchedule(Capped(s, d))
  <2> DEFINE u == Capped(s, d)
  <2>1. u.granted = s.granted /\ u.limits = s.limits
    BY DEF Capped
  <2>2. ASSUME NEW k \in Nat, NEW t \in Nat
        PROVE  u.step[k][t] \subseteq Nat /\ (u.step[k][t] = {} <=> s.step[k][t] = {})
    <3>1. s.step[k][t] \subseteq Nat
      BY StepFacts
    <3>2. u.step[k][t] = {Least(x, d) : x \in s.step[k][t]}
      BY DEF Capped
    <3>3. \A x \in s.step[k][t] : Least(x, d) \in Nat
      BY <3>1, MinMax
    <3> HIDE DEF u
    <3>4. QED
      BY <3>2, <3>3
  <2> HIDE DEF u
  <2>3. IsSchedule(u)
    BY <2>1, <2>2, SameAttempts
  <2>4. QED
    BY <2>3 DEF u
<1>2. IsSchedule(Delayed(s, d))
  <2> DEFINE u == Delayed(s, d)
  <2>1. u.granted = s.granted /\ u.limits = s.limits
    BY DEF Delayed
  <2>2. ASSUME NEW k \in Nat, NEW t \in Nat
        PROVE  u.step[k][t] \subseteq Nat /\ (u.step[k][t] = {} <=> s.step[k][t] = {})
    <3>1. s.step[k][t] \subseteq Nat
      BY StepFacts
    <3>2. u.step[k][t] = IF k = 0 THEN {x + d : x \in s.step[k][t]} ELSE s.step[k][t]
      BY DEF Delayed
    <3>3. QED
      BY <3>1, <3>2
  <2> HIDE DEF u
  <2>3. IsSchedule(u)
    BY <2>1, <2>2, SameAttempts
  <2>4. QED
    BY <2>3 DEF u
<1>3. QED
  BY <1>1, <1>2

\* A jittered delay is at most the delay and more than half of it less a
\* millisecond; it is at least half of it where that is a whole number of
\* milliseconds, and zero exactly for a delay below one millisecond.
LEMMA JitterFacts ==
  ASSUME NEW d \in Nat
  PROVE  /\ Jitter(d) # {} /\ Jitter(d) \subseteq Nat
         /\ \A j \in Jitter(d) :
              /\ j <= d /\ d < 2 * (j + Milli)
              /\ \A h \in Nat : d = 2 * FromMillis(h) => d <= 2 * j
              /\ j = 0 <=> d < Milli
<1> DEFINE ms == AsMillis(d)
           half == ms \div 2
<1>0. /\ Milli \in Nat \ {0} /\ ms \in Nat /\ FromMillis(ms) <= d /\ d < FromMillis(ms) + Milli
      /\ ms = 0 <=> d < Milli
  BY AsMillisFacts, MilliAssumption
<1>1. Jitter(d) = IF ms = 0 THEN {0} ELSE {FromMillis(Greatest(half + r, 1)) : r \in 0..(ms - half)}
  BY DEF Jitter
<1>2. half \in Nat /\ 2 * half <= ms /\ ms <= 2 * half + 1
  BY <1>0
<1> HIDE DEF ms, half
<1>3. CASE ms = 0
  <2>1. Jitter(d) = {0} /\ d < Milli
    BY <1>0, <1>1, <1>3
  <2>2. ASSUME NEW h \in Nat, d = 2 * FromMillis(h) PROVE d = 0
    <3>1. FromMillis(h) < Milli /\ FromMillis(h) \in Nat
      BY <1>0, <2>1, <2>2, FromMillisFacts
    <3>2. h = 0
      <4>1. h >= 1 => FromMillis(1) <= FromMillis(h)
        BY FromMillisFacts
      <4>2. FromMillis(1) = Milli
        BY <1>0 DEF FromMillis
      <4>3. QED
        BY <1>0, <3>1, <4>1, <4>2
    <3>3. QED
      BY <2>2, <3>2, FromMillisFacts
  <2>3. QED
    BY <1>0, <2>1, <2>2
<1>4. CASE ms # 0
  <2>1. Jitter(d) = {FromMillis(Greatest(half + r, 1)) : r \in 0..(ms - half)} /\ 0 \in 0..(ms - half)
    BY <1>0, <1>1, <1>2, <1>4
  <2>2. ASSUME NEW r \in 0..(ms - half)
        PROVE  LET j == FromMillis(Greatest(half + r, 1))
               IN  /\ j \in Nat /\ j # 0 /\ j <= d /\ d < 2 * (j + Milli)
                   /\ \A h \in Nat : d = 2 * FromMillis(h) => d <= 2 * j
    <3> DEFINE g == Greatest(half + r, 1)
    <3>1. g \in Nat /\ g # 0 /\ g <= ms /\ half <= g /\ ms <= 2 * g + 1
      BY <1>0, <1>2, <1>4 DEF Greatest
    <3> HIDE DEF g
    <3>2. FromMillis(g) \in Nat /\ FromMillis(g) # 0 /\ FromMillis(g) <= FromMillis(ms)
      BY <1>0, <3>1, FromMillisFacts
    <3>3. FromMillis(ms) <= 2 * FromMillis(g) + Milli
      <4>1. FromMillis(ms) <= FromMillis(2 * g + 1)
        BY <1>0, <3>1, FromMillisFacts
      <4>2. QED
        BY <3>1, <4>1, FromMillisFacts
    <3>4. ASSUME NEW h \in Nat, d = 2 * FromMillis(h) PROVE d <= 2 * FromMillis(g)
      <4>1. d = FromMillis(2 * h) /\ 2 * h \in Nat
        BY <3>4, FromMillisFacts
      <4>2. ms = 2 * h
        <5>1. ms < 2 * h => FromMillis(ms) + Milli <= FromMillis(2 * h)
          <6>1. FromMillis(ms + 1) = FromMillis(ms) + Milli
            BY <1>0 DEF FromMillis
          <6>2. ms < 2 * h => FromMillis(ms + 1) <= FromMillis(2 * h)
            BY <1>0, <4>1, FromMillisFacts
          <6>3. QED
            BY <6>1, <6>2
        <5>2. 2 * h < ms => FromMillis(2 * h) + Milli <= FromMillis(ms)
          <6>1. FromMillis(2 * h + 1) = FromMillis(2 * h) + Milli
            BY <1>0, <4>1 DEF FromMillis
          <6>2. 2 * h < ms => FromMillis(2 * h + 1) <= FromMillis(ms)
            BY <1>0, <4>1, FromMillisFacts
          <6>3. QED
            BY <6>1, <6>2
        <5>3. FromMillis(ms) \in Nat /\ FromMillis(2 * h) \in Nat
          BY <1>0, <4>1, FromMillisFacts
        <5>4. QED
          BY <1>0, <4>1, <5>1, <5>2, <5>3
      <4>3. h <= g
        BY <1>2, <3>1, <4>2
      <4>4. FromMillis(h) <= FromMillis(g) /\ FromMillis(h) \in Nat
        BY <3>1, <4>3, FromMillisFacts
      <4>5. QED
        BY <3>2, <3>4, <4>4
    <3>5. FromMillis(g) <= d /\ d < 2 * (FromMillis(g) + Milli)
      <4>1. FromMillis(ms) \in Nat
        BY <1>0, FromMillisFacts
      <4>2. QED
        BY <1>0, <3>2, <3>3, <4>1
    <3>6. QED
      BY <3>2, <3>4, <3>5 DEF g
  <2>3. QED
    BY <1>0, <1>4, <2>1, <2>2
<1>5. QED
  BY <1>3, <1>4

\* jittered changes no number of attempts either.
LEMMA JitteredOK ==
  ASSUME NEW s, IsSchedule(s)
  PROVE  IsSchedule(Jittered(s))
<1> DEFINE u == Jittered(s)
<1>1. u.granted = s.granted /\ u.limits = s.limits
  BY DEF Jittered
<1>2. ASSUME NEW k \in Nat, NEW t \in Nat
      PROVE  u.step[k][t] \subseteq Nat /\ (u.step[k][t] = {} <=> s.step[k][t] = {})
  <2> DEFINE D == s.step[k][t]
             E == u.step[k][t]
  <2>1. D \subseteq Nat
    BY StepFacts
  <2>2. E = UNION {Jitter(x) : x \in D}
    BY DEF Jittered
  <2> HIDE DEF D, E
  <2>3. \A x \in D : Jitter(x) # {} /\ Jitter(x) \subseteq Nat
    BY <2>1, JitterFacts
  <2>4. E \subseteq Nat /\ (E = {} <=> D = {})
    BY <2>2, <2>3
  <2>5. QED
    BY <2>4 DEF D, E
<1> HIDE DEF u
<1>3. IsSchedule(u)
  BY <1>1, <1>2, SameAttempts
<1>4. QED
  BY <1>3 DEF u

\* Every combinator makes a schedule out of schedules: it grants the attempts it
\* promises, no more, and no less before the time of one of its limits.
THEOREM CombinatorsOK ==
  ASSUME NEW a, IsSchedule(a), NEW b, IsSchedule(b), NEW d \in Nat
  PROVE  /\ IsSchedule(Union(a, b)) /\ IsSchedule(Intersect(a, b))
         /\ IsSchedule(Take(a, d)) /\ IsSchedule(UpTo(a, d)) /\ IsSchedule(Capped(a, d))
         /\ IsSchedule(Jittered(a)) /\ IsSchedule(Delayed(a, d))
  BY UnionOK, IntersectOK, TakeOK, UpToOK, CappedDelayedOK, JitteredOK

\* Schedule::from_retry_policy: every policy is a schedule.
THEOREM RetryPoliciesOK ==
  ASSUME NEW retries \in Nat, NEW base, NEW factor, NEW max \in Nat, NEW jitter
  PROVE  IsSchedule(FromRetryPolicy(retries, base, factor, max, jitter))
<1>1. IsSchedule(Recurs(retries, Exponential(base, factor, max)))
  BY RecursOK, PatternsOK
<1>2. QED
  BY <1>1, JitteredOK DEF FromRetryPolicy

-----------------------------------------------------------------------------
(* The laws of schedules that schedule.rs lists, for every schedule.       *)

\* The shorter and the longer of two delays.
Shorter(A, B) == {Least(x, y) : x \in A, y \in B}
Longer(A, B) == {Greatest(x, y) : x \in A, y \in B}

\* The order of two delays makes no difference.
LEMMA ShorterCommutes ==
  ASSUME NEW A, NEW B, A \subseteq Nat, B \subseteq Nat
  PROVE  Shorter(A, B) = Shorter(B, A) /\ (Shorter(A, B) = {} <=> A = {} \/ B = {})
<1>1. Shorter(A, B) = Shorter(B, A)
  BY DEF Least, Shorter
<1>2. Shorter(A, B) = {} <=> A = {} \/ B = {}
  BY DEF Least, Shorter
<1>3. QED
  BY <1>1, <1>2

\* L3, L9 and L12: union is commutative and associative, and never is its unit.
THEOREM UnionLaws ==
  ASSUME NEW a, IsSchedule(a), NEW b, IsSchedule(b), NEW c, IsSchedule(c),
         NEW k \in Nat, NEW t \in Nat
  PROVE  /\ Union(a, b).step[k][t] = Union(b, a).step[k][t]
         /\ Union(Union(a, b), c).step[k][t] = Union(a, Union(b, c)).step[k][t]
         /\ Union(a, Never).step[k][t] = a.step[k][t]
<1> DEFINE A == a.step[k][t]
           B == b.step[k][t]
           C == c.step[k][t]
<1>1. /\ Union(a, b).step[k][t] = UnionDelays(A, B)
      /\ Union(b, a).step[k][t] = UnionDelays(B, A)
      /\ Union(Union(a, b), c).step[k][t] = UnionDelays(UnionDelays(A, B), C)
      /\ Union(a, Union(b, c)).step[k][t] = UnionDelays(A, UnionDelays(B, C))
      /\ Union(a, Never).step[k][t] = UnionDelays(A, {})
  BY DEF Union, Never
<1>2. A \subseteq Nat /\ B \subseteq Nat /\ C \subseteq Nat
  BY StepFacts
<1> HIDE DEF A, B, C
<1>3. \A X, Y : UnionDelays(X, Y) = IF X = {} THEN Y ELSE IF Y = {} THEN X ELSE Shorter(X, Y)
  BY DEF UnionDelays, Shorter
<1>4. UnionDelays(A, B) = UnionDelays(B, A) /\ UnionDelays(A, {}) = A
  BY <1>2, <1>3, ShorterCommutes
<1>5. UnionDelays(UnionDelays(A, B), C) = UnionDelays(A, UnionDelays(B, C))
  <2>1. CASE A = {} \/ B = {} \/ C = {}
    BY <1>3, <2>1
  <2>2. CASE A # {} /\ B # {} /\ C # {}
    <3>1. Shorter(A, B) # {} /\ Shorter(B, C) # {}
      BY <1>2, <2>2, ShorterCommutes
    <3>2. Shorter(Shorter(A, B), C) = Shorter(A, Shorter(B, C))
      BY <1>2 DEF Shorter, Least
    <3>3. UnionDelays(A, B) = Shorter(A, B) /\ UnionDelays(B, C) = Shorter(B, C)
      BY <1>3, <2>2
    <3>4. QED
      BY <1>3, <2>2, <3>1, <3>2, <3>3
  <2>3. QED
    BY <2>1, <2>2
<1>6. QED
  BY <1>1, <1>4, <1>5 DEF A

\* What intersect does at one attempt.
LEMMA IntersectStep ==
  ASSUME NEW a, NEW b, NEW k \in Nat, NEW t \in Nat
  PROVE  Intersect(a, b).step[k][t] = Longer(a.step[k][t], b.step[k][t])
  BY DEF Intersect, Longer

\* The longer of two delays, in whichever order they are compared.
LEMMA LongerCommutes ==
  ASSUME NEW A \in SUBSET Nat, NEW B \in SUBSET Nat
  PROVE  Longer(A, B) = Longer(B, A)
<1>1. \A x, y \in Nat : Greatest(x, y) = Greatest(y, x)
  BY DEF Greatest
<1>2. \A x \in A : \A y \in B : Greatest(x, y) = Greatest(y, x)
  BY <1>1
<1>3. \A m : m \in Longer(A, B) <=> \E x \in A : \E y \in B : m = Greatest(x, y)
  BY DEF Longer
<1>4. \A m : m \in Longer(B, A) <=> \E y \in B : \E x \in A : m = Greatest(y, x)
  BY DEF Longer
<1>5. \A m : m \in Longer(A, B) <=> m \in Longer(B, A)
  BY <1>2, <1>3, <1>4
<1>6. QED
  BY <1>5

\* The longer of three delays, in whichever order they are compared.
LEMMA LongerAssociative ==
  ASSUME NEW A \in SUBSET Nat, NEW B \in SUBSET Nat, NEW C \in SUBSET Nat
  PROVE  Longer(Longer(A, B), C) = Longer(A, Longer(B, C))
<1> DEFINE AB == Longer(A, B)
           BC == Longer(B, C)
           Of(m) == \E x \in A : \E y \in B : \E z \in C : m = Greatest(Greatest(x, y), z)
<1>1. \A x, y, z \in Nat : Greatest(Greatest(x, y), z) = Greatest(x, Greatest(y, z))
  BY DEF Greatest
<1>2. \A x \in A : \A y \in B : \A z \in C :
        Greatest(Greatest(x, y), z) = Greatest(x, Greatest(y, z))
  BY <1>1
<1>3. \A v : v \in AB <=> \E x \in A : \E y \in B : v = Greatest(x, y)
  BY DEF Longer
<1>4. \A v : v \in BC <=> \E y \in B : \E z \in C : v = Greatest(y, z)
  BY DEF Longer
<1> HIDE DEF AB, BC
<1>5. \A m : m \in Longer(AB, C) <=> \E v \in AB : \E z \in C : m = Greatest(v, z)
  BY DEF Longer
<1>6. \A m : m \in Longer(A, BC) <=> \E x \in A : \E v \in BC : m = Greatest(x, v)
  BY DEF Longer
<1>7. ASSUME NEW m PROVE m \in Longer(AB, C) <=> Of(m)
  <2>1. ASSUME NEW v \in AB, NEW z \in C, m = Greatest(v, z) PROVE Of(m)
    <3>1. PICK x \in A : \E y \in B : v = Greatest(x, y)
      BY <1>3
    <3>2. PICK y \in B : v = Greatest(x, y)
      BY <3>1
    <3>3. QED
      BY <2>1, <3>2
  <2>2. ASSUME NEW x \in A, NEW y \in B, NEW z \in C, m = Greatest(Greatest(x, y), z)
        PROVE  m \in Longer(AB, C)
    <3>1. Greatest(x, y) \in AB
      BY <1>3
    <3>2. QED
      BY <1>5, <2>2, <3>1
  <2>3. QED
    BY <1>5, <2>1, <2>2
<1>8. ASSUME NEW m PROVE m \in Longer(A, BC) <=> Of(m)
  <2>1. ASSUME NEW x \in A, NEW v \in BC, m = Greatest(x, v) PROVE Of(m)
    <3>1. PICK y \in B : \E z \in C : v = Greatest(y, z)
      BY <1>4
    <3>2. PICK z \in C : v = Greatest(y, z)
      BY <3>1
    <3>3. m = Greatest(Greatest(x, y), z)
      BY <1>2, <2>1, <3>2
    <3>4. QED
      BY <3>3
  <2>2. ASSUME NEW x \in A, NEW y \in B, NEW z \in C, m = Greatest(Greatest(x, y), z)
        PROVE  m \in Longer(A, BC)
    <3>1. Greatest(y, z) \in BC
      BY <1>4
    <3>2. m = Greatest(x, Greatest(y, z))
      BY <1>2, <2>2
    <3>3. QED
      BY <1>6, <3>1, <3>2
  <2>3. QED
    BY <1>6, <2>1, <2>2
<1> HIDE DEF Of
<1>9. \A m : m \in Longer(AB, C) <=> m \in Longer(A, BC)
  BY <1>7, <1>8
<1>10. Longer(AB, C) = Longer(A, BC)
  BY <1>9
<1>11. QED
  BY <1>10 DEF AB, BC

\* L4, L10 and L13: intersect is commutative and associative, and never
\* annihilates it.
THEOREM IntersectLaws ==
  ASSUME NEW a, IsSchedule(a), NEW b, IsSchedule(b), NEW c, IsSchedule(c),
         NEW k \in Nat, NEW t \in Nat
  PROVE  /\ Intersect(a, b).step[k][t] = Intersect(b, a).step[k][t]
         /\ Intersect(Intersect(a, b), c).step[k][t] = Intersect(a, Intersect(b, c)).step[k][t]
         /\ Intersect(a, Never).step[k][t] = {}
<1> DEFINE A == a.step[k][t]
           B == b.step[k][t]
           C == c.step[k][t]
<1>1. /\ Intersect(a, b).step[k][t] = Longer(A, B)
      /\ Intersect(b, a).step[k][t] = Longer(B, A)
      /\ Intersect(Intersect(a, b), c).step[k][t] = Longer(Longer(A, B), C)
      /\ Intersect(a, Intersect(b, c)).step[k][t] = Longer(A, Longer(B, C))
      /\ Intersect(a, Never).step[k][t] = Longer(A, {})
  <2>1. Never.step[k][t] = {}
    BY DEF Never
  <2>2. Intersect(a, b).step[k][t] = Longer(A, B) /\ Intersect(b, c).step[k][t] = Longer(B, C)
    BY IntersectStep
  <2>3. Intersect(Intersect(a, b), c).step[k][t] = Longer(Longer(A, B), C)
    BY <2>2, IntersectStep
  <2>4. Intersect(a, Intersect(b, c)).step[k][t] = Longer(A, Longer(B, C))
    BY <2>2, IntersectStep
  <2>5. Intersect(b, a).step[k][t] = Longer(B, A)
    BY IntersectStep
  <2>6. Intersect(a, Never).step[k][t] = Longer(A, Never.step[k][t])
    BY IntersectStep
  <2>7. QED
    BY <2>1, <2>2, <2>3, <2>4, <2>5, <2>6, Zenon
<1>2. A \subseteq Nat /\ B \subseteq Nat /\ C \subseteq Nat
  BY StepFacts
<1> HIDE DEF A, B, C
<1>3. Longer(A, {}) = {}
  BY DEF Longer
<1>4. Longer(A, B) = Longer(B, A)
  BY <1>2, LongerCommutes
<1>5. Longer(Longer(A, B), C) = Longer(A, Longer(B, C))
  BY <1>2, LongerAssociative
<1>6. QED
  BY <1>1, <1>3, <1>4, <1>5

\* L1, L2, L5 and L6: recurs(n) ends after n + 1 attempts and forever never,
\* capped bounds the delays and up_to the time.  Of L7 and L8 what the code does:
\* a jittered delay is at most the delay, and at least half of it where that is a
\* whole number of milliseconds, otherwise short of it by less than one; it is
\* positive for a delay of a millisecond or more, and zero for a shorter one.
THEOREM BoundLaws ==
  ASSUME NEW s, IsSchedule(s), NEW d \in Nat, NEW n \in Nat, NEW delays,
         NEW k \in Nat, NEW t \in Nat
  PROVE  /\ Recurs(n, delays).step[k][t] = {} <=> k > n
         /\ Forever(delays).step[k][t] # {}
         /\ \A x \in Capped(s, d).step[k][t] : x <= d
         /\ t >= d => UpTo(s, d).step[k][t] = {}
         /\ \A j \in Jittered(s).step[k][t] : \E x \in s.step[k][t] :
              /\ j <= x /\ x < 2 * (j + Milli)
              /\ (\E h \in Nat : x = 2 * FromMillis(h)) => x <= 2 * j
              /\ j = 0 <=> x < Milli
<1>1. Recurs(n, delays).step[k][t] = {} <=> k > n
  BY DEF Recurs, RecursDelays
<1>2. Forever(delays).step[k][t] # {}
  BY DEF Forever
<1>3. s.step[k][t] \subseteq Nat
  BY StepFacts
<1>4. \A x \in Capped(s, d).step[k][t] : x <= d
  BY <1>3 DEF Capped, Least
<1>5. t >= d => UpTo(s, d).step[k][t] = {}
  BY DEF UpTo
<1>6. ASSUME NEW j \in Jittered(s).step[k][t]
      PROVE  \E x \in s.step[k][t] :
               /\ j <= x /\ x < 2 * (j + Milli)
               /\ (\E h \in Nat : x = 2 * FromMillis(h)) => x <= 2 * j
               /\ j = 0 <=> x < Milli
  <2>1. Jittered(s).step[k][t] = UNION {Jitter(x) : x \in s.step[k][t]}
    BY DEF Jittered
  <2>2. PICK x \in s.step[k][t] : j \in Jitter(x)
    BY <2>1
  <2>3. QED
    BY <1>3, <2>2, JitterFacts
<1>7. QED
  BY <1>1, <1>2, <1>4, <1>5, <1>6

-----------------------------------------------------------------------------
(* Pause tokens                                                            *)

\* Every step keeps the types and the sleepers reachable by a notification.
LEMMA WakeupStep == Shape /\ WakeupInv /\ [Next]_vars => Shape' /\ WakeupInv'
<1> SUFFICES ASSUME Shape, WakeupInv, [Next]_vars PROVE Shape' /\ WakeupInv'
  OBVIOUS
<1> USE PauseAssumption DEF Shape, WakeupInv, NoLostWakeup, Tokens, Future, Idle
<1>1. ASSUME NEW c \in Controllers, NEW t \in Tokens, NEW does \in {"pause", "resume"},
             Store(c, t, does)
      PROVE  Shape' /\ WakeupInv'
  BY <1>1 DEF Store
<1>2. ASSUME NEW c \in Controllers, Notify(c) PROVE Shape' /\ WakeupInv'
  BY <1>2 DEF Notify
<1>3. ASSUME Call PROVE Shape' /\ WakeupInv'
  BY <1>3 DEF Call
<1>4. ASSUME WaiterStep PROVE Shape' /\ WakeupInv'
  <2>1. ASSUME Check PROVE Shape' /\ WakeupInv'
    BY <2>1 DEF Check
  <2>2. ASSUME SweepEnds PROVE Shape' /\ WakeupInv'
    BY <2>2 DEF SweepEnds
  <2>3. ASSUME Create PROVE Shape' /\ WakeupInv'
    BY <2>3 DEF Create
  <2>4. ASSUME Recheck PROVE Shape' /\ WakeupInv'
    <3>1. CASE at \in paused
      BY <2>4, <3>1 DEF Recheck
    <3>2. CASE at \notin paused
      <4>1. at' = at + 1 /\ at + 1 \in 1..(NumTokens + 1) /\ seen' \subseteq Tokens
        BY <2>4, <3>2 DEF Recheck
      <4>2. QED
        BY <2>4, <3>2, <4>1 DEF Recheck
    <3>3. QED
      BY <3>1, <3>2
  <2>5. ASSUME Awoken PROVE Shape' /\ WakeupInv'
    BY <2>5 DEF Awoken
  <2>6. QED
    BY <1>4, <2>1, <2>2, <2>3, <2>4, <2>5 DEF WaiterStep
<1>5. ASSUME WatcherStep PROVE Shape' /\ WakeupInv'
  BY <1>5 DEF WatcherStep, UntilCreate, UntilRecheck, UntilAwoken
<1>6. ASSUME UNCHANGED vars PROVE Shape' /\ WakeupInv'
  BY <1>6 DEF vars
<1>7. QED
  BY <1>1, <1>2, <1>3, <1>4, <1>5, <1>6 DEF Next

\* No sleeping wait_if_paused or until_paused has missed its notification.
THEOREM NoWakeupLost == Spec => []NoLostWakeup
<1>1. Init => Shape /\ WakeupInv
  BY PauseAssumption DEF Init, Shape, WakeupInv, NoLostWakeup, Tokens, Future, Idle
<1>2. Shape /\ WakeupInv => NoLostWakeup
  BY DEF WakeupInv
<1>3. QED
  BY <1>1, <1>2, WakeupStep, PTL DEF Spec

\* What the checkpoint has swept without a wait was unpaused since it last waited.
SweepInv == wpc # "idle" =>
  /\ Tokens \ paused \subseteq seen
  /\ ~waited => 1..(at - 1) \subseteq seen
  /\ wpc = "returned" => ~waited
  /\ wpc = "returned" => at = NumTokens + 1

\* Every step keeps what the sweep has passed.
LEMMA SweepStep == Shape /\ WakeupInv /\ SweepInv /\ [Next]_vars => SweepInv'
<1> SUFFICES ASSUME Shape, WakeupInv, SweepInv, [Next]_vars PROVE SweepInv'
  OBVIOUS
<1> USE PauseAssumption DEF Shape, SweepInv, Tokens
<1>1. ASSUME NEW c \in Controllers, NEW t \in Tokens, NEW does \in {"pause", "resume"},
             Store(c, t, does)
      PROVE  SweepInv'
  BY <1>1 DEF Store
<1>2. ASSUME NEW c \in Controllers, Notify(c) PROVE SweepInv'
  BY <1>2 DEF Notify
<1>3. ASSUME Call PROVE SweepInv'
  BY <1>3 DEF Call
<1>4. ASSUME Check PROVE SweepInv'
  BY <1>4 DEF Check
<1>5. ASSUME SweepEnds PROVE SweepInv'
  BY <1>5 DEF SweepEnds
<1>6. ASSUME Create \/ Awoken PROVE SweepInv'
  BY <1>6 DEF Create, Awoken
<1>7. ASSUME Recheck PROVE SweepInv'
  BY <1>7 DEF Recheck, WakeupInv
<1>8. ASSUME WatcherStep \/ UNCHANGED vars PROVE SweepInv'
  BY <1>8 DEF WatcherStep, UntilCreate, UntilRecheck, UntilAwoken, vars
<1>9. QED
  BY <1>1, <1>2, <1>3, <1>4, <1>5, <1>6, <1>7, <1>8 DEF Next, WaiterStep

\* A sweep that is through has passed every constituent.
LEMMA SweptAll == Shape /\ SweepInv => CheckpointHonoured
<1> SUFFICES ASSUME Shape, SweepInv, wpc = "returned" PROVE seen = Tokens
  BY DEF CheckpointHonoured
<1>1. at - 1 = NumTokens /\ 1..(at - 1) \subseteq seen
  BY PauseAssumption DEF SweepInv
<1>2. Tokens \subseteq seen
  BY <1>1 DEF Tokens
<1>3. QED
  BY <1>2 DEF Shape

\* A checkpoint of the composed token returns only after every constituent was
\* unpaused at some instant since the checkpoint last waited.
THEOREM CheckpointSound == Spec => []CheckpointHonoured
<1>1. Init => Shape /\ WakeupInv /\ SweepInv
  BY PauseAssumption DEF Init, Shape, WakeupInv, NoLostWakeup, SweepInv, Tokens, Future, Idle
<1>2. QED
  BY <1>1, SweptAll, WakeupStep, SweepStep, PTL DEF Spec

\* Every variable keeps its type.
THEOREM TypeCorrect == Spec => []TypeOK
<1> DEFINE Flag == waited \in BOOLEAN
<1>1. Init => Shape /\ WakeupInv
  BY PauseAssumption DEF Init, Shape, WakeupInv, NoLostWakeup, Tokens, Future, Idle
<1>2. Flag /\ [Next]_vars => Flag'
  BY Zenon DEF Next, Store, Notify, Call, WaiterStep, Check, SweepEnds, Create, Recheck, Awoken,
            WatcherStep, UntilCreate, UntilRecheck, UntilAwoken, vars
<1>3. Init => Flag
  BY Zenon DEF Init
<1>4. Shape /\ Flag => TypeOK
  BY Zenon DEF TypeOK
<1> HIDE DEF Flag
<1>5. QED
  BY <1>1, <1>2, <1>3, <1>4, WakeupStep, PTL DEF Spec

-----------------------------------------------------------------------------
(* pausable_sleep and the loops                                            *)

\* What a frozen sleep knows of its future; the checkpoint is not in use.
FrozenInv ==
  /\ spc = "frozen_check" => rfut \in {"registered", "woken"}
  /\ spc # "absent" => wpc = "idle"
  /\ WakeupsKept

\* A new select! of pausable_sleep polls a new until_paused.
NewUntilPaused ==
  /\ upc' = "create" /\ ufut' = "none"
  /\ UNCHANGED <<paused, ctl, toggles, wpc, at, waited, fut, seen>>

\* Where the loops step, the token takes one of its own steps or none; only a
\* sleep makes a new until_paused.
LEMMA TokenSteps == [RNext]_allVars => [Next]_vars \/ NewUntilPaused
<1> SUFFICES ASSUME [RNext]_allVars PROVE [Next]_vars \/ NewUntilPaused
  OBVIOUS
<1>1. CASE RetryStep
  <2>1. CASE Begin \/ CheckCancel \/ TimerFires \/ Freeze \/ FrozenCreate \/ FrozenCheck
             \/ FrozenAwoken \/ SleepCancelled
    BY <2>1 DEF Begin, CheckCancel, TimerFires, Freeze, FrozenCreate, FrozenCheck,
                FrozenAwoken, SleepCancelled
  <2>2. CASE Sleep
    BY <2>2 DEF Sleep, vars, NewUntilPaused
  <2>3. CASE Watch
    BY <2>3 DEF Watch, Next
  <2>4. QED
    BY <1>1, <2>1, <2>2, <2>3 DEF RetryStep
<1>2. CASE OperationEnds \/ OperationAgain \/ Tick \/ CancelRetry
  BY <1>2 DEF OperationEnds, OperationAgain, Tick, CancelRetry
<1>3. ASSUME NEW c \in Controllers, RetryControl(c) PROVE Next
  <2>1. 1 \in Tokens
    BY PauseAssumption DEF Tokens
  <2>2. QED
    BY <1>3, <2>1 DEF RetryControl, Next
<1>4. CASE UNCHANGED allVars
  BY <1>4 DEF allVars
<1>5. QED
  BY <1>1, <1>2, <1>3, <1>4 DEF RNext

\* The tokens keep their invariant with a loop as their user.
LEMMA TokenInvStep ==
  Shape /\ WakeupInv /\ SweepInv /\ [RNext]_allVars => Shape' /\ WakeupInv' /\ SweepInv'
<1>1. ASSUME Shape, WakeupInv, SweepInv, NewUntilPaused
      PROVE  Shape' /\ WakeupInv' /\ SweepInv'
  BY <1>1 DEF NewUntilPaused, Shape, WakeupInv, NoLostWakeup, SweepInv, Tokens, Future
<1>2. QED
  BY <1>1, TokenSteps, WakeupStep, SweepStep

\* A frozen sleep keeps its registration until it is woken.
LEMMA FrozenStep ==
  ASSUME Shape, WakeupInv, FrozenInv, [RNext]_allVars, NoLostWakeup'
  PROVE  FrozenInv'
<1> USE DEF FrozenInv, WakeupsKept
<1>1. CASE spc = "absent" /\ Next /\ UNCHANGED retryVars
  BY <1>1 DEF retryVars
<1>2. CASE RetryStep
  <2>1. CASE Begin \/ CheckCancel
    BY <2>1 DEF Begin, CheckCancel, vars
  <2>2. CASE Sleep \/ TimerFires
    BY <2>2 DEF Sleep, TimerFires, AfterSleep, vars
  <2>3. CASE Watch
    BY <2>3 DEF Watch, WatcherStep, UntilCreate, UntilRecheck, UntilAwoken, retryVars
  <2>4. CASE Freeze \/ FrozenCreate \/ FrozenAwoken \/ SleepCancelled
    BY <2>4 DEF Freeze, FrozenCreate, FrozenAwoken, SleepCancelled, Frozen, vars
  <2>5. CASE FrozenCheck
    BY <2>5 DEF FrozenCheck, vars
  <2>6. QED
    BY <1>2, <2>1, <2>2, <2>3, <2>4, <2>5 DEF RetryStep
<1>3. CASE OperationEnds \/ OperationAgain
  BY <1>3 DEF OperationEnds, OperationAgain, vars
<1>4. CASE Tick \/ CancelRetry
  BY <1>4 DEF Tick, CancelRetry, loopVars, sleepVars, vars
<1>5. ASSUME NEW c \in Controllers, spc # "absent", RetryControl(c) PROVE FrozenInv'
  <2>1. ASSUME NEW does \in {"pause", "resume"}, Store(c, 1, does), UNCHANGED retryVars
        PROVE  FrozenInv'
    BY <2>1 DEF Store, retryVars, sleepVars, Shape
  <2>2. ASSUME Notify(c), spc' = spc,
               rfut' = IF ctl[c].does = "resume" /\ ctl[c].on = 1 /\ rfut = "registered"
                       THEN "woken" ELSE rfut
        PROVE  FrozenInv'
    BY <2>2 DEF Notify, Shape, Idle
  <2>3. QED
    BY <1>5, <2>1, <2>2 DEF RetryControl
<1>6. CASE UNCHANGED allVars
  BY <1>6 DEF allVars, vars, retryVars, sleepVars
<1>7. QED
  BY <1>1, <1>2, <1>3, <1>4, <1>5, <1>6 DEF RNext

\* The invariant of the tokens and of a frozen sleep, over the whole of RSpec.
LEMMA TokensInv == RSpec => [](Shape /\ WakeupInv /\ SweepInv /\ FrozenInv)
<1>1. RInit => Shape /\ WakeupInv /\ SweepInv /\ FrozenInv
  BY PauseAssumption DEF RInit, Init, Shape, WakeupInv, NoLostWakeup, SweepInv, FrozenInv,
     WakeupsKept, Tokens, Future, Idle
<1>2. WakeupInv' => NoLostWakeup'
  BY DEF WakeupInv
<1>3. Shape /\ WakeupInv /\ FrozenInv /\ NoLostWakeup' /\ [RNext]_allVars => FrozenInv'
  BY FrozenStep
<1>4. QED
  BY <1>1, <1>2, <1>3, TokenInvStep, PTL DEF RSpec

\* No notification is lost, to a checkpoint, to until_paused or to a sleep that
\* is frozen, whoever uses the token.
THEOREM NoFrozenSleepLost == RSpec => []WakeupsKept
<1>1. FrozenInv => WakeupsKept
  BY DEF FrozenInv
<1>2. QED
  BY <1>1, TokensInv, PTL

\* CheckpointSound, for RSpec.
THEOREM CheckpointsSound == RSpec => []CheckpointHonoured
  BY TokensInv, SweptAll, PTL

\* The steps of everybody else leave the loop alone.
Bystander == UNCHANGED <<loopVars, left, since, slept, spc, total, stop, late>>

\* A step is one of the loop's own, of its clock or of the host, or leaves the
\* loop alone.
LEMMA LoopSteps ==
  ASSUME [RNext]_allVars
  PROVE  \/ Begin \/ OperationEnds \/ OperationAgain \/ CheckCancel
         \/ Sleep \/ TimerFires \/ Freeze \/ FrozenCreate \/ FrozenCheck
         \/ FrozenAwoken \/ SleepCancelled \/ Tick \/ CancelRetry \/ Bystander
<1>1. Watch \/ UNCHANGED retryVars \/ UNCHANGED allVars => Bystander
  BY DEF Watch, allVars, retryVars, sleepVars, Bystander
<1>2. \A c \in Controllers : RetryControl(c) => Bystander
  BY DEF RetryControl, retryVars, sleepVars, Bystander
<1>3. QED
  BY <1>1, <1>2 DEF RNext, RetryStep

\* Nobody looks at the cancellation between the check and the begin.
CancelInv == loop # "policy" =>
  /\ late \in {0, 1}
  /\ late = 1 => stop /\ spc # "begin"

\* Every step keeps CancelInv.
LEMMA CancelStep == CancelInv /\ [RNext]_allVars => CancelInv'
<1> SUFFICES ASSUME CancelInv, [RNext]_allVars PROVE CancelInv'
  OBVIOUS
<1> USE DEF CancelInv, loop
<1>1. CASE Begin
  <2>1. CASE stop
    BY <1>1, <2>1 DEF Begin
  <2>2. CASE ~stop
    BY <1>1, <2>2 DEF Begin
  <2>3. QED
    BY <2>1, <2>2
<1>2. CASE OperationEnds \/ OperationAgain
  BY <1>2 DEF OperationEnds, OperationAgain
<1>3. CASE CheckCancel
  BY <1>3 DEF CheckCancel, loopVars
<1>4. CASE Sleep \/ TimerFires
  BY <1>4 DEF Sleep, TimerFires, AfterSleep, loopVars
<1>5. CASE Freeze \/ FrozenCreate \/ FrozenCheck \/ FrozenAwoken \/ SleepCancelled
  BY <1>5 DEF Freeze, FrozenCreate, FrozenCheck, FrozenAwoken, SleepCancelled, Frozen, loopVars
<1>6. CASE Tick \/ CancelRetry \/ Bystander
  BY <1>6 DEF Tick, CancelRetry, Bystander, loopVars
<1>7. QED
  BY <1>1, <1>2, <1>3, <1>4, <1>5, <1>6, LoopSteps

\* After a cancellation a loop over a schedule begins one operation at most.
THEOREM CancelStops == RSpec => []CancelStopsAttempts
<1>1. RInit => CancelInv
  BY DEF RInit, CancelInv
<1>2. CancelInv => CancelStopsAttempts
  BY DEF CancelInv, CancelStopsAttempts
<1>3. QED
  BY <1>1, <1>2, CancelStep, PTL DEF RSpec

\* The loops are called with schedules: what the constructors and combinators
\* make, by the lemmas above.
SchedulesOK == \A u \in DOMAIN Uses : IsSchedule(Uses[u].sched)

\* What the loops use of their schedule.
LEMMA SchedFacts ==
  ASSUME SchedulesOK, RetryShape
  PROVE  /\ sched.granted \in Nat \/ sched.granted = NoLimit
         /\ \A k \in Nat :
              /\ sched.step[k][total] \subseteq Nat
              /\ sched.granted # NoLimit /\ k >= sched.granted => sched.step[k][total] = {}
              /\ (sched.granted = NoLimit \/ k < sched.granted) /\ sched.step[k][total] = {} =>
                   \E d \in sched.limits : total >= d
<1>1. IsSchedule(sched) /\ total \in Nat
  BY MaxTimeAssumption DEF SchedulesOK, RetryShape, sched
<1>2. QED
  BY <1>1, StepFacts

\* The future of a frozen sleep stays one.
LEMMA FutureStep ==
  ASSUME rfut \in Future, [RNext]_allVars, Bystander PROVE rfut' \in Future
  BY DEF RNext, RetryStep, Begin, OperationEnds, OperationAgain, CheckCancel, Sleep, TimerFires,
     Watch, Freeze, FrozenCreate, FrozenCheck, FrozenAwoken, SleepCancelled, Tick, CancelRetry,
     RetryControl, allVars, retryVars, sleepVars, Future

\* Every step keeps the types.
LEMMA RetryShapeStep ==
  ASSUME SchedulesOK, RetryShape, [RNext]_allVars
  PROVE  RetryShape'
<1> USE MaxTimeAssumption DEF RetryShape, Positions, Sleeping, Frozen, Returned, Future, Greatest, Least
<1>1. CASE Begin
  <2>1. sched.step[attempt][total] \subseteq Nat
    BY SchedFacts
  <2>2. QED
    BY <1>1, <2>1 DEF Begin, sleepVars
<1>2. CASE OperationEnds \/ OperationAgain
  BY <1>2 DEF OperationEnds, OperationAgain, sleepVars
<1>3. CASE CheckCancel \/ TimerFires
  BY <1>3 DEF CheckCancel, TimerFires, AfterSleep, loopVars, sleepVars
<1>4. CASE Sleep
  BY <1>4 DEF Sleep, AfterSleep, loopVars
<1>5. CASE Freeze
  BY <1>5 DEF Freeze, loopVars
<1>6. CASE FrozenCreate \/ FrozenCheck \/ FrozenAwoken \/ SleepCancelled
  BY <1>6 DEF FrozenCreate, FrozenCheck, FrozenAwoken, SleepCancelled, loopVars
<1>7. CASE Tick
  BY <1>7 DEF Tick, loopVars
<1>8. CASE CancelRetry
  BY <1>8 DEF CancelRetry, loopVars, sleepVars
<1>9. CASE Bystander
  BY <1>9, FutureStep DEF Bystander, loopVars
<1>10. QED
  BY <1>1, <1>2, <1>3, <1>4, <1>5, <1>6, <1>7, <1>8, <1>9, LoopSteps

\* What is left of a sleep covers what it still owes.
SleepInv ==
  /\ spc \in {"sleep"} \cup Frozen => delay <= slept + left
  /\ spc = "select" => since <= left /\ delay + since <= slept + left
  /\ spc = "check_cancel" => slept >= delay
  /\ SleepsEnough

\* Every step keeps SleepInv: paused time is not subtracted from the sleep.
LEMMA SleepStep ==
  ASSUME SchedulesOK, RetryShape, SleepInv, [RNext]_allVars
  PROVE  SleepInv'
<1> USE DEF RetryShape, SleepInv, SleepsEnough, Frozen
<1>1. CASE Begin \/ OperationEnds
  BY <1>1 DEF Begin, OperationEnds, sleepVars
<1>2. CASE OperationAgain
  BY <1>2 DEF OperationAgain
<1>3. CASE CheckCancel \/ TimerFires
  BY <1>3 DEF CheckCancel, TimerFires, AfterSleep, loopVars, sleepVars
<1>4. CASE Sleep
  BY <1>4 DEF Sleep, AfterSleep, loopVars
<1>5. CASE Freeze
  BY <1>5 DEF Freeze, loopVars, Greatest
<1>6. CASE FrozenCreate \/ FrozenCheck \/ FrozenAwoken \/ SleepCancelled
  BY <1>6 DEF FrozenCreate, FrozenCheck, FrozenAwoken, SleepCancelled, loopVars
<1>7. CASE Tick
  BY <1>7 DEF Tick, loopVars, Least
<1>8. CASE CancelRetry \/ Bystander
  BY <1>8 DEF CancelRetry, Bystander, loopVars, sleepVars
<1>9. QED
  BY <1>1, <1>2, <1>3, <1>4, <1>5, <1>6, <1>7, <1>8, LoopSteps

\* An operation runs only in an attempt that is granted.
GrantInv ==
  /\ sched.granted # NoLimit => attempt <= sched.granted
  /\ spc = "operation" /\ sched.granted # NoLimit => attempt < sched.granted
  /\ AttemptsGranted

\* Every step keeps GrantInv.
LEMMA GrantStep ==
  ASSUME SchedulesOK, RetryShape, GrantInv, [RNext]_allVars
  PROVE  GrantInv'
<1>1. sched' = sched /\ use' = use
  BY LoopSteps DEF sched, Begin, OperationEnds, OperationAgain, CheckCancel, Sleep, TimerFires,
     Freeze, FrozenCreate, FrozenCheck, FrozenAwoken, SleepCancelled, Tick, CancelRetry,
     Bystander, loopVars
<1> USE <1>1 DEF RetryShape, GrantInv, AttemptsGranted, Timed
<1>2. CASE Begin
  <2>1. attempt' = attempt /\ total' = total /\ attempt \in Nat
    BY <1>2 DEF Begin, sleepVars
  <2>2. sched.granted \in Nat \/ sched.granted = NoLimit
    BY SchedFacts
  <2>3. CASE spc' = "operation"
    <3>1. sched.step[attempt][total] # {}
      BY <1>2, <2>3 DEF Begin
    <3>2. QED
      BY <2>1, <2>2, <2>3, <3>1, SchedFacts DEF NoLimit
  <2>4. CASE spc' # "operation"
    <3>1. sched.step[attempt][total] = {}
      BY <1>2, <2>4 DEF Begin
    <3>2. attempt = sched.granted \/ ((sched.granted = NoLimit \/ attempt < sched.granted)
                                      /\ \E d \in sched.limits : total >= d)
      BY <2>1, <2>2, <3>1, SchedFacts DEF NoLimit
    <3>3. QED
      BY <2>1, <2>4, <3>2
  <2>5. QED
    BY <2>3, <2>4
<1>3. CASE OperationEnds
  BY <1>3, SchedFacts DEF OperationEnds, NoLimit
<1>4. CASE OperationAgain
  BY <1>4, SchedFacts DEF OperationAgain, NoLimit
<1>5. CASE CheckCancel \/ Sleep \/ TimerFires
  BY <1>5 DEF CheckCancel, Sleep, TimerFires, AfterSleep, loopVars
<1>6. CASE Freeze \/ FrozenCreate \/ FrozenCheck \/ FrozenAwoken \/ SleepCancelled
  BY <1>6 DEF Freeze, FrozenCreate, FrozenCheck, FrozenAwoken, SleepCancelled, Frozen, loopVars
<1>7. CASE Tick \/ CancelRetry \/ Bystander
  <2>1. attempt' = attempt /\ spc' = spc /\ (spc = "exhausted" => total' = total)
    BY <1>7 DEF Tick, CancelRetry, Bystander, loopVars, Frozen
  <2>2. QED
    BY <2>1
<1>8. QED
  BY <1>2, <1>3, <1>4, <1>5, <1>6, <1>7, LoopSteps

\* The initial states satisfy the invariants of the loops.
LEMMA RetryInit ==
  ASSUME SchedulesOK, RInit
  PROVE  RetryShape /\ SleepInv /\ GrantInv
<1>1. RetryShape
  BY UsesAssumption, MaxTimeAssumption DEF RInit, RetryShape, Positions, Future
<1>2. SleepInv
  BY DEF RInit, SleepInv, SleepsEnough, Frozen
<1>3. sched.granted \in Nat \/ sched.granted = NoLimit
  BY <1>1, SchedFacts
<1>4. GrantInv
  BY <1>3 DEF RInit, GrantInv, AttemptsGranted, NoLimit
<1>5. QED
  BY <1>1, <1>2, <1>4

\* The invariants of the loops hold throughout.
LEMMA LoopsInv ==
  ASSUME SchedulesOK PROVE RSpec => [](RetryShape /\ SleepInv /\ GrantInv)
<1>1. RInit => RetryShape /\ SleepInv /\ GrantInv
  BY RetryInit
<1>2. RetryShape /\ SleepInv /\ GrantInv /\ [RNext]_allVars => RetryShape' /\ SleepInv' /\ GrantInv'
  BY RetryShapeStep, SleepStep, GrantStep
<1>3. QED
  BY <1>1, <1>2, PTL DEF RSpec

\* Between two attempts the call has been awake for the whole delay, however
\* often and for however long pausable_sleep was frozen.
THEOREM SleepsInFull == ASSUME SchedulesOK PROVE RSpec => []SleepsEnough
<1>1. SleepInv => SleepsEnough
  BY DEF SleepInv
<1>2. QED
  BY <1>1, LoopsInv, PTL

\* A loop that runs out of attempts has made those its schedule grants, or fewer
\* once the time of a limit has elapsed.
THEOREM GrantedAttemptsMade == ASSUME SchedulesOK PROVE RSpec => []AttemptsGranted
<1>1. GrantInv => AttemptsGranted
  BY DEF GrantInv
<1>2. QED
  BY <1>1, LoopsInv, PTL

\* The Boolean flags of the checkpoint and of the cancellation token.
Flags == waited \in BOOLEAN /\ stop \in BOOLEAN

\* Every step keeps them.
LEMMA FlagsStep == Flags /\ [RNext]_allVars => Flags'
<1>1. Flags /\ [Next]_vars => waited' \in BOOLEAN
  BY Zenon DEF Flags, Next, Store, Notify, Call, WaiterStep, Check, SweepEnds, Create, Recheck,
     Awoken, WatcherStep, UntilCreate, UntilRecheck, UntilAwoken, vars
<1>2. Flags /\ NewUntilPaused => waited' \in BOOLEAN
  BY Zenon DEF Flags, NewUntilPaused
<1>3. ASSUME Flags, [RNext]_allVars PROVE stop' \in BOOLEAN
  <2>1. stop' = stop \/ stop' = TRUE
    BY <1>3, LoopSteps, Zenon DEF Begin, OperationEnds, OperationAgain, CheckCancel, Sleep,
       TimerFires, Freeze, FrozenCreate, FrozenCheck, FrozenAwoken, SleepCancelled, Tick,
       CancelRetry, Bystander
  <2>2. QED
    BY <1>3, <2>1, Zenon DEF Flags
<1>4. QED
  BY <1>1, <1>2, <1>3, TokenSteps, Zenon DEF Flags

\* Every variable keeps its type, and every clock the bound it is kept to.
THEOREM RetryTypeCorrect == ASSUME SchedulesOK PROVE RSpec => []RTypeOK
<1>1. RInit => Flags
  BY Zenon DEF RInit, Init, Flags
<1>2. Shape /\ RetryShape /\ Flags => RTypeOK
  BY Zenon DEF RTypeOK, TypeOK, Flags
<1>3. QED
  BY <1>1, <1>2, FlagsStep, TokensInv, LoopsInv, PTL DEF RSpec
=============================================================================
