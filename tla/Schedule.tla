------------------------------ MODULE Schedule ------------------------------
(* Schedules of agent-fw-algebra: constructors, combinators and step.         *)
(*                                                                            *)
(* A schedule s is what it does: s.step[k][t] is the set of the delays with   *)
(* which step(k, t) may continue at attempt k after time t.  It is empty for  *)
(* Done, and has several members under a jitter, whose seed is any.  Beside   *)
(* it stand what the documentation promises of the constructor, which nothing *)
(* but the properties reads: s.granted, the number of attempts, and s.limits, *)
(* the times elapsed that may end it earlier.                                 *)
(*                                                                            *)
(* Durations are numbers of a unit of which Milli make a millisecond (for     *)
(* std::time::Duration, a million): as_millis drops what is less, and the     *)
(* exponential and Fibonacci patterns and the jitter compute with its result. *)
EXTENDS Integers

CONSTANT Milli

ASSUME MilliAssumption == Milli \in Nat \ {0}

NoLimit == -1

Least(a, b) == IF a < b THEN a ELSE b
Greatest(a, b) == IF a < b THEN b ELSE a

\* Duration::as_millis and Duration::from_millis.
AsMillis(d) == d \div Milli
FromMillis(ms) == ms * Milli

----------------------------------------------------------------------------
(* Delay patterns: the delay after each attempt.                              *)

\* min(d, max) of durations.
CapAt(d, max) == IF d \in 0..max THEN d ELSE max

Immediate == [k \in Nat |-> 0]
Fixed(d) == [k \in Nat |-> d]
Exponential(base, factor, max) ==
  [k \in Nat |-> FromMillis(CapAt(AsMillis(base) * factor ^ k, AsMillis(max)))]

\* The first two are as given; the loop over a and b computes the terms k and
\* k + 1 of one, two, one + two, ... in milliseconds.
Fibonacci(one, two, max) ==
  LET pair[k \in Nat] ==
        IF k = 0 THEN <<AsMillis(one), AsMillis(two)>>
        ELSE <<pair[k - 1][2], pair[k - 1][1] + pair[k - 1][2]>>
  IN  [k \in Nat |-> IF k = 0 THEN CapAt(one, max)
                     ELSE IF k = 1 THEN CapAt(two, max)
                     ELSE FromMillis(CapAt(pair[k][1], AsMillis(max)))]

----------------------------------------------------------------------------
(* Constructors                                                               *)

Never == [step |-> [k \in Nat |-> [t \in Nat |-> {}]], granted |-> 0, limits |-> {}]

Once ==
  [step |-> [k \in Nat |-> [t \in Nat |-> IF k = 0 THEN {0} ELSE {}]],
   granted |-> 1, limits |-> {}]

\* A variant that stops one attempt early.
RecursDelaysShort(max, delays, k) == IF k >= max THEN {} ELSE {delays[k]}

RecursDelays(max, delays, k) == IF k > max THEN {} ELSE {delays[k]}

\* max retries are max + 1 attempts.
Recurs(max, delays) ==
  [step |-> [k \in Nat |-> [t \in Nat |-> RecursDelays(max, delays, k)]],
   granted |-> max + 1, limits |-> {}]

Forever(delays) ==
  [step |-> [k \in Nat |-> [t \in Nat |-> {delays[k]}]],
   granted |-> NoLimit, limits |-> {}]

----------------------------------------------------------------------------
(* Combinators                                                                *)

\* Goes on while one of them does; the shorter delay wins.
UnionDelays(A, B) ==
  IF A = {} THEN B ELSE IF B = {} THEN A ELSE {Least(x, y) : x \in A, y \in B}

Union(a, b) ==
  [step |-> [k \in Nat |-> [t \in Nat |-> UnionDelays(a.step[k][t], b.step[k][t])]],
   granted |-> IF NoLimit \in {a.granted, b.granted} THEN NoLimit
               ELSE Greatest(a.granted, b.granted),
   limits |-> a.limits \cup b.limits]

\* Goes on while both do; the longer delay wins.
Intersect(a, b) ==
  [step |-> [k \in Nat |-> [t \in Nat |->
               {Greatest(x, y) : x \in a.step[k][t], y \in b.step[k][t]}]],
   granted |-> IF a.granted = NoLimit THEN b.granted
               ELSE IF b.granted = NoLimit THEN a.granted
               ELSE Least(a.granted, b.granted),
   limits |-> a.limits \cup b.limits]

Take(s, n) == Intersect(s, Recurs(n, Immediate))

UpTo(s, d) ==
  [step |-> [k \in Nat |-> [t \in Nat |-> IF t >= d THEN {} ELSE s.step[k][t]]],
   granted |-> s.granted, limits |-> s.limits \cup {d}]

Capped(s, d) ==
  [step |-> [k \in Nat |-> [t \in Nat |-> {Least(x, d) : x \in s.step[k][t]}]],
   granted |-> s.granted, limits |-> s.limits]

\* Jitter spreads the milliseconds of d over their upper half, and to zero only
\* where there are none.
Jitter(d) ==
  LET ms == AsMillis(d)
      half == ms \div 2
  IN  IF ms = 0 THEN {0} ELSE {FromMillis(Greatest(half + r, 1)) : r \in 0..(ms - half)}

Jittered(s) ==
  [step |-> [k \in Nat |-> [t \in Nat |-> UNION {Jitter(x) : x \in s.step[k][t]}]],
   granted |-> s.granted, limits |-> s.limits]

Delayed(s, d) ==
  [step |-> [k \in Nat |-> [t \in Nat |->
               IF k = 0 THEN {x + d : x \in s.step[k][t]} ELSE s.step[k][t]]],
   granted |-> s.granted, limits |-> s.limits]

\* A RetryPolicy as a schedule; its delay_for_attempt gives the same delays.
FromRetryPolicy(retries, base, factor, max, jitter) ==
  LET s == Recurs(retries, Exponential(base, factor, max))
  IN  IF jitter THEN Jittered(s) ELSE s

----------------------------------------------------------------------------
\* What the promises mean: no attempt beyond those granted, and none less before
\* the time of one of the limits.
IsSchedule(s) ==
  /\ s.granted \in Nat \cup {NoLimit}
  /\ \A k, t \in Nat :
       /\ s.step[k][t] \subseteq Nat
       /\ s.granted # NoLimit /\ k >= s.granted => s.step[k][t] = {}
       /\ (s.granted = NoLimit \/ k < s.granted) /\ s.step[k][t] = {} =>
            \E d \in s.limits : t >= d
=============================================================================
