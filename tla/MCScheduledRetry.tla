-------------------------- MODULE MCScheduledRetry --------------------------
(* ScheduledRetry on small instances.  Once everybody has returned nothing    *)
(* happens, so the run does not check deadlock.                               *)
EXTENDS ScheduledRetry

Use(name, s) == [loop |-> name, sched |-> s]

SmallUses ==
  << Use("retry", Never),
     Use("retry", Take(Forever(Fibonacci(1, 2, 2)), 2)),
     Use("retry", Delayed(Capped(Recurs(1, Exponential(2, 3, 9)), 1), 1)),
     Use("repeat", Union(Once, UpTo(Recurs(2, Immediate), 2))),
     Use("repeat", Jittered(Recurs(1, Fixed(5)))),
     Use("policy", FromRetryPolicy(1, 3, 2, 3, FALSE)),
     Use("policy", FromRetryPolicy(1, 2, 1, 2, TRUE)),
     Use("policy", FromRetryPolicy(2, 1, 2, 2, FALSE)) >>
=============================================================================
