---------------------------- MODULE TokenBucket ----------------------------
(***************************************************************************)
(* The optional rate limiter of one worker process: a refilling bucket per *)
(* throttle key, consulted before anybody is authenticated.  Time passes   *)
(* in ticks; a bucket earns one unit a tick and a request costs Cost       *)
(* units, so that the rate is TicksPerSecond / Cost requests a second.     *)
(*                                                                         *)
(* The middleware awaits nothing between looking a bucket up and having    *)
(* consumed from it, so one request is one step.                           *)
(***************************************************************************)
EXTENDS Integers

CONSTANTS
  Keys,             \* throttle keys
  Capacity,         \* burst, in units
  Cost,             \* one request, in units
  TicksPerSecond,
  MaxTime           \* bound: the ticks of a history

ASSUME BucketAssumption ==
  /\ Capacity \in Nat /\ Cost \in Nat \ {0} /\ Cost <= Capacity
  /\ TicksPerSecond \in Nat \ {0}
  /\ MaxTime \in Nat

VARIABLES
  buckets,  \* key -> what its bucket holds and when that was reckoned
  clock,    \* time.monotonic()
  window,   \* key -> what it was admitted since an observer began to count
  advice    \* key -> when the first client refused since was told to return

bucketVars == <<buckets, clock, window, advice>>

Never == -1

-----------------------------------------------------------------------------
(* A bucket *)

\* Mutated form: an idle bucket keeps earning.
RefilledUncapped(b, now) == b.tokens + (now - b.updated)

\* Refill for the elapsed time, up to the capacity.
Refilled(b, now) ==
  LET earned == b.tokens + (now - b.updated)
  IN  IF earned <= Capacity THEN earned ELSE Capacity

Admits(b, now) == Refilled(b, now) >= Cost

\* try_consume: the refill is kept whether or not there was a token to take.
Consumed(b, now) ==
  [tokens |-> IF Admits(b, now) THEN Refilled(b, now) - Cost ELSE Refilled(b, now),
   updated |-> now]

\* Mutated form: the wait rounded down.
RetryAfterFloor(b) == (Cost - b.tokens) \div TicksPerSecond

\* Whole seconds, at least one: the wait plus 0.999 s, rounded down.
RetryAfter(b) ==
  LET whole == (1000 * (Cost - b.tokens) + 999 * TicksPerSecond)
                 \div (1000 * TicksPerSecond)
  IN  IF whole < 1 THEN 1 ELSE whole

-----------------------------------------------------------------------------
(* The middleware *)

\* The bucket of a key that was never seen starts full.
BucketOf(key) ==
  IF buckets[key].updated = Never THEN [tokens |-> Capacity, updated |-> clock]
  ELSE buckets[key]

\* A request arrives: it is passed on, or answered with 429 and Retry-After.
Request(key) ==
  LET b == BucketOf(key)
      after == Consumed(b, clock)
  IN  /\ buckets' = [buckets EXCEPT ![key] = after]
      /\ IF Admits(b, clock)
         THEN /\ window' = [window EXCEPT ![key].spent =
                              IF window[key].from = Never THEN @ ELSE @ + Cost]
              /\ advice' = [advice EXCEPT ![key] = Never]
         ELSE /\ advice' = [advice EXCEPT ![key] =
                              IF @ # Never THEN @
                              ELSE clock + TicksPerSecond * RetryAfter(after)]
              /\ UNCHANGED window
      /\ UNCHANGED clock

Tick ==
  /\ clock < MaxTime
  /\ clock' = clock + 1
  /\ UNCHANGED <<buckets, window, advice>>

\* Not the program: somebody begins to count what a key is admitted.
Observe(key) ==
  /\ window[key].from = Never
  /\ window' = [window EXCEPT ![key].from = clock]
  /\ UNCHANGED <<buckets, clock, advice>>

BucketInit ==
  /\ buckets = [key \in Keys |-> [tokens |-> Capacity, updated |-> Never]]
  /\ clock = 0
  /\ window = [key \in Keys |-> [from |-> Never, spent |-> 0]]
  /\ advice = [key \in Keys |-> Never]

BucketNext == Tick \/ \E key \in Keys : Request(key) \/ Observe(key)

BucketSpec == BucketInit /\ [][BucketNext]_bucketVars

-----------------------------------------------------------------------------
(* Properties *)

\* Types of the buckets, the clock and the observers.
BucketTypeOK ==
  /\ buckets \in [Keys -> [tokens : 0 .. Capacity, updated : Nat \cup {Never}]]
  /\ clock \in Nat
  /\ window \in [Keys -> [from : Nat \cup {Never}, spent : Nat]]
  /\ advice \in [Keys -> Nat \cup {Never}]

\* "A burst of up to capacity is allowed and the steady-state throughput
\* settles at rate" (TokenBucket): over any window, begun at any moment and
\* however long the key was idle before, a key is admitted at most the
\* capacity and what the window earned.
BurstIsBounded ==
  \A key \in Keys : window[key].from # Never =>
    window[key].spent <= Capacity + (clock - window[key].from)

\* A client that was refused and waits as long as Retry-After says is
\* admitted, up to the millisecond that adding 0.999 s leaves out, if nobody
\* spent a token on its key meanwhile; asking again too early costs nothing.
RetryAfterIsEnough ==
  \A key \in Keys :
    /\ advice[key] # Never
    /\ 1000 * (clock - advice[key]) >= TicksPerSecond
    => Admits(buckets[key], clock)

=============================================================================
