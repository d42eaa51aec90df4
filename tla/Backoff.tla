------------------------------ MODULE Backoff ------------------------------
(***************************************************************************)
(* chat.Connection.backoffDelay: the wait before reconnect attempt n.      *)
(* Durations are signed integers of Width bits, 64 in the code.            *)
(***************************************************************************)
EXTENDS Integers

CONSTANTS InitialBackoff,   \* Options.initialBackoff()
          MaxBackoff,       \* Options.maxBackoff()
          Width             \* bits of a time.Duration

MaxInt == 2^(Width - 1) - 1
MinInt == -(2^(Width - 1))

ASSUME BackoffAssumption ==
    /\ InitialBackoff \in Nat \ {0}
    /\ MaxBackoff \in Nat \ {0}
    /\ Width \in Nat /\ Width >= 3
    /\ MaxBackoff + (MaxBackoff \div 4) <= MaxInt

\* time.Duration(x) of a float64 x >= 0.  Out of range the result depends on
\* the platform: amd64 yields the least integer, arm64 the greatest.
ToDuration(x) == IF x <= MaxInt THEN {x} ELSE {MinInt, MaxInt}

CappedBelow(d) == IF d > MaxBackoff THEN MaxBackoff ELSE d

\* Go's integer division by 4 truncates towards zero.
Quarter(d) == IF d >= 0 THEN d \div 4 ELSE -((-d) \div 4)

\* The delay from a capped duration d: rand.Int64N(d/4 + 1) panics unless its
\* argument is positive, else it yields a jitter below it.
WithJitter(d) ==
    IF Quarter(d) + 1 <= 0
    THEN {[panic |-> TRUE, delay |-> 0]}
    ELSE {[panic |-> FALSE, delay |-> d + j] : j \in 0..Quarter(d)}

\* Mutant: the cap is forgotten.
backoffDelayUncapped(attempt) ==
    UNION {WithJitter(d) : d \in ToDuration(InitialBackoff * 2^attempt)}

\* What backoffDelay(attempt) can do.
backoffDelay(attempt) ==
    UNION {WithJitter(CappedBelow(d)) : d \in ToDuration(InitialBackoff * 2^attempt)}
=============================================================================
