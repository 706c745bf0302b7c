----------------------------- MODULE TokenBucket -----------------------------
(***************************************************************************)
(* The token bucket of src/protocol/limit.ts.  The code counts tokens as   *)
(* floating-point bytes; here they are counted in parts of a byte, Second  *)
(* of them to a byte, so that a refill by one tick of the clock is the     *)
(* integer Rate.                                                           *)
(***************************************************************************)
EXTENDS Integers

CONSTANTS
    Rate,       \* bytesPerSecond
    Second      \* ticks of the clock per second; 1000 in the code

ASSUME RateAssumption == Rate \in Nat \ {0} /\ Second \in Nat \ {0}

VARIABLES
    tokens,     \* parts of bytes at hand
    updatedAt,  \* the clock up to which tokens were added
    granted     \* history: all bytes ever reserved

bucketVars == <<tokens, updatedAt, granted>>

AtMost(a, b) == IF a <= b THEN a ELSE b
AtLeast(a, b) == IF a >= b THEN a ELSE b

\* A plausible slip: rounding down.
MutantWaitFor(needed) == needed \div Rate

\* Math.ceil(needed / bytesPerSecond * 1000)
WaitFor(needed) == (needed + Rate - 1) \div Rate

BucketInit == tokens = Rate * Second /\ updatedAt = 0 /\ granted = 0

\* What is at hand at clock c, which may be behind updatedAt.
Current(c)  == AtLeast(c, updatedAt)

Refilled(c) == AtMost(Rate * Second, tokens + (Current(c) - updatedAt) * Rate)

\* A plausible slip: what is missing stays a debt although it was waited for.
MutantReserve(bytes, c) ==
    /\ bytes > 0
    /\ granted' = granted + bytes
    /\ tokens' = Refilled(c) - bytes * Second
    /\ updatedAt' = Current(c) + WaitFor(AtLeast(0, -tokens'))

\* reserve(bytes, c): the caller sleeps until updatedAt'.
Reserve(bytes, c) ==
    /\ bytes > 0
    /\ granted' = granted + bytes
    /\ \/ /\ Refilled(c) >= bytes * Second
          /\ tokens' = Refilled(c) - bytes * Second
          /\ updatedAt' = Current(c)
       \/ /\ Refilled(c) < bytes * Second
          /\ tokens' = 0
          /\ updatedAt' = Current(c) + WaitFor(bytes * Second - Refilled(c))

\* Any caller, at any time, however little it cares for the waits.
BucketNext == \E bytes, c \in Nat : Reserve(bytes, c)
BucketSpec == BucketInit /\ [][BucketNext]_bucketVars

\* By the time a caller is told to wait for, no more than the bandwidth and one
\* second's burst has been reserved: rounding never favours the caller.
Bandwidth == Second * granted <= Rate * (Second + updatedAt)
=============================================================================
