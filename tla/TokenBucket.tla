------------------------------ MODULE TokenBucket ------------------------------
(***************************************************************************)
(* rate_limit::TokenBucket, of which the server has three: for /store, for *)
(* /fetch and /trash together, and for /attempts.  Callers hold the        *)
(* bucket's mutex for the whole of try_consume, clock reading included, so *)
(* a call is one step.                                                     *)
(*                                                                         *)
(* Amounts are whole numbers of a quantum of which Token make up a token:  *)
(* the fractions that the source keeps in an f64 are multiples of it, and  *)
(* the rounding of floating point is left out.                             *)
(***************************************************************************)
EXTENDS Integers

CONSTANTS
    Token,     \* quanta in a token
    Capacity,  \* *_RATE_LIMIT_BURST, in quanta
    Refill,    \* *_RATE_LIMIT_REFILL_PER_SECOND, in quanta per clock unit
    MaxTime    \* bound of the clock

\* what validate_token_bucket accepts
ASSUME BucketAssumption ==
    /\ Token \in Nat \ {0}
    /\ Capacity \in Nat \ {0}
    /\ Refill \in Nat
    /\ MaxTime \in Nat

VARIABLES
    now,          \* Instant::now()
    tokens,       \* quanta in the bucket when it was last refilled
    last_refill,  \* when that was
    since,        \* an observer counts the grants from here on,
    granted,      \*   and this many there have been
    last_grant    \* when the last token was given away; the start if none was

vars == <<now, tokens, last_refill, since, granted, last_grant>>

TypeOK ==
    /\ now \in Nat
    /\ tokens \in 0..Capacity
    /\ last_refill \in 0..now
    /\ since \in 0..now
    /\ granted \in Nat
    /\ last_grant \in 0..now

Init ==
    /\ now = 0
    /\ tokens = Capacity
    /\ last_refill = 0
    /\ since = 0
    /\ granted = 0
    /\ last_grant = 0

\* mutant: the refill is not capped
RefilledUncapped == tokens + Refill * (now - last_refill)

Refilled ==
    LET sum == tokens + Refill * (now - last_refill)
    IN  IF sum <= Capacity THEN sum ELSE Capacity

Grant ==
    /\ Refilled >= Token
    /\ tokens' = Refilled - Token
    /\ last_refill' = now
    /\ granted' = granted + 1
    /\ last_grant' = now
    /\ UNCHANGED <<now, since>>

\* mutant: a refused call moves the clock of the bucket and refills nothing
RefuseLoses ==
    /\ Refilled < Token
    /\ last_refill' = now
    /\ UNCHANGED <<now, tokens, since, granted, last_grant>>

\* the fraction of a token that has accrued is kept
Refuse ==
    /\ Refilled < Token
    /\ tokens' = Refilled
    /\ last_refill' = now
    /\ UNCHANGED <<now, since, granted, last_grant>>

try_consume == Grant \/ Refuse

\* the observer starts to count again
Observe ==
    /\ since' = now
    /\ granted' = 0
    /\ UNCHANGED <<now, tokens, last_refill, last_grant>>

Tick ==
    /\ now < MaxTime
    /\ now' = now + 1
    /\ UNCHANGED <<tokens, last_refill, since, granted, last_grant>>

Next == try_consume \/ Observe \/ Tick

Spec == Init /\ [][Next]_vars

-----------------------------------------------------------------------------
(* Properties *)

\* Over any interval, however calls are spread over it, the bucket grants at
\* most its capacity and what it refills meanwhile: "the first day can admit at
\* most 172,810 requests" (README.md:300, rate_limit.rs:27-31).
GrantsBounded == Token * granted <= Capacity + Refill * (now - since)

\* A call that would be refused comes before one token has been refilled since
\* the last one was given away: refused calls, however frequent, do not hold up
\* the refill (rate_limit.rs:30-37).  A burst below one token grants nothing.
RefusedEarly ==
    Capacity >= Token /\ Refilled < Token
        => Refill * (now - last_grant) < Token

=============================================================================
