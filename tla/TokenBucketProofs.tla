--------------------------- MODULE TokenBucketProofs ---------------------------
(***************************************************************************)
(* The bound on grants, and the promptness of the refill, for every        *)
(* capacity, refill rate and token size.                                   *)
(*                                                                         *)
(* Neither property is inductive: both have to say what the bucket would   *)
(* hold if it were refilled now.  What it would hold and what it has       *)
(* granted add up to no more than the capacity and the refill of the       *)
(* interval; and it would be full, or hold all that has been refilled      *)
(* since the last grant.                                                   *)
(***************************************************************************)
EXTENDS TokenBucket, TLAPS

BucketInv ==
    /\ TypeOK
    /\ Token * granted + Refilled <= Capacity + Refill * (now - since)
    /\ Refilled = Capacity \/ Refilled >= Refill * (now - last_grant)

\* Refilling gives an amount that the bucket can hold.
LEMMA RefilledType ==
    ASSUME TypeOK
    PROVE  /\ Refilled \in 0..Capacity
           /\ tokens + Refill * (now - last_refill) \in Nat
<1>1. now - last_refill \in Nat
  BY DEF TypeOK
<1>2. Refill * (now - last_refill) \in Nat
  BY <1>1, BucketAssumption
<1>3. tokens + Refill * (now - last_refill) \in Nat
  BY <1>2, BucketAssumption DEF TypeOK
<1> QED BY <1>3, BucketAssumption DEF Refilled

\* A clock unit adds Refill to whatever has accrued over an interval.
LEMMA OneMore ==
    ASSUME NEW t \in Nat, NEW s \in 0..t
    PROVE  /\ Refill * (t - s) \in Nat
           /\ Refill * ((t + 1) - s) = Refill * (t - s) + Refill
BY BucketAssumption

\* Just after a call the bucket is as full as it was refilled, less the grant.
LEMMA JustRefilled ==
    ASSUME TypeOK, NEW n \in 0..Capacity,
           tokens' = n, last_refill' = now, now' = now
    PROVE  Refilled' = n
<1>1. Refill * (now' - last_refill') = 0
  BY BucketAssumption DEF TypeOK
<1> QED BY <1>1, BucketAssumption DEF Refilled

LEMMA BucketInit == Init => BucketInv
<1> SUFFICES ASSUME Init PROVE BucketInv
  OBVIOUS
<1>1. TypeOK
  BY BucketAssumption DEF Init, TypeOK
<1>2. Refill * (now - last_refill) = 0 /\ Refill * (now - since) = 0
  BY BucketAssumption DEF Init
<1>3. Refilled = Capacity
  BY <1>2, BucketAssumption DEF Init, Refilled
<1>4. Token * granted = 0
  BY BucketAssumption DEF Init
<1> QED BY <1>1, <1>2, <1>3, <1>4, BucketAssumption DEF BucketInv

LEMMA BucketStep == BucketInv /\ [Next]_vars => BucketInv'
<1> SUFFICES ASSUME BucketInv, [Next]_vars PROVE BucketInv'
  OBVIOUS
<1>1. /\ TypeOK
      /\ Refilled \in 0..Capacity
      /\ Token \in Nat \ {0} /\ Capacity \in Nat \ {0} /\ Refill \in Nat
      /\ now \in Nat /\ granted \in Nat
      /\ since \in 0..now /\ last_grant \in 0..now
  BY RefilledType, BucketAssumption DEF BucketInv, TypeOK
<1>2. CASE Grant
  <2>1. Refilled - Token \in 0..Capacity
    BY <1>1, <1>2 DEF Grant
  <2>2. Refilled' = Refilled - Token
    BY <1>1, <1>2, <2>1, JustRefilled DEF Grant
  <2>3. TypeOK'
    BY <1>1, <1>2, <2>1 DEF Grant, TypeOK
  <2>4. Token * granted' = Token * granted + Token
    BY <1>1, <1>2 DEF Grant
  <2>5. Token * granted' + Refilled' <= Capacity + Refill * (now' - since')
    <3>1. /\ Token * granted \in Nat /\ Refill * (now - since) \in Nat
          /\ Refill * (now' - since') = Refill * (now - since)
      BY <1>1, <1>2 DEF Grant
    <3> HIDE DEF Refilled
    <3> QED BY <1>1, <2>2, <2>4, <3>1 DEF BucketInv
  <2>6. Refill * (now' - last_grant') = 0
    BY <1>1, <1>2 DEF Grant
  <2> QED BY <2>1, <2>2, <2>3, <2>5, <2>6 DEF BucketInv
<1>3. CASE Refuse
  <2>1. Refilled' = Refilled
    BY <1>1, <1>3, JustRefilled DEF Refuse
  <2>2. TypeOK'
    BY <1>1, <1>3 DEF Refuse, TypeOK
  <2> QED BY <1>3, <2>1, <2>2 DEF BucketInv, Refuse
<1>4. CASE Observe
  <2>1. Refilled' = Refilled
    BY <1>4 DEF Observe, Refilled
  <2>2. TypeOK'
    BY <1>1, <1>4 DEF Observe, TypeOK
  <2>3. Token * granted' = 0 /\ Refill * (now' - since') = 0
    BY <1>1, <1>4 DEF Observe
  <2>4. now' = now /\ last_grant' = last_grant
    BY <1>4 DEF Observe
  <2> QED BY <1>1, <2>1, <2>2, <2>3, <2>4 DEF BucketInv
<1>5. CASE Tick
  <2>1. /\ now' = now + 1 /\ tokens' = tokens /\ last_refill' = last_refill
        /\ since' = since /\ granted' = granted /\ last_grant' = last_grant
    BY <1>5 DEF Tick
  <2>2. TypeOK'
    BY <1>1, <2>1 DEF TypeOK
  <2>3. last_refill \in 0..now /\ tokens \in Nat
    BY <1>1 DEF TypeOK
  <2> DEFINE sum == tokens + Refill * (now - last_refill)
  <2>4. sum \in Nat
    BY RefilledType, <1>1
  <2>5. tokens' + Refill * (now' - last_refill') = sum + Refill
    BY <1>1, <2>1, <2>3, OneMore
  <2> HIDE DEF sum
  <2>6. /\ Refilled = IF sum <= Capacity THEN sum ELSE Capacity
        /\ Refilled' = IF sum + Refill <= Capacity THEN sum + Refill ELSE Capacity
    BY <2>5 DEF Refilled, sum
  <2>7. /\ Refilled' <= Refilled + Refill
        /\ Refilled' = Capacity \/ Refilled' = Refilled + Refill
    BY <1>1, <2>4, <2>6
  <2>8. /\ Refill * (now' - since') = Refill * (now - since) + Refill
        /\ Refill * (now' - last_grant') = Refill * (now - last_grant) + Refill
        /\ Refill * (now - since) \in Nat /\ Refill * (now - last_grant) \in Nat
    BY <1>1, <2>1, OneMore
  <2>9. Token * granted \in Nat
    BY <1>1
  <2>10. Refilled' \in 0..Capacity
    BY <1>1, <2>4, <2>6
  <2>11. Token * granted' + Refilled' <= Capacity + Refill * (now' - since')
    <3>1. Token * granted + Refilled <= Capacity + Refill * (now - since)
      BY DEF BucketInv
    <3>2. Token * granted' = Token * granted
      BY <2>1
    <3> QED BY <1>1, <2>7, <2>8, <2>9, <2>10, <3>1, <3>2
  <2>12. Refilled' = Capacity \/ Refilled' >= Refill * (now' - last_grant')
    <3>1. CASE Refilled = Capacity
      BY <1>1, <2>4, <2>6, <3>1
    <3>2. CASE Refilled >= Refill * (now - last_grant)
      BY <1>1, <2>7, <2>8, <2>10, <3>2
    <3> QED BY <3>1, <3>2 DEF BucketInv
  <2> QED BY <2>2, <2>11, <2>12 DEF BucketInv
<1>6. CASE UNCHANGED vars
  BY <1>6 DEF vars, BucketInv, TypeOK, Refilled
<1> QED BY <1>2, <1>3, <1>4, <1>5, <1>6 DEF Next, try_consume

LEMMA BucketInvariant == Spec => []BucketInv
BY BucketInit, BucketStep, PTL DEF Spec

\* The bucket never holds more than its capacity.
THEOREM BucketTypeCorrect == Spec => []TypeOK
<1>1. BucketInv => TypeOK
  BY DEF BucketInv
<1> QED BY <1>1, BucketInvariant, PTL

\* Over any interval the grants are bounded by the capacity and the refill.
THEOREM GrantsBoundedCorrect == Spec => []GrantsBounded
<1>1. BucketInv => GrantsBounded
  <2> SUFFICES ASSUME BucketInv PROVE GrantsBounded
    OBVIOUS
  <2>1. Refilled \in Nat
    BY RefilledType, BucketAssumption DEF BucketInv
  <2>2. /\ Token * granted \in Nat
        /\ Capacity + Refill * (now - since) \in Int
    BY BucketAssumption DEF BucketInv, TypeOK
  <2> HIDE DEF Refilled
  <2> QED BY <2>1, <2>2 DEF BucketInv, GrantsBounded
<1> QED BY <1>1, BucketInvariant, PTL

\* A caller that waits for the refill of a token is not refused.
THEOREM RefusedEarlyCorrect == Spec => []RefusedEarly
<1>1. BucketInv => RefusedEarly
  <2> SUFFICES ASSUME BucketInv, Capacity >= Token, Refilled < Token
               PROVE  Refill * (now - last_grant) < Token
    BY DEF RefusedEarly
  <2>1. Refilled \in Nat
    BY RefilledType, BucketAssumption DEF BucketInv
  <2>2. Refill * (now - last_grant) \in Int
    BY BucketAssumption DEF BucketInv, TypeOK
  <2> QED BY <2>1, <2>2, BucketAssumption DEF BucketInv
<1> QED BY <1>1, BucketInvariant, PTL

=============================================================================
