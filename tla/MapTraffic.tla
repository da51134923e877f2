------------------------------ MODULE MapTraffic ------------------------------
(***************************************************************************)
(* What lookups do to the rate-limit map, seen from outside of them: the   *)
(* abstract specification that FetchSecret implements, and that the other  *)
(* users of the map are composed with (Attempts).                          *)
(*                                                                         *)
(* A lookup is one step that counts a request and may reserve a candidate; *)
(* later, some step settles the reservation.  Requests, guards, permits,   *)
(* tasks and cancellations are gone: all that is left of them is that a    *)
(* request's stamp is at most RouteTimeout old.                            *)
(***************************************************************************)
EXTENDS RateLimitMap

CONSTANTS
    RouteTimeout,  \* TimeoutLayer of the router, in clock units
    MaxTime        \* bound of the clock

ASSUME TrafficAssumption == RouteTimeout \in Nat /\ MaxTime \in Nat

VARIABLES
    now,                   \* chrono::Utc::now()
    identifier_rate_limit  \* the map

mapVars == <<now, identifier_rate_limit>>

MapInit ==
    /\ now = 0
    /\ identifier_rate_limit = EmptyMap

\* the stamps that a live request may have
RecentStamps == {t \in 0..now : now <= t + RouteTimeout}

\* the admission of a request stamped t: refused when the map is full, counted
\* in any case else, and reserved if the candidate is new and in the budget
LookupAt(i, c, t) ==
    LET roomy   == MakeRoom(identifier_rate_limit, i, t)
        counted == CountRequest(roomy, i, t)
        entry   == counted[i]
        admits  == ~Saturated(entry) /\ entry.candidates[c] = "Absent"
    IN  identifier_rate_limit' =
            IF NoRoom(roomy, i) THEN roomy
            ELSE IF admits      THEN [counted EXCEPT ![i] = Reserve(@, c, t)]
            ELSE                     counted

Lookup(i, c) == \E t \in RecentStamps : LookupAt(i, c, t)

\* the end of a lookup that holds a reservation, one way or another
Settle(i, c) ==
    /\ identifier_rate_limit[i] # NoEntry
    /\ identifier_rate_limit[i].candidates[c] = "Pending"
    /\ \E result \in {"hit", "miss", "error"} :
          identifier_rate_limit' =
              finalize(identifier_rate_limit, i, c,
                       identifier_rate_limit[i].window_started_at, result)

\* the sweeper may wait for the map for ever with a stamp it took before
SweepMap ==
    \E t \in 0..now : identifier_rate_limit' = RetainActive(identifier_rate_limit, t)

Forget == identifier_rate_limit' = EmptyMap

MapStep ==
    \/ \E i \in Identifiers, c \in Candidates : Lookup(i, c) \/ Settle(i, c)
    \/ SweepMap
    \/ Forget

MapNext ==
    \/ MapStep /\ UNCHANGED now
    \/ now < MaxTime /\ now' = now + 1 /\ UNCHANGED identifier_rate_limit

MapSpec == MapInit /\ [][MapNext]_mapVars

=============================================================================
