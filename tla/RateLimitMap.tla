----------------------------- MODULE RateLimitMap -----------------------------
(***************************************************************************)
(* The in-memory rate-limit map of the server: AppState's                  *)
(* `identifier_rate_limit`, a HashMap from the hash of an identifier to a  *)
(* RateLimitInfo, and the updates the handlers make to it while they hold  *)
(* its mutex.  Everything here is a pure function of a map: the modules    *)
(* that own the map as a variable decide when each update happens.         *)
(*                                                                         *)
(* A HashMap is a function that is NoEntry, or "Absent", where the source  *)
(* has no key.  The candidate tag sha256(identifier + authentication_key)  *)
(* is the pair of its two inputs, which are of fixed length: an entry is   *)
(* found by the identifier and a candidate in it by the authentication     *)
(* key.  Stamps are natural numbers of an arbitrary unit.                  *)
(***************************************************************************)
EXTENDS Naturals, FiniteSets

CONSTANTS
    Identifiers,     \* identifiers (their hashes key the map)
    Candidates,      \* authentication keys tried against an identifier
    MaxAttempts,     \* state.rate_limit_max_attempts, a u8
    MaxIdentifiers,  \* state.rate_limit_max_identifiers
    Cooldown,        \* state.rate_limit_cooldown, in clock units
    CounterMax,      \* bound of total_requests: stands for u64::MAX
    NoEntry          \* HashMap::get found nothing

U8Max == 255

ASSUME MapAssumption ==
    /\ IsFiniteSet(Identifiers)
    /\ IsFiniteSet(Candidates)
    /\ MaxAttempts \in 1..U8Max
    /\ MaxIdentifiers \in Nat \ {0}
    /\ Cooldown \in Nat \ {0}
    /\ CounterMax \in Nat /\ CounterMax >= MaxAttempts

CandidateState == {"Absent", "Pending", "Committed"}

RateLimitInfo ==
    [window_started_at : Nat,
     last_candidate_at : Nat,
     last_request_at   : Nat,
     candidates        : [Candidates -> CandidateState],
     failed_candidates : Nat,
     total_requests    : Nat]

ASSUME NoEntryAssumption == NoEntry \notin RateLimitInfo

IdentifierMap == [Identifiers -> RateLimitInfo \cup {NoEntry}]

SaturatingInc(n, max) == IF n < max THEN n + 1 ELSE max

-----------------------------------------------------------------------------
(* RateLimitInfo *)

\* RateLimitInfo::new
NewWindow(t) ==
    [window_started_at |-> t,
     last_candidate_at |-> t,
     last_request_at   |-> t,
     candidates        |-> [c \in Candidates |-> "Absent"],
     failed_candidates |-> 0,
     total_requests    |-> 0]

CandidatesOf(info) == {c \in Candidates : info.candidates[c] # "Absent"}

candidate_count(info) == Cardinality(CandidatesOf(info))

\* mutant: one candidate too many
SaturatedLate(info) == candidate_count(info) > MaxAttempts

\* the check that precedes membership
Saturated(info) == candidate_count(info) >= MaxAttempts

\* mutant: a window has a fixed length
ExpiredSinceStart(info, t) == t > info.window_started_at + Cooldown

Expired(info, t) == t > info.last_candidate_at + Cooldown

WithCandidate(info, c, state) == [info EXCEPT !.candidates[c] = state]

\* an entry whose candidates are gone is removed with them, in one update
DropIfEmpty(info) == IF CandidatesOf(info) = {} THEN NoEntry ELSE info

-----------------------------------------------------------------------------
(* The map *)

EmptyMap == [i \in Identifiers |-> NoEntry]

Known(map) == {i \in Identifiers : map[i] # NoEntry}

\* the window that is open now is the one opened at generation
SameWindow(map, i, generation) ==
    /\ map[i] # NoEntry
    /\ map[i].window_started_at = generation

\* the candidate is pending in the very window that admitted it
HoldsReservation(map, i, c, generation) ==
    /\ SameWindow(map, i, generation)
    /\ map[i].candidates[c] = "Pending"

Release(info, c) ==
    IF info.candidates[c] = "Pending" THEN WithCandidate(info, c, "Absent")
                                      ELSE info

\* mutant: a pending candidate keeps its entry alive
RetainPending(map, t) ==
    [i \in Identifiers |->
        IF /\ map[i] # NoEntry
           /\ Expired(map[i], t)
           /\ \A c \in Candidates : map[i].candidates[c] # "Pending"
        THEN NoEntry ELSE map[i]]

\* HashMap::retain of the entries that have not expired at t
RetainActive(map, t) ==
    [i \in Identifiers |->
        IF map[i] # NoEntry /\ Expired(map[i], t) THEN NoEntry ELSE map[i]]

\* mutant: a late removal does not look at the generation
remove_pendingAnyWindow(map, i, c, generation) ==
    IF map[i] # NoEntry
    THEN [map EXCEPT ![i] = DropIfEmpty(Release(@, c))]
    ELSE map

remove_pending(map, i, c, generation) ==
    IF SameWindow(map, i, generation)
    THEN [map EXCEPT ![i] = DropIfEmpty(Release(@, c))]
    ELSE map

Commit(info, c) == WithCandidate(info, c, "Committed")

\* mutant: the failure is counted and the candidate forgotten
CommitMissReleased(info, c) ==
    [Release(info, c) EXCEPT !.failed_candidates = SaturatingInc(@, U8Max)]

CommitMiss(info, c) ==
    [Commit(info, c) EXCEPT !.failed_candidates = SaturatingInc(@, U8Max)]

\* mutant: only a failure is charged
finalizeHitRefunded(map, i, c, generation, result) ==
    IF HoldsReservation(map, i, c, generation)
    THEN [map EXCEPT ![i] = IF result = "miss" THEN CommitMiss(@, c)
                                               ELSE DropIfEmpty(Release(@, c))]
    ELSE map

finalize(map, i, c, generation, result) ==
    IF HoldsReservation(map, i, c, generation)
    THEN [map EXCEPT ![i] =
            CASE result = "hit"   -> Commit(@, c)
              [] result = "miss"  -> CommitMiss(@, c)
              [] result = "error" -> DropIfEmpty(Release(@, c))]
    ELSE map

-----------------------------------------------------------------------------
(* Admission of a request stamped t for identifier i, step by step *)

\* the identifier's own window is dropped when it has expired
ExpireOwn(map, i, t) ==
    IF map[i] # NoEntry /\ Expired(map[i], t)
    THEN [map EXCEPT ![i] = NoEntry]
    ELSE map

\* mutant: one identifier too many
NoRoomLate(map, i) == map[i] = NoEntry /\ Cardinality(Known(map)) > MaxIdentifiers

NoRoom(map, i) == map[i] = NoEntry /\ Cardinality(Known(map)) >= MaxIdentifiers

\* mutant: the identifier that was asked for least recently makes room
MakeRoomEvicts(map, i, t) ==
    LET own    == ExpireOwn(map, i, t)
        oldest == {j \in Known(own) : \A k \in Known(own) :
                      own[j].last_request_at <= own[k].last_request_at}
    IN  IF NoRoom(own, i)
        THEN [j \in Identifiers |-> IF j \in oldest THEN NoEntry ELSE own[j]]
        ELSE own

\* then, for a new identifier in a full map, every expired window is
MakeRoom(map, i, t) ==
    LET own == ExpireOwn(map, i, t)
    IN  IF NoRoom(own, i) THEN RetainActive(own, t) ELSE own

\* mutant: any request postpones the reset
CountRequestSlides(map, i, t) ==
    LET info == IF map[i] = NoEntry THEN NewWindow(t) ELSE map[i]
    IN  [map EXCEPT ![i] = [info EXCEPT
            !.total_requests    = SaturatingInc(@, CounterMax),
            !.last_candidate_at = t,
            !.last_request_at   = t]]

\* the entry is created if needed, and the request is counted in it
CountRequest(map, i, t) ==
    LET info == IF map[i] = NoEntry THEN NewWindow(t) ELSE map[i]
    IN  [map EXCEPT ![i] = [info EXCEPT
            !.total_requests  = SaturatingInc(@, CounterMax),
            !.last_request_at = t]]

Reserve(info, c, t) ==
    [WithCandidate(info, c, "Pending") EXCEPT !.last_candidate_at = t]

=============================================================================
