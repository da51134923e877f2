-------------------------- MODULE RateLimitMapProofs --------------------------
(***************************************************************************)
(* What the updates of the rate-limit map preserve, for every value of the *)
(* constants, and then what its traffic does (MapTraffic), for everybody   *)
(* who is composed with it: an entry keeps its window, or lapses after its *)
(* cooldown, or goes with the only reservation it held; the map stays      *)
(* within its limits; its counters add up.                                 *)
(***************************************************************************)
EXTENDS MapTraffic, FiniteSetTheorems, TLAPS

Results == {"hit", "miss", "error"}

-----------------------------------------------------------------------------
(* Types *)

\* RateLimitInfo::new is well-formed and has no candidate.
LEMMA NewWindowType ==
    ASSUME NEW t \in Nat
    PROVE  /\ NewWindow(t) \in RateLimitInfo
           /\ CandidatesOf(NewWindow(t)) = {}
BY DEF NewWindow, RateLimitInfo, CandidateState, CandidatesOf

\* Changing the state of one candidate changes nothing else in the entry.
LEMMA WithCandidateType ==
    ASSUME NEW info \in RateLimitInfo, NEW c \in Candidates,
           NEW state \in CandidateState
    PROVE  /\ WithCandidate(info, c, state) \in RateLimitInfo
           /\ WithCandidate(info, c, state).candidates =
                [info.candidates EXCEPT ![c] = state]
           /\ WithCandidate(info, c, state).window_started_at =
                info.window_started_at
           /\ WithCandidate(info, c, state).last_candidate_at =
                info.last_candidate_at
BY DEF WithCandidate, RateLimitInfo, CandidateState

\* The entry changed at most in the state of candidate c and its counters.
KeepsBut(old, new, c) ==
    /\ new \in RateLimitInfo
    /\ new.window_started_at = old.window_started_at
    /\ new.last_candidate_at = old.last_candidate_at
    /\ \A d \in Candidates \ {c} : new.candidates[d] = old.candidates[d]

\* Releasing a pending candidate removes it and touches nothing else.
LEMMA ReleaseType ==
    ASSUME NEW info \in RateLimitInfo, NEW c \in Candidates,
           info.candidates[c] = "Pending"
    PROVE  /\ KeepsBut(info, Release(info, c), c)
           /\ Release(info, c).candidates[c] = "Absent"
<1> DEFINE new == Release(info, c)
<1>1. /\ new \in RateLimitInfo
      /\ new.candidates = [info.candidates EXCEPT ![c] = "Absent"]
      /\ new.window_started_at = info.window_started_at
      /\ new.last_candidate_at = info.last_candidate_at
  BY WithCandidateType DEF Release, CandidateState
<1>2. info.candidates \in [Candidates -> CandidateState]
  BY DEF RateLimitInfo
<1> HIDE DEF new
<1>3. KeepsBut(info, new, c) /\ new.candidates[c] = "Absent"
  BY <1>1, <1>2 DEF KeepsBut
<1> QED BY <1>3 DEF new

\* A commit, of a hit or of a miss, makes the candidate committed and touches
\* no other candidate and no stamp.
LEMMA CommitType ==
    ASSUME NEW info \in RateLimitInfo, NEW c \in Candidates,
           NEW new \in {Commit(info, c), CommitMiss(info, c)}
    PROVE  /\ KeepsBut(info, new, c)
           /\ new.candidates[c] = "Committed"
<1> DEFINE com == Commit(info, c)
<1>1. KeepsBut(info, com, c) /\ com.candidates[c] = "Committed"
  <2>1. /\ com \in RateLimitInfo
        /\ com.candidates = [info.candidates EXCEPT ![c] = "Committed"]
        /\ com.window_started_at = info.window_started_at
        /\ com.last_candidate_at = info.last_candidate_at
    BY WithCandidateType DEF Commit, CandidateState
  <2>2. info.candidates \in [Candidates -> CandidateState]
    BY DEF RateLimitInfo
  <2> HIDE DEF com
  <2> QED BY <2>1, <2>2 DEF KeepsBut
<1>2. CASE new = CommitMiss(info, c)
  <2>1. new = [com EXCEPT !.failed_candidates =
                            SaturatingInc(com.failed_candidates, U8Max)]
    BY <1>1, <1>2 DEF CommitMiss, KeepsBut, RateLimitInfo
  <2>2. SaturatingInc(com.failed_candidates, U8Max) \in Nat
    BY <1>1 DEF SaturatingInc, U8Max, KeepsBut, RateLimitInfo
  <2>3. com \in RateLimitInfo
    BY <1>1 DEF KeepsBut
  <2> HIDE DEF com
  <2>4. /\ new \in RateLimitInfo
        /\ new.candidates = com.candidates
        /\ new.window_started_at = com.window_started_at
        /\ new.last_candidate_at = com.last_candidate_at
    BY <2>1, <2>2, <2>3 DEF RateLimitInfo
  <2> QED BY <1>1, <2>4 DEF KeepsBut
<1> QED BY <1>1, <1>2

\* An entry is dropped exactly when it has no candidate.
LEMMA DropIfEmptyType ==
    ASSUME NEW info \in RateLimitInfo
    PROVE  /\ DropIfEmpty(info) \in RateLimitInfo \cup {NoEntry}
           /\ DropIfEmpty(info) # NoEntry =>
                 /\ DropIfEmpty(info) = info
                 /\ CandidatesOf(info) # {}
           /\ CandidatesOf(info) # {} => DropIfEmpty(info) = info
BY NoEntryAssumption DEF DropIfEmpty

-----------------------------------------------------------------------------
(* Updates of the map *)

\* An entry after its pending candidate c has been released or committed.
Settles(old, new, c) ==
    \/ /\ new = NoEntry
       /\ \A d \in Candidates \ {c} : old.candidates[d] = "Absent"
    \/ /\ new \in RateLimitInfo
       /\ new.window_started_at = old.window_started_at
       /\ new.last_candidate_at = old.last_candidate_at
       /\ new.candidates[c] # "Pending"
       /\ \A d \in Candidates \ {c} : new.candidates[d] = old.candidates[d]
       /\ CandidatesOf(new) # {}
       /\ CandidatesOf(new) \subseteq CandidatesOf(old)

\* The map after the reservation of c in window g of i has been settled.
SettlesIn(map, new, i, c, g) ==
    /\ new \in IdentifierMap
    /\ \A j \in Identifiers \ {i} : new[j] = map[j]
    /\ ~SameWindow(map, i, g) => new = map
    /\ SameWindow(map, i, g) => Settles(map[i], new[i], c)

\* The map after expired entries, and only such entries, have been dropped.
ExpiresAt(map, new, t) ==
    /\ new \in IdentifierMap
    /\ \A i \in Identifiers :
          \/ new[i] = map[i]
          \/ new[i] = NoEntry /\ map[i] # NoEntry /\ Expired(map[i], t)

\* Releasing a pending candidate, and its entry with the last one, settles it.
LEMMA DropSettles ==
    ASSUME NEW info \in RateLimitInfo, NEW c \in Candidates,
           info.candidates[c] = "Pending"
    PROVE  /\ DropIfEmpty(Release(info, c)) \in RateLimitInfo \cup {NoEntry}
           /\ Settles(info, DropIfEmpty(Release(info, c)), c)
<1> DEFINE new == Release(info, c)
<1>1. KeepsBut(info, new, c) /\ new.candidates[c] = "Absent"
  BY ReleaseType
<1> HIDE DEF new
<1>2. CASE CandidatesOf(new) = {}
  <2>1. \A d \in Candidates : new.candidates[d] = "Absent"
    BY <1>2 DEF CandidatesOf
  <2>2. \A d \in Candidates \ {c} : info.candidates[d] = "Absent"
    BY <1>1, <2>1 DEF KeepsBut
  <2>3. DropIfEmpty(new) = NoEntry
    BY <1>2 DEF DropIfEmpty
  <2> QED BY <2>2, <2>3 DEF Settles, new
<1>3. CASE CandidatesOf(new) # {}
  <2>1. DropIfEmpty(new) = new
    BY <1>3 DEF DropIfEmpty
  <2>2. CandidatesOf(new) \subseteq CandidatesOf(info)
    BY <1>1 DEF KeepsBut, CandidatesOf
  <2>3. Settles(info, new, c)
    BY <1>1, <1>3, <2>2 DEF Settles, KeepsBut
  <2> QED BY <1>1, <2>1, <2>3 DEF KeepsBut, new
<1> QED BY <1>2, <1>3 DEF new

\* Committing a pending candidate settles it.
LEMMA CommitSettles ==
    ASSUME NEW info \in RateLimitInfo, NEW c \in Candidates,
           info.candidates[c] = "Pending",
           NEW new \in {Commit(info, c), CommitMiss(info, c)}
    PROVE  new \in RateLimitInfo /\ Settles(info, new, c)
<1>1. KeepsBut(info, new, c) /\ new.candidates[c] = "Committed"
  BY CommitType
<1> QED BY <1>1 DEF KeepsBut, Settles, CandidatesOf

\* remove_pending settles the reservation it is called for, if it is held.
LEMMA RemovePendingSettles ==
    ASSUME NEW map \in IdentifierMap, NEW i \in Identifiers,
           NEW c \in Candidates, NEW g \in Nat,
           SameWindow(map, i, g) => map[i].candidates[c] = "Pending"
    PROVE  SettlesIn(map, remove_pending(map, i, c, g), i, c, g)
<1>1. CASE ~SameWindow(map, i, g)
  BY <1>1 DEF remove_pending, SettlesIn
<1>2. CASE SameWindow(map, i, g)
  <2>1. map[i] \in RateLimitInfo
    BY <1>2 DEF SameWindow, IdentifierMap
  <2> DEFINE e == DropIfEmpty(Release(map[i], c))
  <2>2. e \in RateLimitInfo \cup {NoEntry} /\ Settles(map[i], e, c)
    BY <1>2, <2>1, DropSettles
  <2>3. remove_pending(map, i, c, g) = [map EXCEPT ![i] = e]
    BY <1>2 DEF remove_pending
  <2> HIDE DEF e
  <2> QED BY <1>2, <2>2, <2>3 DEF SettlesIn, IdentifierMap
<1> QED BY <1>1, <1>2

\* finalize settles the reservation it is called for, if it is held.
LEMMA FinalizeSettles ==
    ASSUME NEW map \in IdentifierMap, NEW i \in Identifiers,
           NEW c \in Candidates, NEW g \in Nat, NEW result \in Results,
           SameWindow(map, i, g) => map[i].candidates[c] = "Pending"
    PROVE  SettlesIn(map, finalize(map, i, c, g, result), i, c, g)
<1>1. CASE ~SameWindow(map, i, g)
  BY <1>1 DEF finalize, HoldsReservation, SettlesIn
<1>2. CASE SameWindow(map, i, g)
  <2>1. map[i] \in RateLimitInfo /\ HoldsReservation(map, i, c, g)
    BY <1>2 DEF SameWindow, IdentifierMap, HoldsReservation
  <2> DEFINE e == CASE result = "hit"   -> Commit(map[i], c)
                    [] result = "miss"  -> CommitMiss(map[i], c)
                    [] result = "error" -> DropIfEmpty(Release(map[i], c))
  <2>2. finalize(map, i, c, g, result) = [map EXCEPT ![i] = e]
    BY <2>1 DEF finalize
  <2>3. e \in RateLimitInfo \cup {NoEntry} /\ Settles(map[i], e, c)
    <3>1. CASE result = "hit"
      <4>1. e = Commit(map[i], c) BY <3>1
      <4> HIDE DEF e
      <4> QED BY <1>2, <2>1, <4>1, CommitSettles DEF HoldsReservation
    <3>2. CASE result = "miss"
      <4>1. e = CommitMiss(map[i], c) BY <3>2
      <4> HIDE DEF e
      <4> QED BY <1>2, <2>1, <4>1, CommitSettles DEF HoldsReservation
    <3>3. CASE result = "error"
      <4>1. e = DropIfEmpty(Release(map[i], c)) BY <3>3
      <4> HIDE DEF e
      <4> QED BY <1>2, <2>1, <4>1, DropSettles DEF HoldsReservation
    <3> QED BY <3>1, <3>2, <3>3 DEF Results
  <2> HIDE DEF e
  <2> QED BY <1>2, <2>2, <2>3 DEF SettlesIn, IdentifierMap
<1> QED BY <1>1, <1>2

\* Releasing a candidate, pending or not, leaves an entry or none.
LEMMA DropReleaseType ==
    ASSUME NEW info \in RateLimitInfo, NEW c \in Candidates
    PROVE  DropIfEmpty(Release(info, c)) \in RateLimitInfo \cup {NoEntry}
<1>1. CASE info.candidates[c] = "Pending"
  BY <1>1, DropSettles
<1>2. CASE info.candidates[c] # "Pending"
  BY <1>2, DropIfEmptyType DEF Release
<1> QED BY <1>1, <1>2

\* remove_pending gives a map, whoever calls it and whenever.
LEMMA RemovePendingMap ==
    ASSUME NEW map \in IdentifierMap, NEW i \in Identifiers,
           NEW c \in Candidates, NEW g \in Nat
    PROVE  remove_pending(map, i, c, g) \in IdentifierMap
<1> DEFINE e == DropIfEmpty(Release(map[i], c))
<1>1. CASE SameWindow(map, i, g)
  <2>1. map[i] \in RateLimitInfo
    BY <1>1 DEF SameWindow, IdentifierMap
  <2>2. e \in RateLimitInfo \cup {NoEntry}
    BY <2>1, DropReleaseType
  <2>3. remove_pending(map, i, c, g) = [map EXCEPT ![i] = e]
    BY <1>1 DEF remove_pending
  <2> HIDE DEF e
  <2> QED BY <2>2, <2>3 DEF IdentifierMap
<1>2. CASE ~SameWindow(map, i, g)
  BY <1>2 DEF remove_pending
<1> QED BY <1>1, <1>2

\* finalize gives a map, whoever calls it and whenever.
LEMMA FinalizeMap ==
    ASSUME NEW map \in IdentifierMap, NEW i \in Identifiers,
           NEW c \in Candidates, NEW g \in Nat, NEW result \in Results
    PROVE  finalize(map, i, c, g, result) \in IdentifierMap
<1>1. CASE HoldsReservation(map, i, c, g)
  BY <1>1, FinalizeSettles DEF HoldsReservation, SettlesIn
<1>2. CASE ~HoldsReservation(map, i, c, g)
  BY <1>2 DEF finalize
<1> QED BY <1>1, <1>2

\* Dropping every expired entry drops expired entries only.
LEMMA RetainActiveExpires ==
    ASSUME NEW map \in IdentifierMap, NEW t \in Nat
    PROVE  ExpiresAt(map, RetainActive(map, t), t)
BY DEF ExpiresAt, RetainActive, IdentifierMap

\* Making room for an identifier drops expired entries only.
LEMMA MakeRoomExpires ==
    ASSUME NEW map \in IdentifierMap, NEW i \in Identifiers, NEW t \in Nat
    PROVE  ExpiresAt(map, MakeRoom(map, i, t), t)
<1> DEFINE own == ExpireOwn(map, i, t)
<1>1. ExpiresAt(map, own, t)
  BY DEF ExpiresAt, ExpireOwn, IdentifierMap
<1>2. own \in IdentifierMap
  BY <1>1 DEF ExpiresAt
<1>3. ExpiresAt(own, RetainActive(own, t), t)
  BY <1>2, RetainActiveExpires
<1>4. MakeRoom(map, i, t) = IF NoRoom(own, i) THEN RetainActive(own, t) ELSE own
  BY DEF MakeRoom
<1> HIDE DEF own
<1> QED BY <1>1, <1>3, <1>4 DEF ExpiresAt

\* Counting a request creates the entry if needed, and moves no window.
LEMMA CountRequestKeeps ==
    ASSUME NEW map \in IdentifierMap, NEW i \in Identifiers, NEW t \in Nat,
           NEW new, new = CountRequest(map, i, t)
    PROVE  /\ new \in IdentifierMap
           /\ new[i] \in RateLimitInfo
           /\ \A j \in Identifiers \ {i} : new[j] = map[j]
           /\ map[i] # NoEntry =>
                 /\ new[i].window_started_at = map[i].window_started_at
                 /\ new[i].last_candidate_at = map[i].last_candidate_at
                 /\ new[i].candidates = map[i].candidates
           /\ map[i] = NoEntry =>
                 /\ new[i].window_started_at = t
                 /\ new[i].last_candidate_at = t
                 /\ CandidatesOf(new[i]) = {}
<1> DEFINE info == IF map[i] = NoEntry THEN NewWindow(t) ELSE map[i]
           e == [info EXCEPT
                    !.total_requests  = SaturatingInc(@, CounterMax),
                    !.last_request_at = t]
<1>1. info \in RateLimitInfo
  BY NewWindowType DEF IdentifierMap
<1>2. SaturatingInc(info.total_requests, CounterMax) \in Nat
  BY <1>1, MapAssumption DEF SaturatingInc, RateLimitInfo
<1>3. /\ e \in RateLimitInfo
      /\ e.window_started_at = info.window_started_at
      /\ e.last_candidate_at = info.last_candidate_at
      /\ e.candidates = info.candidates
  <2> HIDE DEF info
  <2> QED BY <1>1, <1>2 DEF RateLimitInfo
<1>4. new = [map EXCEPT ![i] = e]
  BY DEF CountRequest
<1>5. map[i] = NoEntry => /\ info.window_started_at = t
                          /\ info.last_candidate_at = t
                          /\ CandidatesOf(info) = {}
  BY NewWindowType DEF NewWindow
<1>6. map[i] # NoEntry => info = map[i]
  OBVIOUS
<1> HIDE DEF info, e
<1> QED BY <1>3, <1>4, <1>5, <1>6 DEF IdentifierMap, CandidatesOf

\* A reservation makes its candidate pending and stamps the window.
LEMMA ReserveType ==
    ASSUME NEW info \in RateLimitInfo, NEW c \in Candidates, NEW t \in Nat
    PROVE  /\ Reserve(info, c, t) \in RateLimitInfo
           /\ Reserve(info, c, t).window_started_at = info.window_started_at
           /\ Reserve(info, c, t).last_candidate_at = t
           /\ Reserve(info, c, t).candidates =
                 [info.candidates EXCEPT ![c] = "Pending"]
<1> DEFINE new == WithCandidate(info, c, "Pending")
<1>1. /\ new \in RateLimitInfo
      /\ new.window_started_at = info.window_started_at
      /\ new.candidates = [info.candidates EXCEPT ![c] = "Pending"]
  BY WithCandidateType DEF CandidateState
<1>2. Reserve(info, c, t) = [new EXCEPT !.last_candidate_at = t]
  BY DEF Reserve
<1> HIDE DEF new
<1> QED BY <1>1, <1>2 DEF RateLimitInfo

-----------------------------------------------------------------------------
(* Counters *)

CommittedOf(info) == {c \in Candidates : info.candidates[c] = "Committed"}

\* What an entry counts: neither counter is beyond its maximum, and every
\* failure is one of a committed candidate.
Counts(info) ==
    /\ info.total_requests <= CounterMax
    /\ info.failed_candidates <= U8Max
    /\ info.failed_candidates <= Cardinality(CommittedOf(info))

\* The committed candidates of an entry can be counted.
LEMMA CommittedCountable ==
    ASSUME NEW info
    PROVE  /\ IsFiniteSet(CommittedOf(info))
           /\ Cardinality(CommittedOf(info)) \in Nat
<1>1. CommittedOf(info) \in SUBSET Candidates
  BY DEF CommittedOf
<1> QED BY <1>1, FS_Subset, FS_CardinalityType, MapAssumption

\* A saturating counter does not go back, and does not go beyond its maximum.
LEMMA SaturatingIncKeeps ==
    ASSUME NEW max \in Nat, NEW n \in Nat, n <= max
    PROVE  /\ SaturatingInc(n, max) \in Nat
           /\ SaturatingInc(n, max) \in n .. (n + 1)
           /\ SaturatingInc(n, max) <= max
BY DEF SaturatingInc

\* A request that is counted leaves the failures alone.
LEMMA CountRequestCounts ==
    ASSUME NEW map \in IdentifierMap, NEW i \in Identifiers, NEW t \in Nat,
           map[i] # NoEntry => Counts(map[i]),
           NEW new, new = CountRequest(map, i, t)
    PROVE  /\ Counts(new[i])
           /\ map[i] # NoEntry =>
                 /\ new[i].failed_candidates = map[i].failed_candidates
                 /\ new[i].total_requests >= map[i].total_requests
<1> DEFINE info == IF map[i] = NoEntry THEN NewWindow(t) ELSE map[i]
           n == SaturatingInc(info.total_requests, CounterMax)
           e == [info EXCEPT !.total_requests = n, !.last_request_at = t]
<1>1. info \in RateLimitInfo
  BY NewWindowType DEF IdentifierMap
<1>2. Counts(info)
  <2>1. Counts(NewWindow(t))
    <3>1. NewWindow(t).total_requests = 0 /\ NewWindow(t).failed_candidates = 0
      BY DEF NewWindow
    <3> QED BY <3>1, CommittedCountable, MapAssumption DEF Counts, U8Max
  <2> QED BY <2>1
<1>3. n \in Nat /\ n >= info.total_requests /\ n <= CounterMax
  <2> HIDE DEF info
  <2> QED BY <1>1, <1>2, SaturatingIncKeeps, MapAssumption DEF RateLimitInfo, Counts
<1>4. new[i] = e
  BY DEF CountRequest, IdentifierMap
<1>5. map[i] # NoEntry => info = map[i]
  OBVIOUS
<1> HIDE DEF info, n
<1>6. /\ e.total_requests = n
      /\ e.failed_candidates = info.failed_candidates
      /\ e.candidates = info.candidates
  BY <1>1 DEF RateLimitInfo
<1> HIDE DEF e
<1>7. Counts(e)
  BY <1>2, <1>3, <1>6 DEF Counts, CommittedOf
<1> QED BY <1>3, <1>4, <1>5, <1>6, <1>7

\* A reservation is neither a failure nor another request.
LEMMA ReserveCounts ==
    ASSUME NEW info \in RateLimitInfo, NEW c \in Candidates, NEW t \in Nat,
           Counts(info), info.candidates[c] = "Absent",
           NEW new, new = Reserve(info, c, t)
    PROVE  /\ Counts(new)
           /\ new.failed_candidates = info.failed_candidates
           /\ new.total_requests = info.total_requests
<1>1. /\ new.failed_candidates = info.failed_candidates
      /\ new.total_requests = info.total_requests
  BY DEF Reserve, WithCandidate, RateLimitInfo
<1>2. new.candidates = [info.candidates EXCEPT ![c] = "Pending"]
  BY ReserveType
<1>3. info.candidates \in [Candidates -> CandidateState]
  BY DEF RateLimitInfo
<1>4. CommittedOf(new) = CommittedOf(info)
  BY <1>2, <1>3 DEF CommittedOf
<1> QED BY <1>1, <1>4 DEF Counts

\* Neither is a reservation that is released.
LEMMA ReleaseCounts ==
    ASSUME NEW info \in RateLimitInfo, NEW c \in Candidates,
           Counts(info), info.candidates[c] = "Pending",
           NEW new, new = Release(info, c)
    PROVE  /\ Counts(new)
           /\ new.failed_candidates = info.failed_candidates
           /\ new.total_requests = info.total_requests
<1>1. /\ new.failed_candidates = info.failed_candidates
      /\ new.total_requests = info.total_requests
  BY DEF Release, WithCandidate, RateLimitInfo
<1>2. /\ new.candidates[c] = "Absent"
      /\ \A d \in Candidates \ {c} : new.candidates[d] = info.candidates[d]
  BY ReleaseType DEF KeepsBut
<1>3. CommittedOf(new) = CommittedOf(info)
  BY <1>2 DEF CommittedOf
<1> QED BY <1>1, <1>3 DEF Counts

\* A commit adds a committed candidate, and a failure at most.
LEMMA CommitCounts ==
    ASSUME NEW info \in RateLimitInfo, NEW c \in Candidates,
           Counts(info), info.candidates[c] = "Pending",
           NEW new \in {Commit(info, c), CommitMiss(info, c)}
    PROVE  /\ Counts(new)
           /\ new.failed_candidates >= info.failed_candidates
           /\ new.total_requests = info.total_requests
<1> DEFINE n == SaturatingInc(info.failed_candidates, U8Max)
           k == Cardinality(CommittedOf(info))
<1>1. /\ info.failed_candidates \in Nat /\ info.total_requests \in Nat
      /\ U8Max \in Nat /\ k \in Nat
  BY CommittedCountable DEF RateLimitInfo, U8Max
<1>2. n \in info.failed_candidates .. (info.failed_candidates + 1) /\ n <= U8Max
  BY <1>1, SaturatingIncKeeps DEF Counts
<1>3. /\ new.failed_candidates \in {info.failed_candidates, n}
      /\ new.total_requests = info.total_requests
  <2>1. CASE new = Commit(info, c)
    BY <2>1 DEF Commit, WithCandidate, RateLimitInfo
  <2>2. CASE new = CommitMiss(info, c)
    BY <2>2 DEF CommitMiss, Commit, WithCandidate, RateLimitInfo
  <2> QED BY <2>1, <2>2
<1>4. /\ new.candidates[c] = "Committed"
      /\ \A d \in Candidates \ {c} : new.candidates[d] = info.candidates[d]
  BY CommitType DEF KeepsBut
<1>5. CommittedOf(new) = CommittedOf(info) \cup {c} /\ c \notin CommittedOf(info)
  BY <1>4 DEF CommittedOf
<1>6. Cardinality(CommittedOf(new)) = k + 1
  BY <1>5, CommittedCountable, FS_AddElement
<1> HIDE DEF n, k
<1>7. info.failed_candidates <= k /\ info.total_requests <= CounterMax
      /\ info.failed_candidates <= U8Max
  BY DEF Counts, k
<1> QED BY <1>1, <1>2, <1>3, <1>6, <1>7 DEF Counts

-----------------------------------------------------------------------------
(* What traffic (MapTraffic) does to an entry *)

MapTyping ==
    /\ now \in Nat
    /\ identifier_rate_limit \in IdentifierMap

MapCounts == \A i \in Known(identifier_rate_limit) : Counts(identifier_rate_limit[i])

\* The entry stays open: no charge is taken back, no counter goes back, and only
\* a new candidate, with a recent stamp, moves its reset.
Keeps(old, new) ==
    /\ new \in RateLimitInfo
    /\ new.window_started_at = old.window_started_at
    /\ new.failed_candidates >= old.failed_candidates
    /\ new.total_requests >= old.total_requests
    /\ \A c \in Candidates :
          old.candidates[c] = "Committed" => new.candidates[c] = "Committed"
    /\ \/ new.last_candidate_at = old.last_candidate_at
       \/ /\ new.last_candidate_at \in RecentStamps
          /\ \E c \in Candidates :
                old.candidates[c] = "Absent" /\ new.candidates[c] = "Pending"

\* There is no entry, or the entry of a window that has just been opened.
Reopened(new) == new = NoEntry \/ new.window_started_at \in RecentStamps

\* The entry has expired; if there is another one, its window is a later one.
Lapses(old, new) == now > old.last_candidate_at + Cooldown /\ Reopened(new)

Advances(old, new) ==
    IF old = NoEntry THEN Reopened(new) ELSE Keeps(old, new) \/ Lapses(old, new)

\* The entry goes with its only candidate, which was pending.
Empties(old, new) ==
    /\ new = NoEntry
    /\ \E c \in Candidates :
          /\ old.candidates[c] = "Pending"
          /\ \A d \in Candidates \ {c} : old.candidates[d] = "Absent"

Moves(old, new) == Advances(old, new) \/ (old # NoEntry /\ Empties(old, new))

\* The entries of a well-typed map are well-typed.
LEMMA EntryType ==
    ASSUME NEW map \in IdentifierMap, NEW i \in Identifiers, map[i] # NoEntry
    PROVE  /\ map[i] \in RateLimitInfo
           /\ map[i].window_started_at \in Nat
           /\ map[i].last_candidate_at \in Nat
           /\ map[i].candidates \in [Candidates -> CandidateState]
BY DEF IdentifierMap, RateLimitInfo

\* An entry that is left alone advances.
LEMMA AdvancesItself ==
    ASSUME NEW info \in RateLimitInfo \cup {NoEntry}
    PROVE  Advances(info, info)
BY DEF Advances, Reopened, Keeps, RateLimitInfo

\* Expired entries are beyond their cooldown, since the clock is not behind the
\* stamp they are measured with.
LEMMA ExpiryMoves ==
    ASSUME MapTyping, NEW t \in 0..now, NEW new,
           ExpiresAt(identifier_rate_limit, new, t),
           NEW i \in Identifiers
    PROVE  \/ new[i] = identifier_rate_limit[i]
           \/ /\ new[i] = NoEntry /\ identifier_rate_limit[i] # NoEntry
              /\ now > identifier_rate_limit[i].last_candidate_at + Cooldown
<1>1. CASE new[i] = identifier_rate_limit[i]
  BY <1>1
<1>2. CASE new[i] # identifier_rate_limit[i]
  <2>1. /\ new[i] = NoEntry /\ identifier_rate_limit[i] # NoEntry
        /\ t > identifier_rate_limit[i].last_candidate_at + Cooldown
    BY <1>2 DEF ExpiresAt, Expired
  <2>2. identifier_rate_limit[i].last_candidate_at \in Nat
    BY <2>1, EntryType DEF MapTyping
  <2> QED BY <2>1, <2>2, MapAssumption DEF MapTyping
<1> QED BY <1>1, <1>2

\* The entry of the identifier that is looked up, once it is counted and perhaps
\* has a new candidate: the old window goes on, or a new one has been opened.
LEMMA OwnEntryMoves ==
    ASSUME NEW roomy \in IdentifierMap, NEW i \in Identifiers,
           NEW c \in Candidates, NEW t \in RecentStamps, now \in Nat,
           roomy[i] # NoEntry => Counts(roomy[i]),
           NEW entry, entry = CountRequest(roomy, i, t)[i],
           NEW new,
           \/ new = entry
           \/ entry.candidates[c] = "Absent" /\ new = Reserve(entry, c, t)
    PROVE  /\ new \in RateLimitInfo /\ Counts(new)
           /\ roomy[i] # NoEntry => Keeps(roomy[i], new)
           /\ roomy[i] = NoEntry => new.window_started_at = t
<1>1. t \in Nat
  BY DEF RecentStamps
<1>2. /\ entry \in RateLimitInfo
      /\ roomy[i] # NoEntry =>
            /\ entry.window_started_at = roomy[i].window_started_at
            /\ entry.last_candidate_at = roomy[i].last_candidate_at
            /\ entry.candidates = roomy[i].candidates
      /\ roomy[i] = NoEntry => entry.window_started_at = t
  BY <1>1, CountRequestKeeps
<1>3. /\ Counts(entry)
      /\ roomy[i] # NoEntry =>
            /\ entry.failed_candidates = roomy[i].failed_candidates
            /\ entry.total_requests >= roomy[i].total_requests
  BY <1>1, CountRequestCounts
<1>4. /\ entry.failed_candidates \in Nat
      /\ entry.candidates \in [Candidates -> CandidateState]
  BY <1>2 DEF RateLimitInfo
<1>5. CASE new = entry
  BY <1>2, <1>3, <1>4, <1>5 DEF Keeps
<1>6. CASE entry.candidates[c] = "Absent" /\ new = Reserve(entry, c, t)
  <2>1. /\ new \in RateLimitInfo
        /\ new.window_started_at = entry.window_started_at
        /\ new.last_candidate_at = t
        /\ new.candidates = [entry.candidates EXCEPT ![c] = "Pending"]
    BY <1>1, <1>2, <1>6, ReserveType
  <2>2. /\ Counts(new)
        /\ new.failed_candidates = entry.failed_candidates
        /\ new.total_requests = entry.total_requests
    BY <1>1, <1>2, <1>3, <1>6, ReserveCounts
  <2>3. roomy[i] # NoEntry =>
           /\ roomy[i].candidates[c] = "Absent" /\ new.candidates[c] = "Pending"
           /\ \A d \in Candidates : roomy[i].candidates[d] = "Committed" =>
                 new.candidates[d] = "Committed"
    BY <1>2, <1>4, <1>6, <2>1
  <2>4. roomy[i] # NoEntry => Keeps(roomy[i], new)
    BY <1>2, <1>3, <1>4, <2>1, <2>2, <2>3 DEF Keeps
  <2> QED BY <1>2, <2>1, <2>2, <2>4
<1> QED BY <1>5, <1>6

\* A lookup keeps every entry or finds that it has expired.
LEMMA LookupMoves ==
    ASSUME MapTyping, MapCounts, NEW i \in Identifiers, NEW c \in Candidates,
           Lookup(i, c)
    PROVE  /\ MapCounts'
           /\ \A j \in Identifiers :
                 Advances(identifier_rate_limit[j], identifier_rate_limit'[j])
<1>1. PICK t \in RecentStamps : LookupAt(i, c, t)
  BY DEF Lookup
<1> DEFINE map   == identifier_rate_limit
           roomy == MakeRoom(map, i, t)
           counted == CountRequest(roomy, i, t)
           new == identifier_rate_limit'
<1>2. t \in 0..now /\ t \in Nat /\ map \in IdentifierMap /\ now \in Nat
  BY DEF RecentStamps, MapTyping
<1>3. ExpiresAt(map, roomy, t) /\ roomy \in IdentifierMap
  BY <1>2, MakeRoomExpires DEF ExpiresAt
<1>4. \A j \in Identifiers :
         \/ roomy[j] = map[j]
         \/ /\ roomy[j] = NoEntry /\ map[j] # NoEntry
            /\ now > map[j].last_candidate_at + Cooldown
  <2> HIDE DEF roomy
  <2> QED BY <1>2, <1>3, ExpiryMoves
<1>5. \A j \in Identifiers : roomy[j] # NoEntry =>
         roomy[j] \in RateLimitInfo /\ Counts(roomy[j]) /\ roomy[j] = map[j]
  BY <1>3, <1>4 DEF MapCounts, Known, IdentifierMap
<1>6. counted \in IdentifierMap /\ \A j \in Identifiers \ {i} : counted[j] = roomy[j]
  <2> HIDE DEF roomy
  <2> QED BY <1>2, <1>3, CountRequestKeeps
<1>7. \/ new = roomy
      \/ /\ new \in IdentifierMap
         /\ \A j \in Identifiers \ {i} : new[j] = roomy[j]
         /\ \/ new[i] = counted[i]
            \/ /\ counted[i].candidates[c] = "Absent"
               /\ new[i] = Reserve(counted[i], c, t)
  <2> DEFINE e == Reserve(counted[i], c, t)
  <2>1. \/ new = roomy
        \/ new = counted
        \/ counted[i].candidates[c] = "Absent" /\ new = [counted EXCEPT ![i] = e]
    BY <1>1 DEF LookupAt
  <2>2. counted[i] \in RateLimitInfo
    <3> HIDE DEF roomy
    <3> QED BY <1>2, <1>3, CountRequestKeeps
  <2>3. e \in RateLimitInfo
    <3> HIDE DEF counted
    <3> QED BY <1>2, <2>2, ReserveType
  <2> HIDE DEF counted, e, roomy, new
  <2>4. CASE counted[i].candidates[c] = "Absent" /\ new = [counted EXCEPT ![i] = e]
    <3>1. new[i] = e /\ new \in IdentifierMap
      BY <1>6, <2>3, <2>4 DEF IdentifierMap
    <3>2. \A j \in Identifiers \ {i} : new[j] = roomy[j]
      BY <1>6, <2>4 DEF IdentifierMap
    <3> QED BY <2>4, <3>1, <3>2 DEF e
  <2> QED BY <1>6, <2>1, <2>4
<1> HIDE DEF map, roomy, counted, new
<1>8. ASSUME NEW j \in Identifiers, new[j] = roomy[j]
      PROVE  /\ new[j] # NoEntry => Counts(new[j])
             /\ Advances(map[j], new[j])
  <2>1. map[j] \in RateLimitInfo \cup {NoEntry}
    BY <1>2 DEF IdentifierMap
  <2> QED BY <1>4, <1>5, <1>8, <2>1, AdvancesItself DEF Advances, Lapses, Reopened
<1>9. ASSUME \/ new[i] = counted[i]
             \/ /\ counted[i].candidates[c] = "Absent"
                /\ new[i] = Reserve(counted[i], c, t)
      PROVE  /\ Counts(new[i])
             /\ Advances(map[i], new[i])
  <2>1. /\ new[i] \in RateLimitInfo /\ Counts(new[i])
        /\ roomy[i] # NoEntry => Keeps(roomy[i], new[i])
        /\ roomy[i] = NoEntry => new[i].window_started_at = t
    BY <1>2, <1>3, <1>5, <1>9, OwnEntryMoves DEF counted
  <2> QED BY <1>4, <1>5, <2>1 DEF Advances, Lapses, Reopened
<1>10. ASSUME NEW j \in Identifiers
       PROVE  /\ new[j] # NoEntry => Counts(new[j])
              /\ Advances(map[j], new[j])
  BY <1>7, <1>8, <1>9
<1> QED BY <1>10 DEF MapCounts, Known, map, new

\* The end of a lookup keeps every entry, or empties its own.
LEMMA SettleMoves ==
    ASSUME MapTyping, MapCounts, NEW i \in Identifiers, NEW c \in Candidates,
           Settle(i, c)
    PROVE  /\ MapCounts'
           /\ \A j \in Identifiers \ {i} :
                 Advances(identifier_rate_limit[j], identifier_rate_limit'[j])
           /\ \/ Keeps(identifier_rate_limit[i], identifier_rate_limit'[i])
              \/ Empties(identifier_rate_limit[i], identifier_rate_limit'[i])
<1> DEFINE map == identifier_rate_limit
           info == map[i]
           new == identifier_rate_limit'
           g == info.window_started_at
<1>1. PICK result \in Results : new = finalize(map, i, c, g, result)
  BY DEF Settle, Results
<1>2. /\ info \in RateLimitInfo /\ g \in Nat /\ map \in IdentifierMap
      /\ info.candidates[c] = "Pending" /\ Counts(info)
      /\ HoldsReservation(map, i, c, g)
  BY EntryType
     DEF Settle, MapTyping, HoldsReservation, SameWindow, MapCounts, Known
<1>3. SettlesIn(map, new, i, c, g) /\ SameWindow(map, i, g)
  BY <1>1, <1>2, FinalizeSettles DEF HoldsReservation
<1>4. Settles(info, new[i], c) /\ \A j \in Identifiers \ {i} : new[j] = map[j]
  BY <1>3 DEF SettlesIn
<1>5. new[i] # NoEntry =>
         /\ Counts(new[i])
         /\ new[i].failed_candidates >= info.failed_candidates
         /\ new[i].total_requests >= info.total_requests
  <2>1. new[i] = CASE result = "hit"   -> Commit(info, c)
                   [] result = "miss"  -> CommitMiss(info, c)
                   [] result = "error" -> DropIfEmpty(Release(info, c))
    BY <1>1, <1>2 DEF finalize, IdentifierMap
  <2>2. info.failed_candidates \in Nat /\ info.total_requests \in Nat
    BY <1>2 DEF RateLimitInfo
  <2>3. CASE result = "hit" \/ result = "miss"
    <3>1. new[i] \in {Commit(info, c), CommitMiss(info, c)}
      BY <2>1, <2>3
    <3> HIDE DEF info, new
    <3> QED BY <1>2, <2>2, <3>1, CommitCounts
  <2>4. CASE result = "error"
    <3> DEFINE rel == Release(info, c)
    <3>1. new[i] = DropIfEmpty(rel)
      BY <2>1, <2>4
    <3>2. rel \in RateLimitInfo
      BY <1>2, ReleaseType DEF KeepsBut
    <3>3. /\ Counts(rel)
          /\ rel.failed_candidates = info.failed_candidates
          /\ rel.total_requests = info.total_requests
      <4> HIDE DEF info
      <4> QED BY <1>2, ReleaseCounts
    <3> HIDE DEF rel, info, new
    <3> QED BY <2>2, <3>1, <3>2, <3>3, DropIfEmptyType
  <2> QED BY <2>3, <2>4 DEF Results
<1>6. Keeps(info, new[i]) \/ Empties(info, new[i])
  <2> HIDE DEF info, new
  <2>1. CASE new[i] = NoEntry
    BY <1>2, <1>4, <2>1, NoEntryAssumption DEF Settles, Empties
  <2>2. CASE new[i] # NoEntry
    BY <1>2, <1>4, <1>5, <2>2 DEF Settles, Keeps
  <2> QED BY <2>1, <2>2
<1>7. ASSUME NEW j \in Identifiers \ {i}
      PROVE  Advances(map[j], new[j])
  <2>1. new[j] = map[j] /\ map[j] \in RateLimitInfo \cup {NoEntry}
    BY <1>2, <1>4, <1>7 DEF IdentifierMap
  <2> QED BY <2>1, AdvancesItself
<1>8. \A j \in Known(new) : Counts(new[j])
  BY <1>4, <1>5 DEF Known, MapCounts
<1> QED BY <1>6, <1>7, <1>8 DEF MapCounts, Known

\* A sweep keeps every entry that has not expired.
LEMMA SweepMoves ==
    ASSUME MapTyping, MapCounts, SweepMap
    PROVE  /\ MapCounts'
           /\ \A j \in Identifiers :
                 Advances(identifier_rate_limit[j], identifier_rate_limit'[j])
<1>1. PICK t \in 0..now :
         identifier_rate_limit' = RetainActive(identifier_rate_limit, t)
  BY DEF SweepMap
<1>2. ExpiresAt(identifier_rate_limit, identifier_rate_limit', t)
  BY <1>1, RetainActiveExpires DEF MapTyping
<1>3. \A j \in Identifiers :
         \/ identifier_rate_limit'[j] = identifier_rate_limit[j]
         \/ /\ identifier_rate_limit'[j] = NoEntry
            /\ identifier_rate_limit[j] # NoEntry
            /\ now > identifier_rate_limit[j].last_candidate_at + Cooldown
  BY <1>2, ExpiryMoves
<1>4. \A j \in Identifiers :
         identifier_rate_limit[j] \in RateLimitInfo \cup {NoEntry}
  BY DEF MapTyping, IdentifierMap
<1> QED BY <1>3, <1>4, AdvancesItself DEF MapCounts, Known, Advances, Lapses, Reopened

\* The end of a lookup settles a reservation of the window that is open.
LEMMA SettleSettles ==
    ASSUME MapTyping, NEW i \in Identifiers, NEW c \in Candidates, Settle(i, c)
    PROVE  LET info == identifier_rate_limit[i]
               new  == identifier_rate_limit'
           IN  /\ new \in IdentifierMap
               /\ \A j \in Identifiers \ {i} : new[j] = identifier_rate_limit[j]
               /\ Settles(info, new[i], c)
<1> DEFINE map == identifier_rate_limit
           info == map[i]
           g == info.window_started_at
<1>1. PICK result \in Results : map' = finalize(map, i, c, g, result)
  BY DEF Settle, Results
<1>2. /\ g \in Nat /\ map \in IdentifierMap
      /\ info.candidates[c] = "Pending" /\ SameWindow(map, i, g)
  BY EntryType DEF Settle, MapTyping, SameWindow
<1>3. SettlesIn(map, map', i, c, g)
  BY <1>1, <1>2, FinalizeSettles
<1> QED BY <1>2, <1>3 DEF SettlesIn

-----------------------------------------------------------------------------
(* Maps within their limits *)

\* An entry has a candidate, no more than the budget, and no more than requests.
WithinBudget(info) ==
    /\ CandidatesOf(info) # {}
    /\ candidate_count(info) <= MaxAttempts
    /\ candidate_count(info) <= info.total_requests

WithinLimits(map) ==
    /\ \A i \in Known(map) : WithinBudget(map[i])
    /\ Cardinality(Known(map)) <= MaxIdentifiers

LimitsHold == WithinLimits(identifier_rate_limit)

\* Every entry of new was in map, with all the candidates it has, and has one;
\* no request has been forgotten.
Shrinks(map, new) ==
    \A i \in Identifiers : new[i] # NoEntry =>
        /\ map[i] # NoEntry
        /\ CandidatesOf(new[i]) \subseteq CandidatesOf(map[i])
        /\ CandidatesOf(new[i]) # {}
        /\ new[i].total_requests >= map[i].total_requests

\* The candidates of an entry, and the entries of a map, can be counted.
LEMMA Countable ==
    /\ \A info : IsFiniteSet(CandidatesOf(info)) /\ candidate_count(info) \in Nat
    /\ \A map : IsFiniteSet(Known(map)) /\ Cardinality(Known(map)) \in Nat
<1>1. ASSUME NEW info PROVE IsFiniteSet(CandidatesOf(info))
  <2>1. CandidatesOf(info) \in SUBSET Candidates
    BY DEF CandidatesOf
  <2> QED BY <2>1, FS_Subset, MapAssumption
<1>2. ASSUME NEW map PROVE IsFiniteSet(Known(map))
  <2>1. Known(map) \in SUBSET Identifiers
    BY DEF Known
  <2> QED BY <2>1, FS_Subset, MapAssumption
<1> QED BY <1>1, <1>2, FS_CardinalityType DEF candidate_count

\* A map that shrinks stays within its limits.
LEMMA ShrinkKeeps ==
    ASSUME NEW map \in IdentifierMap, NEW new \in IdentifierMap,
           WithinLimits(map), Shrinks(map, new)
    PROVE  WithinLimits(new)
<1>1. ASSUME NEW i \in Known(new) PROVE WithinBudget(new[i])
  <2>1. /\ CandidatesOf(new[i]) \in SUBSET CandidatesOf(map[i])
        /\ CandidatesOf(new[i]) # {}
        /\ WithinBudget(map[i])
        /\ new[i].total_requests >= map[i].total_requests
    BY DEF Shrinks, WithinLimits, Known
  <2>2. Cardinality(CandidatesOf(new[i])) <= Cardinality(CandidatesOf(map[i]))
    BY <2>1, Countable, FS_Subset
  <2>3. new[i].total_requests \in Nat /\ map[i].total_requests \in Nat
    BY DEF Shrinks, Known, IdentifierMap, RateLimitInfo
  <2> QED BY <2>1, <2>2, <2>3, Countable, MapAssumption
          DEF WithinBudget, candidate_count, U8Max
<1>2. Cardinality(Known(new)) <= MaxIdentifiers
  <2>1. Known(new) \in SUBSET Known(map)
    BY DEF Shrinks, Known
  <2>2. Cardinality(Known(new)) <= Cardinality(Known(map))
    BY <2>1, Countable, FS_Subset
  <2> QED BY <2>2, Countable, MapAssumption DEF WithinLimits
<1> QED BY <1>1, <1>2 DEF WithinLimits

\* Expiry shrinks a map.
LEMMA ExpiryShrinks ==
    ASSUME NEW map \in IdentifierMap, NEW new, NEW t,
           WithinLimits(map), ExpiresAt(map, new, t)
    PROVE  Shrinks(map, new)
<1> SUFFICES ASSUME NEW i \in Identifiers, new[i] # NoEntry
             PROVE  /\ map[i] # NoEntry /\ new[i] = map[i]
                    /\ CandidatesOf(new[i]) # {}
                    /\ map[i].total_requests \in Nat
  BY DEF Shrinks
<1>1. new[i] = map[i]
  BY DEF ExpiresAt
<1> QED BY <1>1 DEF WithinLimits, WithinBudget, Known, IdentifierMap, RateLimitInfo

\* The end of a lookup shrinks the map.
LEMMA SettleShrinks ==
    ASSUME MapTyping, MapCounts, LimitsHold,
           NEW i \in Identifiers, NEW c \in Candidates, Settle(i, c)
    PROVE  Shrinks(identifier_rate_limit, identifier_rate_limit')
<1> SUFFICES ASSUME NEW j \in Identifiers, identifier_rate_limit'[j] # NoEntry
             PROVE  /\ identifier_rate_limit[j] # NoEntry
                    /\ CandidatesOf(identifier_rate_limit'[j]) \subseteq
                          CandidatesOf(identifier_rate_limit[j])
                    /\ CandidatesOf(identifier_rate_limit'[j]) # {}
                    /\ identifier_rate_limit'[j].total_requests >=
                          identifier_rate_limit[j].total_requests
  BY DEF Shrinks
<1>1. CASE j = i
  <2>1. Settles(identifier_rate_limit[i], identifier_rate_limit'[i], c)
    BY SettleSettles
  <2>2. Keeps(identifier_rate_limit[i], identifier_rate_limit'[i])
    BY <1>1, SettleMoves DEF Empties
  <2> QED BY <1>1, <2>1, <2>2 DEF Settles, Keeps, Settle
<1>2. CASE j # i
  <2>1. identifier_rate_limit'[j] = identifier_rate_limit[j]
    BY <1>2, SettleSettles
  <2> QED BY <2>1 DEF LimitsHold, WithinLimits, WithinBudget, Known, MapTyping,
                      IdentifierMap, RateLimitInfo
<1> QED BY <1>1, <1>2

-----------------------------------------------------------------------------
(* Admissions *)

\* Counting a request leaves room for one more candidate than requests before,
\* or the counter is saturated, which stands for more than any budget.
LEMMA CountRequestCovers ==
    ASSUME NEW map \in IdentifierMap, NEW i \in Identifiers, NEW t \in Nat,
           map[i] # NoEntry =>
              Counts(map[i]) /\ candidate_count(map[i]) <= map[i].total_requests,
           NEW new, new = CountRequest(map, i, t)
    PROVE  \/ candidate_count(new[i]) < new[i].total_requests
           \/ new[i].total_requests = CounterMax
<1> DEFINE info == IF map[i] = NoEntry THEN NewWindow(t) ELSE map[i]
           n == SaturatingInc(info.total_requests, CounterMax)
           e == [info EXCEPT !.total_requests = n, !.last_request_at = t]
<1>1. info \in RateLimitInfo
  BY NewWindowType DEF IdentifierMap
<1>2. candidate_count(info) <= info.total_requests
  <2>1. Cardinality(CandidatesOf(NewWindow(t))) = 0
    BY NewWindowType, FS_EmptySet
  <2>2. NewWindow(t).total_requests = 0
    BY DEF NewWindow
  <2> QED BY <2>1, <2>2 DEF candidate_count
<1>3. new[i] = e
  BY DEF CountRequest, IdentifierMap
<1> HIDE DEF info
<1>4. n = info.total_requests + 1 \/ n = CounterMax
  BY DEF SaturatingInc
<1> HIDE DEF n
<1>5. e.total_requests = n /\ e.candidates = info.candidates
  BY <1>1 DEF RateLimitInfo
<1> HIDE DEF e
<1>6. candidate_count(e) = candidate_count(info) /\ candidate_count(info) \in Nat
  BY <1>5, Countable DEF candidate_count, CandidatesOf
<1>7. info.total_requests \in Nat
  BY <1>1 DEF RateLimitInfo
<1> QED BY <1>2, <1>3, <1>4, <1>5, <1>6, <1>7

\* A request that is counted in an entry with candidates shrinks nothing.
LEMMA CountedShrinks ==
    ASSUME NEW map \in IdentifierMap, NEW i \in Identifiers, NEW t \in Nat,
           \A k \in Known(map) : Counts(map[k]), WithinLimits(map),
           NEW new, new = CountRequest(map, i, t), CandidatesOf(new[i]) # {}
    PROVE  Shrinks(map, new)
<1>1. /\ \A k \in Identifiers \ {i} : new[k] = map[k]
      /\ map[i] # NoEntry => new[i].candidates = map[i].candidates
      /\ map[i] = NoEntry => CandidatesOf(new[i]) = {}
  BY CountRequestKeeps
<1>2. map[i] # NoEntry /\ CandidatesOf(new[i]) = CandidatesOf(map[i])
  BY <1>1 DEF CandidatesOf
<1>3. new[i].total_requests >= map[i].total_requests
  BY <1>2, CountRequestCounts DEF Known
<1>4. ASSUME NEW k \in Identifiers \ {i}, new[k] # NoEntry
      PROVE  /\ map[k] # NoEntry /\ CandidatesOf(map[k]) # {}
             /\ new[k] = map[k] /\ map[k].total_requests \in Nat
  BY <1>1, <1>4 DEF WithinLimits, WithinBudget, Known, IdentifierMap, RateLimitInfo
<1> QED BY <1>2, <1>3, <1>4 DEF Shrinks

\* One more candidate fits in a window that is not saturated.
LEMMA AddKeepsBudget ==
    ASSUME NEW old \in RateLimitInfo, NEW new \in RateLimitInfo, NEW c,
           candidate_count(old) < MaxAttempts,
           \/ candidate_count(old) < old.total_requests
           \/ old.total_requests = CounterMax,
           new.total_requests = old.total_requests,
           CandidatesOf(new) = CandidatesOf(old) \cup {c}
    PROVE  WithinBudget(new)
<1> DEFINE S == CandidatesOf(old)
<1>1. IsFiniteSet(S) /\ Cardinality(S) \in Nat
  BY Countable DEF candidate_count
<1>2. Cardinality(S \cup {c}) \in {Cardinality(S), Cardinality(S) + 1}
  <2> HIDE DEF S
  <2> QED BY <1>1, FS_AddElement
<1>3. /\ Cardinality(S) < MaxAttempts
      /\ Cardinality(S) < old.total_requests \/ old.total_requests = CounterMax
      /\ candidate_count(new) = Cardinality(S \cup {c})
      /\ old.total_requests \in Nat
  BY DEF candidate_count, RateLimitInfo
<1>4. candidate_count(new) <= MaxAttempts
  <2> HIDE DEF S
  <2> QED BY <1>1, <1>2, <1>3, MapAssumption DEF U8Max
<1>5. candidate_count(new) <= new.total_requests
  <2> HIDE DEF S
  <2> QED BY <1>1, <1>2, <1>3, <1>4, MapAssumption DEF U8Max
<1> QED BY <1>4, <1>5 DEF WithinBudget

\* The map when a new candidate has been reserved: another entry is in it, or
\* one that had room for the candidate.
LEMMA ReservedFits ==
    ASSUME NEW mid \in IdentifierMap, WithinLimits(mid),
           NEW i \in Identifiers, ~NoRoom(mid, i),
           NEW new, NEW e \in RateLimitInfo, WithinBudget(e), new[i] = e,
           \A j \in Identifiers \ {i} : new[j] = mid[j]
    PROVE  WithinLimits(new)
<1>1. Cardinality(Known(new)) <= MaxIdentifiers
  <2>1. Known(new) = Known(mid) \cup {i}
    BY NoEntryAssumption DEF Known
  <2>2. CASE i \in Known(mid)
    <3>1. Known(new) = Known(mid)
      BY <2>1, <2>2
    <3> QED BY <3>1 DEF WithinLimits
  <2>3. CASE i \notin Known(mid)
    <3>1. ~(Cardinality(Known(mid)) >= MaxIdentifiers)
      BY <2>3 DEF NoRoom, Known
    <3>2. Cardinality(Known(new)) = Cardinality(Known(mid)) + 1
      BY <2>1, <2>3, Countable, FS_AddElement
    <3> QED BY <3>1, <3>2, Countable, MapAssumption
  <2> QED BY <2>2, <2>3
<1>2. \A j \in Known(new) : WithinBudget(new[j])
  BY DEF WithinLimits, Known
<1> QED BY <1>1, <1>2 DEF WithinLimits

\* An admission stays within the limits: it purges before it adds an entry, and
\* adds a candidate only to a window that is not saturated.
LEMMA LookupLimits ==
    ASSUME MapTyping, MapCounts, LimitsHold,
           NEW i \in Identifiers, NEW c \in Candidates, Lookup(i, c)
    PROVE  identifier_rate_limit' \in IdentifierMap /\ LimitsHold'
<1>1. PICK t \in RecentStamps : LookupAt(i, c, t)
  BY DEF Lookup
<1> DEFINE map == identifier_rate_limit
           mid == MakeRoom(map, i, t)
           counted == CountRequest(mid, i, t)
           own == counted[i]
           e == Reserve(own, c, t)
           new == identifier_rate_limit'
<1>2. t \in Nat /\ map \in IdentifierMap
  BY DEF RecentStamps, MapTyping
<1>3. mid \in IdentifierMap /\ ExpiresAt(map, mid, t)
  BY <1>2, MakeRoomExpires DEF ExpiresAt
<1>4. WithinLimits(mid) /\ (\A k \in Known(mid) : Counts(mid[k]))
  <2> HIDE DEF mid
  <2>1. WithinLimits(mid)
    BY <1>2, <1>3, ExpiryShrinks, ShrinkKeeps DEF LimitsHold
  <2> QED BY <1>3, <2>1 DEF ExpiresAt, MapCounts, Known
<1>5. /\ counted \in IdentifierMap /\ own \in RateLimitInfo
      /\ \A j \in Identifiers \ {i} : counted[j] = mid[j]
  <2> HIDE DEF mid
  <2> QED BY <1>2, <1>3, CountRequestKeeps
<1>6. \/ new = mid
      \/ /\ new = counted
         /\ Saturated(own) \/ own.candidates[c] # "Absent"
      \/ /\ new = [counted EXCEPT ![i] = e]
         /\ ~Saturated(own) /\ own.candidates[c] = "Absent" /\ ~NoRoom(mid, i)
  BY <1>1 DEF LookupAt
<1>7. CASE new = mid
  BY <1>3, <1>4, <1>7 DEF LimitsHold
<1>8. CASE new = counted /\ (Saturated(own) \/ own.candidates[c] # "Absent")
  <2>1. CandidatesOf(own) # {}
    <3> HIDE DEF own
    <3>1. CASE Saturated(own)
      <4>1. candidate_count(own) >= MaxAttempts
        BY <3>1 DEF Saturated
      <4> QED BY <4>1, FS_EmptySet, MapAssumption DEF candidate_count, U8Max
    <3> QED BY <1>8, <3>1 DEF CandidatesOf
  <2>2. Shrinks(mid, counted)
    <3> HIDE DEF mid
    <3> QED BY <1>2, <1>3, <1>4, <2>1, CountedShrinks
  <2> HIDE DEF mid, counted
  <2>3. WithinLimits(counted)
    BY <1>3, <1>4, <1>5, <2>2, ShrinkKeeps
  <2> QED BY <1>5, <1>8, <2>3 DEF LimitsHold
<1>9. CASE /\ new = [counted EXCEPT ![i] = e]
           /\ ~Saturated(own) /\ own.candidates[c] = "Absent" /\ ~NoRoom(mid, i)
  <2>1. /\ e \in RateLimitInfo
        /\ e.candidates = [own.candidates EXCEPT ![c] = "Pending"]
        /\ own.candidates \in [Candidates -> CandidateState]
    <3> HIDE DEF own
    <3>1. own.candidates \in [Candidates -> CandidateState]
      BY <1>5 DEF RateLimitInfo
    <3> QED BY <1>2, <1>5, <3>1, ReserveType
  <2>2. Counts(own)
    <3> HIDE DEF mid
    <3> QED BY <1>2, <1>3, <1>4, CountRequestCounts DEF Known
  <2>3. e.total_requests = own.total_requests
    <3> HIDE DEF own
    <3> QED BY <1>2, <1>5, <1>9, <2>2, ReserveCounts
  <2>4. \/ candidate_count(own) < own.total_requests
        \/ own.total_requests = CounterMax
    <3> HIDE DEF mid
    <3> QED BY <1>2, <1>3, <1>4, CountRequestCovers
            DEF WithinLimits, WithinBudget, Known
  <2>5. candidate_count(own) < MaxAttempts
    <3> HIDE DEF own
    <3>1. candidate_count(own) \in Nat /\ MaxAttempts \in Nat
      BY Countable, MapAssumption DEF U8Max
    <3> QED BY <1>9, <3>1 DEF Saturated
  <2> HIDE DEF new, e, own, counted, mid
  <2>6. CandidatesOf(e) = CandidatesOf(own) \cup {c}
    BY <2>1 DEF CandidatesOf
  <2>7. WithinBudget(e)
    BY <1>5, <2>1, <2>3, <2>4, <2>5, <2>6, AddKeepsBudget
  <2>8. new \in IdentifierMap /\ new[i] = e
    BY <1>5, <1>9, <2>1 DEF IdentifierMap
  <2>9. \A j \in Identifiers \ {i} : new[j] = mid[j]
    BY <1>5, <1>9 DEF IdentifierMap
  <2>10. ~NoRoom(mid, i) /\ e \in RateLimitInfo
    BY <1>9, <2>1
  <2>11. WithinLimits(new)
    BY <1>3, <1>4, <2>7, <2>8, <2>9, <2>10, ReservedFits
  <2> QED BY <2>8, <2>11 DEF LimitsHold, new
<1> QED BY <1>6, <1>7, <1>8, <1>9

-----------------------------------------------------------------------------
(* Every step of the traffic *)

TrafficInv == MapTyping /\ MapCounts /\ LimitsHold

\* The initial map, which is also that of a restart, is within the limits.
LEMMA EmptySound ==
    /\ EmptyMap \in IdentifierMap
    /\ WithinLimits(EmptyMap)
    /\ \A i \in Known(EmptyMap) : Counts(EmptyMap[i])
<1>1. Known(EmptyMap) = {}
  BY DEF Known, EmptyMap
<1>2. EmptyMap \in IdentifierMap
  BY DEF EmptyMap, IdentifierMap
<1> QED BY <1>1, <1>2, FS_EmptySet, MapAssumption DEF WithinLimits

\* No step of the traffic, and no tick, disturbs the invariant.
LEMMA TrafficStep == TrafficInv /\ [MapNext]_mapVars => TrafficInv'
<1> SUFFICES ASSUME TrafficInv, [MapNext]_mapVars
             PROVE  TrafficInv'
  OBVIOUS
<1>1. MapTyping /\ MapCounts /\ LimitsHold
  BY DEF TrafficInv
<1>2. ASSUME NEW i \in Identifiers, NEW c \in Candidates, Lookup(i, c),
             UNCHANGED now
      PROVE  TrafficInv'
  BY <1>1, <1>2, LookupMoves, LookupLimits DEF TrafficInv, MapTyping
<1>3. ASSUME NEW i \in Identifiers, NEW c \in Candidates, Settle(i, c),
             UNCHANGED now
      PROVE  TrafficInv'
  <2>1. identifier_rate_limit' \in IdentifierMap
    BY <1>1, <1>3, SettleSettles
  <2>2. LimitsHold'
    BY <1>1, <1>3, <2>1, SettleShrinks, ShrinkKeeps DEF LimitsHold, MapTyping
  <2> QED BY <1>1, <1>3, <2>1, <2>2, SettleMoves DEF TrafficInv, MapTyping
<1>4. CASE SweepMap /\ UNCHANGED now
  <2>1. PICK t \in 0..now :
           identifier_rate_limit' = RetainActive(identifier_rate_limit, t)
    BY <1>4 DEF SweepMap
  <2>2. ExpiresAt(identifier_rate_limit, identifier_rate_limit', t)
    BY <1>1, <2>1, RetainActiveExpires DEF MapTyping
  <2>3. identifier_rate_limit' \in IdentifierMap
    BY <2>2 DEF ExpiresAt
  <2>4. LimitsHold'
    BY <1>1, <2>2, <2>3, ExpiryShrinks, ShrinkKeeps DEF LimitsHold, MapTyping
  <2> QED BY <1>1, <1>4, <2>3, <2>4, SweepMoves DEF TrafficInv, MapTyping
<1>5. CASE Forget /\ UNCHANGED now
  BY <1>1, <1>5, EmptySound DEF Forget, TrafficInv, MapTyping, MapCounts, LimitsHold
<1>6. CASE UNCHANGED identifier_rate_limit /\ now' \in {now, now + 1}
  BY <1>1, <1>6 DEF TrafficInv, MapTyping, MapCounts, LimitsHold
<1> QED BY <1>2, <1>3, <1>4, <1>5, <1>6 DEF MapNext, MapStep, mapVars

\* The map of any traffic is typed and within its limits, and its counters add
\* up.
LEMMA TrafficInvariant == MapSpec => []TrafficInv
<1>1. MapInit => TrafficInv
  BY EmptySound DEF MapInit, TrafficInv, MapTyping, MapCounts, LimitsHold
<1> QED BY <1>1, TrafficStep, PTL DEF MapSpec

=============================================================================
