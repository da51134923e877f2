------------------------ MODULE FetchReservationProofs ------------------------
(***************************************************************************)
(* Reservations are settled once, by their owner, for every number of      *)
(* requests and any order of their steps.                                  *)
(*                                                                         *)
(* The argument is about clocks.  An owner whose window is gone can meet   *)
(* another window of its identifier, but never one of its own generation:  *)
(* windows go when a whole cooldown has passed since a stamp that is at    *)
(* most RouteTimeout older than the window, and a later window is stamped  *)
(* by a request that is at most RouteTimeout old.  With a cooldown of at   *)
(* least twice that, the two stamps differ.                                *)
(***************************************************************************)
EXTENDS FetchSecretProofs

-----------------------------------------------------------------------------
(* The inductive invariant *)

\* Every stamp is a past reading of the clock, and how old it may be.
Clocks ==
    /\ sweep_at <= now
    /\ \A r \in Requests :
          /\ job[r] # NoJob => job[r].requested_at <= now
          /\ handler[r] # "idle" => now <= job[r].requested_at + RouteTimeout
    /\ \A i \in Identifiers : identifier_rate_limit[i] # NoEntry =>
          LET info == identifier_rate_limit[i]
          IN  /\ info.window_started_at <= now
              /\ info.last_candidate_at <= now
              /\ info.window_started_at <= info.last_candidate_at + RouteTimeout

\* An owner holds its reservation, or its window is gone for good.
Holds(r) ==
    IF Attached(r)
    THEN identifier_rate_limit[job[r].id].candidates[job[r].cand] = "Pending"
    ELSE now > job[r].generation + RouteTimeout

ReservationInv ==
    /\ Clocks
    /\ \A r \in Requests : Owns(r) => Holds(r)
    /\ ReservationsDisjoint

-----------------------------------------------------------------------------
(* How entries evolve *)

EntryClocks(info) ==
    /\ info.window_started_at <= now
    /\ info.last_candidate_at <= now
    /\ info.window_started_at <= info.last_candidate_at + RouteTimeout

\* The entry stays in its window, with all that is pending in it; or it is too
\* old for any request still to stamp its successor with the same generation.
Evolves(old, new) ==
    \/ /\ old # NoEntry /\ new # NoEntry
       /\ new.window_started_at = old.window_started_at
       /\ \A c \in Candidates :
             old.candidates[c] = "Pending" => new.candidates[c] = "Pending"
    \/ /\ old = NoEntry \/ now > old.window_started_at + RouteTimeout
       /\ new = NoEntry \/ now <= new.window_started_at + RouteTimeout

ClockedMap(map) ==
    \A i \in Identifiers : map[i] # NoEntry => EntryClocks(map[i])

MapEvolves(map) ==
    \A i \in Identifiers : Evolves(identifier_rate_limit[i], map[i])

\* An unchanged map evolves.
LEMMA SameEvolves == MapEvolves(identifier_rate_limit)
BY DEF MapEvolves, Evolves

\* Entries expire only when no successor can have their generation.
LEMMA ExpiryEvolves ==
    ASSUME Typing, Clocks, NEW t \in Nat, t <= now,
           NEW map, ExpiresAt(identifier_rate_limit, map, t)
    PROVE  MapEvolves(map) /\ ClockedMap(map)
<1> SUFFICES ASSUME NEW i \in Identifiers
             PROVE  /\ Evolves(identifier_rate_limit[i], map[i])
                    /\ map[i] # NoEntry => EntryClocks(map[i])
  BY DEF MapEvolves, ClockedMap
<1>1. CASE map[i] = identifier_rate_limit[i]
  BY <1>1 DEF Clocks, EntryClocks, Evolves
<1>2. CASE map[i] # identifier_rate_limit[i]
  <2> DEFINE old == identifier_rate_limit[i]
  <2>1. map[i] = NoEntry /\ old # NoEntry /\ Expired(old, t)
    BY <1>2 DEF ExpiresAt
  <2>2. old.window_started_at \in Nat /\ old.last_candidate_at \in Nat
    BY <2>1, EntryType DEF Typing
  <2>3. old.window_started_at <= old.last_candidate_at + RouteTimeout
    BY <2>1 DEF Clocks
  <2>4. t > old.last_candidate_at + Cooldown
    BY <2>1 DEF Expired
  <2>5. now > old.window_started_at + RouteTimeout
    <3> HIDE DEF old
    <3> QED BY <2>2, <2>3, <2>4, TimeAssumption, TrafficAssumption, MapAssumption DEF Typing
  <2> QED BY <2>1, <2>5 DEF Evolves
<1> QED BY <1>1, <1>2

\* So does the map while a request is being admitted.
LEMMA AdmissionEvolves ==
    ASSUME Typing, Clocks, NEW r \in Requests,
           job[r] # NoJob, handler[r] # "idle"
    PROVE  /\ MapEvolves(Roomy(r)) /\ ClockedMap(Roomy(r))
           /\ MapEvolves(Counted(r)) /\ ClockedMap(Counted(r))
<1> DEFINE t == job[r].requested_at
           i == job[r].id
<1>1. /\ t \in Nat /\ i \in Identifiers
      /\ t <= now /\ now <= t + RouteTimeout
  BY JobType DEF Clocks
<1>2. ExpiresAt(identifier_rate_limit, Roomy(r), t)
  BY AdmissionType
<1>3. MapEvolves(Roomy(r)) /\ ClockedMap(Roomy(r))
  BY <1>1, <1>2, ExpiryEvolves
<1>4. Roomy(r) \in IdentifierMap /\ Counted(r) = CountRequest(Roomy(r), i, t)
  BY <1>2 DEF ExpiresAt, Counted
<1> DEFINE new == Counted(r)
           mid == Roomy(r)
<1>5. /\ \A j \in Identifiers \ {i} : new[j] = mid[j]
      /\ new[i] \in RateLimitInfo
      /\ mid[i] # NoEntry =>
            /\ new[i].window_started_at = mid[i].window_started_at
            /\ new[i].last_candidate_at = mid[i].last_candidate_at
            /\ new[i].candidates = mid[i].candidates
      /\ mid[i] = NoEntry =>
            /\ new[i].window_started_at = t
            /\ new[i].last_candidate_at = t
  <2>1. mid \in IdentifierMap /\ new = CountRequest(mid, i, t)
    BY <1>4
  <2> HIDE DEF new, mid, t, i
  <2> QED BY ONLY <1>1, <2>1, CountRequestKeeps
<1>6. ASSUME NEW j \in Identifiers
      PROVE  /\ Evolves(identifier_rate_limit[j], new[j])
             /\ new[j] # NoEntry => EntryClocks(new[j])
  <2>1. /\ Evolves(identifier_rate_limit[j], mid[j])
        /\ mid[j] # NoEntry => EntryClocks(mid[j])
    BY <1>3 DEF MapEvolves, ClockedMap
  <2> HIDE DEF new, mid, t, i
  <2>2. CASE j # i
    BY <1>5, <2>1, <2>2
  <2>3. CASE j = i /\ mid[i] # NoEntry
    BY <1>5, <2>1, <2>3, NoEntryAssumption DEF Evolves, EntryClocks
  <2>4. CASE j = i /\ mid[i] = NoEntry
    <3>1. \/ identifier_rate_limit[i] = NoEntry
          \/ now > identifier_rate_limit[i].window_started_at + RouteTimeout
      BY <2>1, <2>4 DEF Evolves
    <3>2. EntryClocks(new[i])
      BY <1>1, <1>5, <2>4, TimeAssumption, TrafficAssumption DEF EntryClocks
    <3> QED BY <1>1, <1>5, <2>4, <3>1, <3>2 DEF Evolves
  <2> QED BY <2>2, <2>3, <2>4
<1> QED BY <1>3, <1>6 DEF MapEvolves, ClockedMap

-----------------------------------------------------------------------------
(* What steps do to owners *)

\* Every owner after the step was one before it, of the same reservation.
OwnersRemain == \A s \in Requests : Owns(s)' => Owns(s) /\ job'[s] = job[s]

OwnersHold ==
    /\ \A r \in Requests : Owns(r) => Holds(r)
    /\ ReservationsDisjoint

\* An owner has well-typed locals.
LEMMA OwnerType ==
    ASSUME Typing, NEW r \in Requests, Owns(r)
    PROVE  /\ job[r] # NoJob /\ job[r].is_new
           /\ job[r].id \in Identifiers
           /\ job[r].cand \in Candidates
           /\ job[r].generation \in Nat
BY JobType DEF Owns

\* An owner that keeps its locals keeps its hold when the map evolves.
LEMMA EvolvedHold ==
    ASSUME Typing, Typing', OwnersHold, MapEvolves(identifier_rate_limit'),
           now' = now,
           NEW s \in Requests, Owns(s), job'[s] = job[s]
    PROVE  /\ Holds(s)'
           /\ Attached(s)' => Attached(s)
<1> DEFINE i == job[s].id
           old == identifier_rate_limit[i]
           new == identifier_rate_limit'[i]
           g == job[s].generation
<1>1. i \in Identifiers /\ job[s].cand \in Candidates /\ g \in Nat
  BY OwnerType
<1>2. Evolves(old, new) /\ Holds(s)
  BY <1>1 DEF MapEvolves, OwnersHold
<1>3. /\ Attached(s) <=> old # NoEntry /\ old.window_started_at = g
      /\ Attached(s)' <=> new # NoEntry /\ new.window_started_at = g
  BY DEF Attached, SameWindow
<1>4. /\ Attached(s) => old.candidates[job[s].cand] = "Pending"
      /\ ~Attached(s) => now > g + RouteTimeout
  BY <1>2 DEF Holds
<1>5. /\ Attached(s)' => new.candidates[job[s].cand] = "Pending"
      /\ ~Attached(s)' => now > g + RouteTimeout
      /\ Attached(s)' => Attached(s)
  <2> HIDE DEF old, new, g, i
  <2> QED BY <1>1, <1>2, <1>3, <1>4, TimeAssumption, TrafficAssumption DEF Evolves, Typing
<1> QED BY <1>5 DEF Holds

\* A step that creates no owner and lets the map evolve keeps reservations.
LEMMA EvolveKeeps ==
    ASSUME Typing, Typing', OwnersHold, OwnersRemain, now' = now,
           MapEvolves(identifier_rate_limit')
    PROVE  OwnersHold'
<1>1. ASSUME NEW s \in Requests, Owns(s)'
      PROVE  /\ Owns(s) /\ job'[s] = job[s]
             /\ Holds(s)'
             /\ Attached(s)' => Attached(s)
  BY <1>1, EvolvedHold DEF OwnersRemain
<1>2. ReservationsDisjoint'
  BY <1>1 DEF OwnersHold, ReservationsDisjoint, SameReservation
<1> QED BY <1>1, <1>2 DEF OwnersHold

\* An owner that settles its reservation disturbs no other owner's.
LEMMA SettleKeeps ==
    ASSUME Typing, Typing', OwnersHold, OwnersRemain, now' = now,
           NEW r \in Requests, Owns(r), ~Owns(r)',
           SettlesIn(identifier_rate_limit, identifier_rate_limit',
                     job[r].id, job[r].cand, job[r].generation)
    PROVE  OwnersHold'
<1>1. ASSUME NEW s \in Requests, Owns(s)'
      PROVE  /\ Owns(s) /\ job'[s] = job[s]
             /\ Holds(s)'
             /\ Attached(s)' => Attached(s)
  <2>1. Owns(s) /\ job'[s] = job[s] /\ s # r /\ Holds(s)
    BY <1>1 DEF OwnersRemain, OwnersHold
  <2>2. /\ job[s].id \in Identifiers /\ job[s].cand \in Candidates
        /\ job[r].id \in Identifiers /\ job[r].cand \in Candidates
    BY <2>1, OwnerType
  <2>3. CASE identifier_rate_limit'[job[s].id] = identifier_rate_limit[job[s].id]
    BY <2>1, <2>3 DEF Holds, Attached, SameWindow
  <2>4. CASE identifier_rate_limit'[job[s].id] # identifier_rate_limit[job[s].id]
    <3>1. job[s].id = job[r].id /\ Attached(r)
      BY <2>2, <2>4 DEF SettlesIn, Attached
    <3> DEFINE old == identifier_rate_limit[job[r].id]
               new == identifier_rate_limit'[job[r].id]
    <3>2. Settles(old, new, job[r].cand)
      BY <3>1 DEF SettlesIn, Attached
    <3>3. CASE Attached(s)
      <4>1. job[s].cand # job[r].cand
        BY <2>1, <3>1, <3>3
           DEF OwnersHold, ReservationsDisjoint, SameReservation, Attached,
               SameWindow
      <4>2. old.candidates[job[s].cand] = "Pending"
        BY <2>1, <3>1, <3>3 DEF Holds
      <4>3. /\ new \in RateLimitInfo
            /\ new.window_started_at = old.window_started_at
            /\ new.candidates[job[s].cand] = "Pending"
        <5> HIDE DEF old, new
        <5> QED BY <2>2, <3>2, <4>1, <4>2 DEF Settles
      <4> QED BY <2>1, <3>1, <3>3, <4>3, NoEntryAssumption
              DEF Holds, Attached, SameWindow
    <3>4. CASE ~Attached(s)
      <4>1. ~Attached(s)'
        BY <2>1, <3>1, <3>2, <3>4 DEF Settles, Attached, SameWindow
      <4> QED BY <2>1, <3>4, <4>1 DEF Holds
    <3> QED BY <3>3, <3>4
  <2> QED BY <2>3, <2>4
<1>2. ReservationsDisjoint'
  BY <1>1 DEF OwnersHold, ReservationsDisjoint, SameReservation
<1> QED BY <1>1, <1>2 DEF OwnersHold

\* A request that ends makes nobody an owner.
LEMMA FreeOwners ==
    ASSUME Typing, NEW r \in Requests, Free(r)
    PROVE  OwnersRemain /\ ~Owns(r)'
BY DEF Typing, Free, OwnersRemain, Owns, TaskRuns

-----------------------------------------------------------------------------
(* What steps do to clocks *)

\* No request arrives or is stamped again.
RequestsRemain ==
    \A s \in Requests :
        /\ job'[s] # NoJob => /\ job[s] # NoJob
                              /\ job'[s].requested_at = job[s].requested_at
        /\ handler'[s] # "idle" => handler[s] # "idle"

\* Without arrivals, and with a map whose stamps are sound, stamps stay sound.
LEMMA ClocksKeep ==
    ASSUME Typing, Clocks, BaseInv', RequestsRemain, now' = now,
           sweep_at' \in {sweep_at, now, NoSweep},
           ClockedMap(identifier_rate_limit')
    PROVE  Clocks'
<1>1. sweep_at' <= now'
  BY DEF Clocks, Typing, NoSweep
<1>2. ASSUME NEW s \in Requests
      PROVE  /\ job'[s] # NoJob => job'[s].requested_at <= now'
             /\ handler'[s] # "idle" =>
                   now' <= job'[s].requested_at + RouteTimeout
  BY DEF Clocks, RequestsRemain, BaseInv, Phase, SlotFree
<1> QED BY <1>1, <1>2 DEF Clocks, ClockedMap, EntryClocks

\* Settling a reservation moves no stamp of the map.
LEMMA SettleClocked ==
    ASSUME Clocks, NEW i \in Identifiers, NEW c, NEW g, NEW map,
           SettlesIn(identifier_rate_limit, map, i, c, g)
    PROVE  ClockedMap(map)
<1> SUFFICES ASSUME NEW j \in Identifiers, map[j] # NoEntry
             PROVE  EntryClocks(map[j])
  BY DEF ClockedMap
<1>1. CASE map[j] = identifier_rate_limit[j]
  BY <1>1 DEF Clocks, EntryClocks
<1>2. CASE map[j] # identifier_rate_limit[j]
  <2>1. j = i /\ SameWindow(identifier_rate_limit, i, g)
    BY <1>2 DEF SettlesIn
  <2>2. /\ identifier_rate_limit[j] # NoEntry
        /\ map[j].window_started_at = identifier_rate_limit[j].window_started_at
        /\ map[j].last_candidate_at = identifier_rate_limit[j].last_candidate_at
    BY <2>1 DEF SettlesIn, Settles, SameWindow
  <2> QED BY <2>2 DEF Clocks, EntryClocks
<1> QED BY <1>1, <1>2

\* An unchanged map has sound stamps.
LEMMA SameClocked == Clocks => ClockedMap(identifier_rate_limit)
BY DEF Clocks, ClockedMap, EntryClocks

\* A request that ends stamps nothing.
LEMMA FreeRequests ==
    ASSUME Typing, NEW r \in Requests, Free(r)
    PROVE  RequestsRemain
BY DEF Typing, Free, RequestsRemain

-----------------------------------------------------------------------------
(* Every step keeps the invariant *)

\* What a request does to owners when it removes its own reservation.
LEMMA OwnRemovalSettles ==
    ASSUME Typing, OwnersHold, NEW r \in Requests, Owns(r)
    PROVE  /\ RemovePending(r) =>
                 SettlesIn(identifier_rate_limit, identifier_rate_limit',
                           job[r].id, job[r].cand, job[r].generation)
           /\ \A res \in Results :
                 SettlesIn(identifier_rate_limit,
                           finalize(identifier_rate_limit, job[r].id,
                                    job[r].cand, job[r].generation, res),
                           job[r].id, job[r].cand, job[r].generation)
<1>1. /\ identifier_rate_limit \in IdentifierMap
      /\ job[r].id \in Identifiers /\ job[r].cand \in Candidates
      /\ job[r].generation \in Nat
  BY OwnerType DEF Typing
<1>2. SameWindow(identifier_rate_limit, job[r].id, job[r].generation) =>
        identifier_rate_limit[job[r].id].candidates[job[r].cand] = "Pending"
  BY DEF OwnersHold, Holds, Attached
<1> QED BY <1>1, <1>2, RemovePendingSettles, FinalizeSettles DEF RemovePending

\* A request that ends without an effect on the map, or with the effect of an
\* admission, keeps the invariant.
LEMMA EndEvolves ==
    ASSUME BaseInv, BaseInv', ReservationInv, NEW r \in Requests, Free(r),
           MapEvolves(identifier_rate_limit'),
           ClockedMap(identifier_rate_limit'),
           UNCHANGED <<now, sweep_at>>
    PROVE  ReservationInv'
<1>1. Typing /\ Typing' /\ OwnersHold /\ Clocks
  BY DEF BaseInv, ReservationInv, OwnersHold
<1>2. OwnersHold'
  BY <1>1, FreeOwners, EvolveKeeps
<1>3. Clocks'
  BY <1>1, FreeRequests, ClocksKeep
<1> QED BY <1>2, <1>3 DEF ReservationInv, OwnersHold

\* A request that ends by settling its reservation keeps the invariant.
LEMMA EndSettles ==
    ASSUME BaseInv, BaseInv', ReservationInv, NEW r \in Requests,
           Free(r), Owns(r), RemovePending(r),
           UNCHANGED <<now, sweep_at>>
    PROVE  ReservationInv'
<1>1. Typing /\ Typing' /\ OwnersHold /\ Clocks
  BY DEF BaseInv, ReservationInv, OwnersHold
<1>2. SettlesIn(identifier_rate_limit, identifier_rate_limit',
                job[r].id, job[r].cand, job[r].generation)
  BY <1>1, OwnRemovalSettles
<1>3. OwnersHold'
  BY <1>1, <1>2, FreeOwners, SettleKeeps
<1>4. Clocks'
  BY <1>1, <1>2, OwnerType, FreeRequests, SettleClocked, ClocksKeep
<1> QED BY <1>3, <1>4 DEF ReservationInv, OwnersHold

\* A step that leaves the map, the stamps and the locals of requests alone and
\* creates no owner keeps the invariant.
LEMMA LocalKeeps ==
    ASSUME BaseInv, BaseInv', ReservationInv, OwnersRemain, RequestsRemain,
           UNCHANGED <<now, identifier_rate_limit>>,
           sweep_at' \in {sweep_at, now, NoSweep}
    PROVE  ReservationInv'
<1>1. Typing /\ Typing' /\ OwnersHold /\ Clocks
  BY DEF BaseInv, ReservationInv, OwnersHold
<1>2. /\ MapEvolves(identifier_rate_limit')
      /\ ClockedMap(identifier_rate_limit')
  BY <1>1, SameEvolves, SameClocked
<1>3. OwnersHold' /\ Clocks'
  BY <1>1, <1>2, EvolveKeeps, ClocksKeep
<1> QED BY <1>3 DEF ReservationInv, OwnersHold

\* A reservation is made in a window of its own generation, of a candidate
\* that nobody else has reserved there.
LEMMA NewReservation ==
    ASSUME BaseInv, BaseInv', ReservationInv, NEW r \in Requests, AdmitNew(r)
    PROVE  ReservationInv'
<1> DEFINE i == job[r].id
           c == job[r].cand
           t == job[r].requested_at
           mid == Counted(r)
           new == identifier_rate_limit'
           e == Reserve(mid[i], c, t)
<1>1. Typing /\ Typing' /\ OwnersHold /\ Clocks
  BY DEF BaseInv, ReservationInv, OwnersHold
<1>2. handler[r] = "requested" /\ job[r] # NoJob /\ ~Owns(r)
  BY DEF BaseInv, Phase, SlotFree, AdmitNew, Admits, Owns
<1>3. /\ i \in Identifiers /\ c \in Candidates /\ t \in Nat
      /\ t <= now /\ now <= t + RouteTimeout
  BY <1>1, <1>2, JobType DEF Clocks
<1>4. /\ MapEvolves(mid) /\ ClockedMap(mid)
      /\ mid \in IdentifierMap /\ mid[i] \in RateLimitInfo
  BY <1>1, <1>2, AdmissionEvolves, AdmissionType DEF OwnEntry
<1>5. /\ e \in RateLimitInfo
      /\ e.window_started_at = mid[i].window_started_at
      /\ e.last_candidate_at = t
      /\ e.candidates = [mid[i].candidates EXCEPT ![c] = "Pending"]
  BY <1>3, <1>4, ReserveType
<1>6. new = [mid EXCEPT ![i] = e] /\ mid[i].candidates[c] = "Absent"
  BY DEF AdmitNew, OwnEntry
<1>7. /\ UNCHANGED <<now, task, result, deferred, permits, secret, sweep_at>>
      /\ handler' = [handler EXCEPT ![r] = "permit"]
      /\ job' = [job EXCEPT ![r].is_new = TRUE,
                            ![r].generation = mid[i].window_started_at]
  BY DEF AdmitNew, Proceed, OwnEntry
<1>8. /\ \A s \in Requests \ {r} :
            job'[s] = job[s] /\ handler'[s] = handler[s]
      /\ job'[r].id = i /\ job'[r].cand = c /\ job'[r].requested_at = t
      /\ job'[r].generation = mid[i].window_started_at
      /\ handler'[r] = "permit"
  <2>1. \A s \in Requests \ {r} :
            job'[s] = job[s] /\ handler'[s] = handler[s]
    BY <1>1, <1>7 DEF Typing
  <2>2. job[r] \in Job /\ handler'[r] = "permit"
    BY <1>1, <1>2, <1>7, JobType DEF Typing
  <2>3. job'[r] = [[job[r] EXCEPT !.is_new = TRUE]
                      EXCEPT !.generation = mid[i].window_started_at]
    BY <1>1, <1>7, Zenon DEF Typing
  <2>4. /\ job'[r].id = job[r].id /\ job'[r].cand = job[r].cand
        /\ job'[r].requested_at = job[r].requested_at
        /\ job'[r].generation = mid[i].window_started_at
    BY <2>2, <2>3 DEF Job
  <2> QED BY <2>1, <2>2, <2>4
<1>9. MapEvolves(new)
  <2> SUFFICES ASSUME NEW j \in Identifiers
               PROVE  Evolves(identifier_rate_limit[j], new[j])
    BY DEF MapEvolves
  <2>1. Evolves(identifier_rate_limit[j], mid[j])
    BY <1>4 DEF MapEvolves
  <2>2. mid[i].candidates \in [Candidates -> CandidateState]
    BY <1>4 DEF RateLimitInfo
  <2> HIDE DEF mid, e, new, i, c, t
  <2>3. CASE j # i
    BY <1>4, <1>6, <2>1, <2>3 DEF IdentifierMap
  <2>4. CASE j = i
    <3>1. new[j] = e /\ e # NoEntry /\ mid[j] # NoEntry
      BY <1>3, <1>4, <1>5, <1>6, <2>4, NoEntryAssumption DEF IdentifierMap
    <3> QED BY <1>5, <2>1, <2>2, <2>4, <3>1 DEF Evolves
  <2> QED BY <2>3, <2>4
<1>10. ClockedMap(new)
  <2> SUFFICES ASSUME NEW j \in Identifiers, new[j] # NoEntry
               PROVE  EntryClocks(new[j])
    BY DEF ClockedMap
  <2> HIDE DEF mid, e, new, i, c, t
  <2>1. CASE j # i
    BY <1>4, <1>6, <2>1 DEF IdentifierMap, ClockedMap
  <2>2. CASE j = i
    <3>1. new[j] = e /\ mid[i] # NoEntry
      BY <1>3, <1>4, <1>6, <2>2, NoEntryAssumption DEF IdentifierMap
    <3>2. EntryClocks(mid[i]) /\ mid[i].window_started_at \in Nat
      BY <1>3, <1>4, <3>1 DEF ClockedMap, RateLimitInfo
    <3>3. now \in Nat
      BY <1>1 DEF Typing
    <3> QED BY <1>3, <1>5, <3>1, <3>2, <3>3, TimeAssumption, TrafficAssumption DEF EntryClocks
  <2> QED BY <2>1, <2>2
<1>11. ASSUME NEW s \in Requests \ {r}, Owns(s)'
       PROVE  /\ Owns(s) /\ job'[s] = job[s] /\ Holds(s)'
              /\ Attached(s)' => Attached(s)
  <2>1. Owns(s) /\ job'[s] = job[s]
    BY <1>7, <1>8, <1>11 DEF Owns, TaskRuns
  <2> QED BY <1>1, <1>7, <1>9, <2>1, EvolvedHold
<1>12. new[i] = e /\ new[i] # NoEntry /\ mid[i] # NoEntry
  <2> HIDE DEF mid, e, new, i, c, t
  <2> QED BY <1>3, <1>4, <1>5, <1>6, NoEntryAssumption DEF IdentifierMap
<1>13. Holds(r)'
  <2>1. Attached(r)'
    BY <1>5, <1>8, <1>12 DEF Attached, SameWindow
  <2>2. e.candidates[c] = "Pending"
    BY <1>3, <1>4, <1>5 DEF RateLimitInfo
  <2> QED BY <1>8, <1>12, <2>1, <2>2 DEF Holds
<1>14. ASSUME NEW s \in Requests \ {r}, Owns(s)', Attached(s)',
              job[s].id = i, job[s].cand = c
       PROVE  FALSE
  <2>1. Owns(s) /\ job'[s] = job[s] /\ Attached(s)
    BY <1>11, <1>14
  <2>2. /\ identifier_rate_limit[i].candidates[c] = "Pending"
        /\ identifier_rate_limit[i] # NoEntry
        /\ identifier_rate_limit[i].window_started_at = job[s].generation
    BY <1>1, <1>14, <2>1 DEF OwnersHold, Holds, Attached, SameWindow
  <2>3. mid[i].window_started_at = job[s].generation
    BY <1>5, <1>12, <1>14, <2>1 DEF Attached, SameWindow
  <2>4. Evolves(identifier_rate_limit[i], mid[i])
    BY <1>3, <1>4 DEF MapEvolves
  <2>5. job[s].generation \in Nat /\ now \in Nat
    BY <1>1, <2>1, OwnerType DEF Typing
  <2>6. mid[i].candidates[c] = "Pending"
    <3> HIDE DEF mid, e, new, i, c, t
    <3> QED BY <1>3, <1>12, <2>2, <2>3, <2>4, <2>5, TimeAssumption, TrafficAssumption DEF Evolves
  <2> QED BY <1>6, <2>6
<1>15. ReservationsDisjoint'
  <2> SUFFICES ASSUME NEW p \in Requests, NEW q \in Requests,
                      Owns(p)', Owns(q)', Attached(p)', SameReservation(p, q)'
               PROVE  p = q
    BY DEF ReservationsDisjoint
  <2>1. Attached(q)'
    BY DEF SameReservation, Attached, SameWindow
  <2>2. CASE p # r /\ q # r
    BY <1>1, <1>11, <2>2 DEF OwnersHold, ReservationsDisjoint, SameReservation
  <2>3. CASE p = r /\ q # r
    BY <1>8, <1>14, <2>1, <2>3 DEF SameReservation
  <2>4. CASE q = r /\ p # r
    BY <1>8, <1>14, <2>4 DEF SameReservation
  <2> QED BY <2>2, <2>3, <2>4
<1>16. Clocks'
  <2>1. RequestsRemain
    <3> SUFFICES ASSUME NEW s \in Requests
                 PROVE /\ job'[s] # NoJob =>
                            /\ job[s] # NoJob
                            /\ job'[s].requested_at = job[s].requested_at
                       /\ handler'[s] # "idle" => handler[s] # "idle"
      BY DEF RequestsRemain
    <3> QED BY <1>2, <1>8
  <2> QED BY <1>1, <1>7, <1>10, <2>1, ClocksKeep
<1> QED BY <1>11, <1>13, <1>15, <1>16 DEF ReservationInv

\* Every step of a request keeps the invariant.
LEMMA ReservationRequest ==
    ASSUME BaseInv, BaseInv', ReservationInv, NEW r \in Requests, RequestStep(r)
    PROVE  ReservationInv'
<1>1. /\ Typing /\ Typing' /\ OwnersHold /\ Clocks
      /\ \A s \in Requests : Phase(s)
  BY DEF BaseInv, ReservationInv, OwnersHold
<1>2. MapEvolves(identifier_rate_limit) /\ ClockedMap(identifier_rate_limit)
  BY <1>1, SameEvolves, SameClocked
<1>3. CASE Receive(r)
  <2>1. PICK new \in Job :
           /\ job' = [job EXCEPT ![r] = new]
           /\ ~new.is_new /\ new.requested_at = now
    <3>1. PICK i \in Identifiers, c \in Candidates, route \in Routes :
             job' = [job EXCEPT ![r] =
                       [id |-> i, cand |-> c, route |-> route,
                        requested_at |-> now, is_new |-> FALSE,
                        generation |-> 0]]
      BY <1>3 DEF Receive
    <3>2. [id |-> i, cand |-> c, route |-> route, requested_at |-> now,
           is_new |-> FALSE, generation |-> 0] \in Job
      BY <1>1 DEF Job, Typing
    <3> QED BY <3>1, <3>2
  <2>2. OwnersRemain
    BY <1>1, <1>3, <2>1 DEF Typing, Receive, OwnersRemain, Owns, TaskRuns
  <2>3. OwnersHold'
    BY <1>1, <1>2, <1>3, <2>2, EvolveKeeps DEF Receive
  <2>4. ASSUME NEW s \in Requests
        PROVE  /\ job'[s] # NoJob => job'[s].requested_at <= now'
               /\ handler'[s] # "idle" =>
                     now' <= job'[s].requested_at + RouteTimeout
    <3>1. CASE s = r
      BY <1>1, <1>3, <2>1, <3>1, TimeAssumption, TrafficAssumption DEF Receive, Typing
    <3>2. CASE s # r
      BY <1>1, <1>3, <2>1, <3>2 DEF Receive, Typing, Clocks
    <3> QED BY <3>1, <3>2
  <2>5. Clocks'
    BY <1>1, <1>3, <2>4 DEF Clocks, Receive
  <2> QED BY <2>3, <2>5 DEF ReservationInv, OwnersHold
<1>4. CASE AdmitFull(r) \/ AdmitLimited(r) \/ AdmitPending(r)
  <2>1. job[r] # NoJob /\ handler[r] # "idle"
    BY <1>1, <1>4 DEF AdmitFull, AdmitLimited, AdmitPending, Admits, Phase, SlotFree
  <2>2. /\ MapEvolves(identifier_rate_limit')
        /\ ClockedMap(identifier_rate_limit')
    BY <1>1, <1>4, <2>1, AdmissionEvolves DEF AdmitFull, AdmitLimited, AdmitPending
  <2> QED BY <1>4, <2>2, EndEvolves DEF AdmitFull, AdmitLimited, AdmitPending
<1>5. CASE AdmitReplay(r)
  <2>1. handler[r] = "requested" /\ job[r] # NoJob
    BY <1>1, <1>5 DEF AdmitReplay, Admits, Phase, SlotFree
  <2>2. /\ MapEvolves(identifier_rate_limit')
        /\ ClockedMap(identifier_rate_limit')
    BY <1>1, <1>5, <2>1, AdmissionEvolves DEF AdmitReplay
  <2>3. /\ UNCHANGED <<now, task, deferred, sweep_at>>
        /\ handler' = [handler EXCEPT ![r] = "permit"]
        /\ job' = [job EXCEPT ![r].is_new = FALSE,
                              ![r].generation = OwnEntry(r).window_started_at]
    BY <1>5 DEF AdmitReplay, Proceed
  <2>4. /\ \A s \in Requests \ {r} :
              job'[s] = job[s] /\ handler'[s] = handler[s]
        /\ ~job'[r].is_new
        /\ job'[r].requested_at = job[r].requested_at
    <3>1. job[r] \in Job
      BY <1>1, <2>1, JobType
    <3>2. job'[r] = [[job[r] EXCEPT !.is_new = FALSE]
                        EXCEPT !.generation = OwnEntry(r).window_started_at]
      BY <1>1, <2>3, Zenon DEF Typing
    <3>3. ~job'[r].is_new /\ job'[r].requested_at = job[r].requested_at
      BY <3>1, <3>2 DEF Job
    <3> QED BY <1>1, <2>3, <3>3 DEF Typing
  <2>5. OwnersRemain
    BY <2>3, <2>4 DEF OwnersRemain, Owns, TaskRuns
  <2>6. RequestsRemain
    <3> SUFFICES ASSUME NEW s \in Requests
                 PROVE /\ job'[s] # NoJob =>
                            /\ job[s] # NoJob
                            /\ job'[s].requested_at = job[s].requested_at
                       /\ handler'[s] # "idle" => handler[s] # "idle"
      BY DEF RequestsRemain
    <3> QED BY <2>1, <2>4
  <2>7. OwnersHold'
    BY <1>1, <2>2, <2>3, <2>5, EvolveKeeps
  <2>8. Clocks'
    BY <1>1, <2>2, <2>3, <2>6, ClocksKeep
  <2> QED BY <2>7, <2>8 DEF ReservationInv, OwnersHold
<1>6. CASE AdmitNew(r)
  BY <1>6, NewReservation
<1>7. CASE PermitTimeoutReplay(r) \/ Respond(r)
  BY <1>2, <1>7, EndEvolves DEF PermitTimeoutReplay, Respond
<1>8. CASE Refund(r) \/ CancelRemoves(r) \/ DeferredRemoval(r)
  <2>1. Owns(r)
    BY <1>1, <1>8 DEF Refund, CancelRemoves, DeferredRemoval, GuardArmed, Owns,
                      Phase, SlotFree
  <2> QED BY <1>8, <2>1, EndSettles DEF Refund, CancelRemoves, DeferredRemoval
<1>9. CASE AcquirePermit(r) \/ PermitTimeout(r) \/ Database(r) \/ SeePanic(r)
           \/ CancelDefers(r)
  <2>1. UNCHANGED <<now, identifier_rate_limit, job, sweep_at>>
    BY <1>9 DEF AcquirePermit, PermitTimeout, Database, SeePanic, CancelDefers
  <2>2. OwnersRemain
    BY <1>1, <1>9 DEF AcquirePermit, PermitTimeout, Database, SeePanic,
                      CancelDefers, GuardArmed, Typing, Phase, OwnersRemain,
                      Owns, TaskRuns
  <2>3. RequestsRemain
    BY <1>1, <1>9 DEF AcquirePermit, PermitTimeout, Database, SeePanic,
                      CancelDefers, GuardArmed, Typing, RequestsRemain
  <2> QED BY <2>1, <2>2, <2>3, LocalKeeps
<1>10. CASE Finalize(r)
  <2>1. /\ task[r] = "finalizing" /\ job[r] # NoJob /\ result[r] \in Results
        /\ UNCHANGED <<now, sweep_at>> /\ TaskEnds(r, "finished")
    BY <1>1, <1>10 DEF Finalize, Phase, SlotFree
  <2>2. OwnersRemain /\ RequestsRemain /\ ~Owns(r)'
    <3>1. CASE handler[r] = "task"
      BY <1>1, <2>1, <3>1 DEF TaskEnds, Typing, Phase, OwnersRemain, Owns,
                              TaskRuns, RequestsRemain
    <3>2. CASE handler[r] # "task"
      BY <1>1, <2>1, <3>2, FreeOwners, FreeRequests DEF TaskEnds
    <3> QED BY <3>1, <3>2
  <2>3. CASE job[r].is_new
    <3>1. Owns(r)
      BY <2>1, <2>3 DEF Owns, TaskRuns
    <3>2. SettlesIn(identifier_rate_limit, identifier_rate_limit',
                    job[r].id, job[r].cand, job[r].generation)
      BY <1>1, <1>10, <2>1, <2>3, <3>1, OwnRemovalSettles DEF Finalize
    <3>3. OwnersHold'
      BY <1>1, <2>1, <2>2, <3>1, <3>2, SettleKeeps
    <3>4. Clocks'
      BY <1>1, <2>1, <2>2, <3>1, <3>2, OwnerType, SettleClocked, ClocksKeep
    <3> QED BY <3>3, <3>4 DEF ReservationInv, OwnersHold
  <2>4. CASE ~job[r].is_new
    <3>1. UNCHANGED identifier_rate_limit
      BY <1>10, <2>4 DEF Finalize
    <3> QED BY <2>1, <2>2, <3>1, LocalKeeps
  <2> QED BY <2>3, <2>4
<1>11. CASE TaskPanics(r)
  <2>1. /\ task[r] = "finalizing" /\ job[r] # NoJob /\ TaskEnds(r, "panicked")
        /\ UNCHANGED <<now, sweep_at, identifier_rate_limit>>
    BY <1>1, <1>11 DEF TaskPanics, Phase, SlotFree
  <2>2. OwnersRemain /\ RequestsRemain
    <3>1. CASE handler[r] = "task"
      BY <1>1, <2>1, <3>1 DEF TaskEnds, Typing, Phase, OwnersRemain, Owns,
                              TaskRuns, RequestsRemain
    <3>2. CASE handler[r] # "task"
      BY <1>1, <2>1, <3>2, FreeOwners, FreeRequests DEF TaskEnds
    <3> QED BY <3>1, <3>2
  <2> QED BY <2>1, <2>2, LocalKeeps
<1>12. CASE Cleanup(r)
  <2>1. handler[r] = "cleanup" /\ job[r] # NoJob
    BY <1>1, <1>12 DEF Cleanup, Phase, SlotFree
  <2>2. CASE job[r].is_new
    BY <1>12, <2>1, <2>2, EndSettles DEF Cleanup, Owns
  <2>3. CASE ~job[r].is_new
    BY <1>2, <1>12, <2>3, EndEvolves DEF Cleanup
  <2> QED BY <2>2, <2>3
<1>13. CASE CancelUnguarded(r)
  <2>1. CASE TaskRuns(r)
    <3>1. /\ handler' = [handler EXCEPT ![r] = "idle"]
          /\ UNCHANGED <<now, identifier_rate_limit, job, task, deferred, sweep_at>>
      BY <1>13, <2>1 DEF CancelUnguarded
    <3>2. OwnersRemain /\ RequestsRemain
      BY <1>1, <3>1 DEF Typing, OwnersRemain, Owns, TaskRuns, RequestsRemain
    <3> QED BY <3>1, <3>2, LocalKeeps
  <2>2. CASE ~TaskRuns(r)
    BY <1>2, <1>13, <2>2, EndEvolves DEF CancelUnguarded
  <2> QED BY <2>1, <2>2
<1> QED
  BY <1>3, <1>4, <1>5, <1>6, <1>7, <1>8, <1>9, <1>10, <1>11, <1>12, <1>13
     DEF RequestStep, Admission, PermitStep, TaskStep, HandlerEnds, Cancel

\* The initial state satisfies the invariant.
LEMMA ReservationInit == Init => ReservationInv
BY TimeAssumption, TrafficAssumption DEF Init, ReservationInv, Clocks, EmptyMap, Owns, TaskRuns,
                      ReservationsDisjoint, NoSweep

\* Every step of the server keeps the invariant.
LEMMA ReservationStep ==
    BaseInv /\ BaseInv' /\ ReservationInv /\ [Next]_vars => ReservationInv'
<1> SUFFICES ASSUME BaseInv, BaseInv', ReservationInv, [Next]_vars
             PROVE  ReservationInv'
  OBVIOUS
<1>1. Typing /\ Typing' /\ OwnersHold /\ Clocks
  BY DEF BaseInv, ReservationInv, OwnersHold
<1>2. CASE \E r \in Requests : RequestStep(r)
  BY <1>2, ReservationRequest
<1>3. CASE \/ \E i \in Identifiers, c \in Candidates : Write(i, c)
           \/ SweepStamp
           \/ UNCHANGED vars
  <2>1. /\ UNCHANGED <<now, identifier_rate_limit, reqVars>>
        /\ sweep_at' \in {sweep_at, now, NoSweep}
    BY <1>3 DEF Write, SweepStamp, vars
  <2>2. OwnersRemain /\ RequestsRemain
    BY <2>1 DEF OwnersRemain, RequestsRemain, Owns, TaskRuns, reqVars
  <2> QED BY <2>1, <2>2, LocalKeeps
<1>4. CASE Sweep
  <2>1. /\ sweep_at \in Nat /\ sweep_at <= now /\ sweep_at' = NoSweep
        /\ UNCHANGED <<now, reqVars>>
    BY <1>1, <1>4 DEF Sweep, Typing, Clocks
  <2>2. ExpiresAt(identifier_rate_limit, identifier_rate_limit', sweep_at)
    BY <1>1, <1>4, <2>1, RetainActiveExpires DEF Sweep, Typing
  <2>3. /\ MapEvolves(identifier_rate_limit')
        /\ ClockedMap(identifier_rate_limit')
    BY <1>1, <2>1, <2>2, ExpiryEvolves
  <2>4. OwnersRemain /\ RequestsRemain
    BY <2>1 DEF OwnersRemain, RequestsRemain, Owns, TaskRuns, reqVars
  <2>5. OwnersHold' /\ Clocks'
    BY <1>1, <2>1, <2>3, <2>4, EvolveKeeps, ClocksKeep
  <2> QED BY <2>5 DEF ReservationInv, OwnersHold
<1>5. CASE Restart
  <2>1. \A r \in Requests : ~Owns(r)' /\ job'[r] = NoJob /\ handler'[r] = "idle"
    BY <1>5 DEF Restart, Owns, TaskRuns
  <2>2. Clocks'
    BY <1>1, <1>5, <2>1 DEF Restart, Clocks, EmptyMap, NoSweep, Typing
  <2> QED BY <2>1, <2>2 DEF ReservationInv, ReservationsDisjoint
<1>6. CASE Tick
  <2>1. /\ now' = now + 1 /\ now \in Nat
        /\ UNCHANGED <<identifier_rate_limit, reqVars, sweep_at>>
        /\ \A r \in Requests :
              handler[r] # "idle" => now < job[r].requested_at + RouteTimeout
    BY <1>1, <1>6 DEF Tick, Typing
  <2>2. Clocks'
    <3>1. sweep_at' <= now'
      BY <1>1, <2>1 DEF Clocks, Typing, NoSweep
    <3>2. ASSUME NEW r \in Requests
          PROVE  /\ job'[r] # NoJob => job'[r].requested_at <= now'
                 /\ handler'[r] # "idle" =>
                       now' <= job'[r].requested_at + RouteTimeout
      <4>1. job[r] # NoJob => job[r].requested_at \in Nat
        BY <1>1, JobType
      <4>2. handler[r] # "idle" => job[r] # NoJob
        BY DEF BaseInv, Phase, SlotFree
      <4>3. job' = job /\ handler' = handler
        BY <2>1 DEF reqVars
      <4> QED BY <1>1, <2>1, <4>1, <4>2, <4>3, TimeAssumption, TrafficAssumption DEF Clocks
    <3>3. ASSUME NEW i \in Identifiers, identifier_rate_limit'[i] # NoEntry
          PROVE  EntryClocks(identifier_rate_limit[i])'
      <4>1. /\ identifier_rate_limit'[i] = identifier_rate_limit[i]
            /\ identifier_rate_limit[i].window_started_at \in Nat
            /\ identifier_rate_limit[i].last_candidate_at \in Nat
        BY <1>1, <2>1, <3>3, EntryType DEF Typing
      <4>2. EntryClocks(identifier_rate_limit[i])
        BY <1>1, <3>3, <4>1 DEF Clocks, EntryClocks
      <4> QED BY <2>1, <4>1, <4>2 DEF EntryClocks
    <3> QED BY <3>1, <3>2, <3>3 DEF Clocks, EntryClocks
  <2>3. ASSUME NEW r \in Requests, Owns(r)'
        PROVE  Owns(r) /\ Holds(r)' /\ (Attached(r)' <=> Attached(r))
    <3>1. Owns(r) /\ Holds(r) /\ job' = job
      BY <1>1, <2>1, <2>3 DEF Owns, TaskRuns, OwnersHold, reqVars
    <3>2. job[r].generation \in Nat
      BY <1>1, <3>1, OwnerType
    <3>3. Attached(r)' <=> Attached(r)
      BY <2>1, <3>1 DEF Attached, SameWindow
    <3> QED BY <2>1, <3>1, <3>2, <3>3, TimeAssumption, TrafficAssumption DEF Holds
  <2>4. ReservationsDisjoint'
    BY <1>1, <2>1, <2>3 DEF OwnersHold, ReservationsDisjoint, SameReservation, reqVars
  <2> QED BY <2>2, <2>3, <2>4 DEF ReservationInv
<1> QED BY <1>2, <1>3, <1>4, <1>5, <1>6 DEF Next

-----------------------------------------------------------------------------
(* Theorems *)

\* Both invariants hold together.
LEMMA ReservationInvariant == Spec => [](BaseInv /\ ReservationInv)
<1>1. BaseInv /\ ReservationInv /\ [Next]_vars => (BaseInv /\ ReservationInv)'
  BY BaseStep, ReservationStep
<1> QED BY <1>1, BaseInit, ReservationInit, PTL DEF Spec

\* Whoever must settle a reservation finds it pending, or its window gone.
THEOREM OwnerHoldsPendingCorrect == Spec => []OwnerHoldsPending
<1>1. ReservationInv => OwnerHoldsPending
  BY DEF ReservationInv, Holds, OwnerHoldsPending
<1> QED BY <1>1, ReservationInvariant, PTL

\* No reservation has two owners, however late they are.
THEOREM ReservationsDisjointCorrect == Spec => []ReservationsDisjoint
<1>1. ReservationInv => ReservationsDisjoint
  BY DEF ReservationInv
<1> QED BY <1>1, ReservationInvariant, PTL

-----------------------------------------------------------------------------
(* No orphans, as long as the detached task does not panic *)

\* r is the owner of candidate c of identifier i in the window that is open.
OwnsHere(r, i, c) ==
    Owns(r) /\ Attached(r) /\ job[r].id = i /\ job[r].cand = c

IsPending(map, i, c) == map[i] # NoEntry /\ map[i].candidates[c] = "Pending"

\* What is pending after the step was pending before it, in the same window.
NothingReserved ==
    \A i \in Identifiers, c \in Candidates :
        IsPending(identifier_rate_limit', i, c) =>
            /\ IsPending(identifier_rate_limit, i, c)
            /\ identifier_rate_limit'[i].window_started_at =
                  identifier_rate_limit[i].window_started_at

\* No owner is lost, except for those in lost.
OwnersStay(lost) ==
    \A s \in Requests \ lost : Owns(s) => Owns(s)' /\ job'[s] = job[s]

\* Without a reservation, and with every owner still there, nothing is orphaned.
LEMMA StayKeepsOwners ==
    ASSUME NoOrphan, ~TaskMayPanic, NothingReserved, NEW lost \in SUBSET Requests,
           OwnersStay(lost),
           \A r \in lost, i \in Identifiers, c \in Candidates :
              OwnsHere(r, i, c) => ~IsPending(identifier_rate_limit', i, c)
    PROVE  NoOrphan'
<1> SUFFICES ASSUME NEW i \in Identifiers, NEW c \in Candidates,
                    IsPending(identifier_rate_limit', i, c)
             PROVE  \E r \in Requests : OwnsHere(r, i, c)'
  BY DEF NoOrphan, Known, IsPending, OwnsHere
<1>1. /\ IsPending(identifier_rate_limit, i, c)
      /\ identifier_rate_limit'[i].window_started_at =
            identifier_rate_limit[i].window_started_at
  BY DEF NothingReserved
<1>2. PICK r \in Requests : OwnsHere(r, i, c)
  BY <1>1 DEF NoOrphan, Known, IsPending, OwnsHere
<1>3. r \notin lost
  BY <1>2
<1>4. Owns(r)' /\ job'[r] = job[r]
  BY <1>2, <1>3 DEF OwnersStay, OwnsHere
<1>5. OwnsHere(r, i, c)'
  BY <1>1, <1>2, <1>4 DEF OwnsHere, Attached, SameWindow, IsPending
<1> QED BY <1>5

\* Expiry, and the counting of a request, reserve nothing.
LEMMA AdmissionReserves ==
    ASSUME Typing, NEW r \in Requests, job[r] # NoJob,
           NEW i \in Identifiers, NEW c \in Candidates,
           NEW map \in {Roomy(r), Counted(r)}, IsPending(map, i, c)
    PROVE  /\ IsPending(identifier_rate_limit, i, c)
           /\ map[i].window_started_at =
                 identifier_rate_limit[i].window_started_at
<1>1. ExpiresAt(identifier_rate_limit, Roomy(r), job[r].requested_at)
  BY AdmissionType
<1>2. /\ Roomy(r) \in IdentifierMap
      /\ Counted(r) = CountRequest(Roomy(r), job[r].id, job[r].requested_at)
      /\ job[r].id \in Identifiers /\ job[r].requested_at \in Nat
  BY AdmissionType, JobType DEF Counted
<1>3. IsPending(Roomy(r), i, c) =>
        /\ IsPending(identifier_rate_limit, i, c)
        /\ Roomy(r)[i] = identifier_rate_limit[i]
  BY <1>1 DEF ExpiresAt, IsPending
<1>4. ASSUME NEW mid \in IdentifierMap, NEW new, NEW j \in Identifiers,
             NEW t \in Nat, new = CountRequest(mid, j, t), IsPending(new, i, c)
      PROVE  /\ IsPending(mid, i, c)
             /\ new[i].window_started_at = mid[i].window_started_at
  <2>1. /\ \A k \in Identifiers \ {j} : new[k] = mid[k]
        /\ mid[j] # NoEntry =>
              /\ new[j].window_started_at = mid[j].window_started_at
              /\ new[j].candidates = mid[j].candidates
        /\ mid[j] = NoEntry => CandidatesOf(new[j]) = {}
    BY <1>4, CountRequestKeeps
  <2>2. CASE i # j
    BY <2>1, <2>2, <1>4 DEF IsPending
  <2>3. CASE i = j /\ mid[j] # NoEntry
    BY <2>1, <2>3, <1>4 DEF IsPending
  <2>4. CASE i = j /\ mid[j] = NoEntry
    BY <2>1, <2>4, <1>4 DEF IsPending, CandidatesOf
  <2> QED BY <2>2, <2>3, <2>4
<1>5. CASE map = Counted(r)
  BY <1>2, <1>3, <1>4, <1>5
<1> QED BY <1>3, <1>5

\* Settling a reservation reserves nothing, and leaves it not pending.
LEMMA SettleReserves ==
    ASSUME NEW j \in Identifiers, NEW d \in Candidates, NEW g,
           SettlesIn(identifier_rate_limit, identifier_rate_limit', j, d, g)
    PROVE  /\ NothingReserved
           /\ SameWindow(identifier_rate_limit, j, g) =>
                 ~IsPending(identifier_rate_limit', j, d)
<1>1. SameWindow(identifier_rate_limit, j, g) =>
        ~IsPending(identifier_rate_limit', j, d)
  BY DEF SettlesIn, Settles, IsPending
<1>2. ASSUME NEW i \in Identifiers, NEW c \in Candidates,
             IsPending(identifier_rate_limit', i, c)
      PROVE  /\ IsPending(identifier_rate_limit, i, c)
             /\ identifier_rate_limit'[i].window_started_at =
                   identifier_rate_limit[i].window_started_at
  <2>1. CASE identifier_rate_limit'[i] = identifier_rate_limit[i]
    BY <1>2, <2>1 DEF IsPending
  <2>2. CASE identifier_rate_limit'[i] # identifier_rate_limit[i]
    <3>1. i = j /\ SameWindow(identifier_rate_limit, j, g)
      BY <2>2 DEF SettlesIn
    <3>2. /\ Settles(identifier_rate_limit[j], identifier_rate_limit'[j], d)
          /\ identifier_rate_limit[j] # NoEntry
      BY <3>1 DEF SettlesIn, SameWindow
    <3> QED BY <1>1, <1>2, <3>1, <3>2 DEF Settles, IsPending
  <2> QED BY <2>1, <2>2
<1> QED BY <1>1, <1>2 DEF NothingReserved

\* A request that is freed is the only owner that may be lost.
LEMMA FreeStays ==
    ASSUME Typing, NEW r \in Requests, Free(r)
    PROVE  OwnersStay({r})
BY DEF Typing, Free, OwnersStay, Owns, TaskRuns

\* What is not an owner cannot be lost.
LEMMA LostNothing ==
    ASSUME NoOrphan, ~TaskMayPanic, NothingReserved,
           NEW r \in Requests, ~Owns(r), OwnersStay({r})
    PROVE  NoOrphan'
BY StayKeepsOwners DEF OwnsHere

\* A reservation is born with its owner.
LEMMA NewHasOwner ==
    ASSUME BaseInv, NoOrphan, ~TaskMayPanic,
           NEW r \in Requests, AdmitNew(r)
    PROVE  NoOrphan'
<1> DEFINE i == job[r].id
           c == job[r].cand
           t == job[r].requested_at
           mid == Counted(r)
           new == identifier_rate_limit'
           e == Reserve(mid[i], c, t)
<1>1. Typing /\ handler[r] = "requested" /\ job[r] # NoJob
  BY DEF BaseInv, Phase, SlotFree, AdmitNew, Admits
<1>2. /\ i \in Identifiers /\ c \in Candidates /\ t \in Nat
      /\ mid \in IdentifierMap /\ mid[i] \in RateLimitInfo
  BY <1>1, JobType, AdmissionType DEF OwnEntry
<1>3. /\ e \in RateLimitInfo
      /\ e.window_started_at = mid[i].window_started_at
      /\ e.candidates = [mid[i].candidates EXCEPT ![c] = "Pending"]
      /\ mid[i].candidates \in [Candidates -> CandidateState]
  <2>1. mid[i].candidates \in [Candidates -> CandidateState]
    BY <1>2 DEF RateLimitInfo
  <2> QED BY <1>2, <2>1, ReserveType
<1>4. new = [mid EXCEPT ![i] = e]
  BY DEF AdmitNew
<1>5. /\ \A s \in Requests \ {r} : Owns(s) => Owns(s)' /\ job'[s] = job[s]
      /\ job'[r] \in Job /\ job'[r].id = i /\ job'[r].cand = c
      /\ job'[r].generation = mid[i].window_started_at
      /\ Owns(r)'
  <2>1. /\ UNCHANGED <<task, deferred>>
        /\ handler' = [handler EXCEPT ![r] = "permit"]
        /\ job' = [job EXCEPT ![r].is_new = TRUE,
                              ![r].generation = mid[i].window_started_at]
    BY DEF AdmitNew, Proceed, OwnEntry
  <2>2. job[r] \in Job /\ mid[i].window_started_at \in Nat
    BY <1>1, <1>2, JobType DEF RateLimitInfo
  <2>3. job'[r] = [[job[r] EXCEPT !.is_new = TRUE]
                      EXCEPT !.generation = mid[i].window_started_at]
    BY <1>1, <2>1, Zenon DEF Typing
  <2>4. /\ job'[r] \in Job /\ job'[r].is_new
        /\ job'[r].id = job[r].id /\ job'[r].cand = job[r].cand
        /\ job'[r].generation = mid[i].window_started_at
    BY <2>2, <2>3 DEF Job
  <2>5. Owns(r)'
    BY <1>1, <2>1, <2>4, NoJobAssumption DEF Typing, Owns
  <2>6. \A s \in Requests \ {r} : Owns(s) => Owns(s)' /\ job'[s] = job[s]
    BY <1>1, <2>1 DEF Typing, Owns, TaskRuns
  <2> QED BY <2>4, <2>5, <2>6
<1> SUFFICES ASSUME NEW j \in Identifiers, NEW d \in Candidates,
                    IsPending(new, j, d)
             PROVE  \E s \in Requests : OwnsHere(s, j, d)'
  BY DEF NoOrphan, Known, IsPending, OwnsHere
<1>6. CASE j = i /\ d = c
  <2>1. new[i] = e /\ e # NoEntry
    <3> HIDE DEF mid, e, new, i, c, t
    <3> QED BY <1>2, <1>3, <1>4, NoEntryAssumption DEF IdentifierMap
  <2>2. OwnsHere(r, j, d)'
    BY <1>3, <1>5, <1>6, <2>1 DEF OwnsHere, Attached, SameWindow
  <2> QED BY <2>2
<1>7. CASE ~(j = i /\ d = c)
  <2>1. IsPending(mid, j, d) /\ new[j].window_started_at = mid[j].window_started_at
    <3>1. IsPending(new, j, d)
      OBVIOUS
    <3> HIDE DEF mid, e, new, i, c, t
    <3>2. CASE j # i
      BY <1>2, <1>4, <3>1, <3>2 DEF IsPending, IdentifierMap
    <3>3. CASE j = i /\ d # c
      <4>1. new[j] = e /\ mid[j] # NoEntry
        BY <1>2, <1>4, <3>3, NoEntryAssumption DEF IdentifierMap
      <4>2. e.candidates[d] = mid[i].candidates[d]
        BY <1>2, <1>3, <3>3
      <4> QED BY <1>3, <3>1, <3>3, <4>1, <4>2 DEF IsPending
    <3> QED BY <1>7, <3>2, <3>3
  <2>2. /\ IsPending(identifier_rate_limit, j, d)
        /\ mid[j].window_started_at = identifier_rate_limit[j].window_started_at
    BY <1>1, <2>1, AdmissionReserves
  <2>3. PICK s \in Requests : OwnsHere(s, j, d)
    BY <2>2 DEF NoOrphan, Known, IsPending, OwnsHere
  <2>4. s # r
    BY <1>1, <2>3 DEF OwnsHere, Owns, BaseInv, Phase
  <2>5. OwnsHere(s, j, d)'
    BY <1>5, <2>1, <2>2, <2>3, <2>4 DEF OwnsHere, Attached, SameWindow, IsPending
  <2> QED BY <2>5
<1> QED BY <1>6, <1>7

\* Settling its own reservation is how an owner may go.
LEMMA SettleKeepsOwners ==
    ASSUME Typing, OwnersHold, NoOrphan, ~TaskMayPanic,
           NEW r \in Requests, Owns(r), OwnersStay({r}),
           SettlesIn(identifier_rate_limit, identifier_rate_limit',
                     job[r].id, job[r].cand, job[r].generation)
    PROVE  NoOrphan'
<1>1. job[r].id \in Identifiers /\ job[r].cand \in Candidates
  BY OwnerType
<1>2. /\ NothingReserved
      /\ Attached(r) =>
            ~IsPending(identifier_rate_limit', job[r].id, job[r].cand)
  BY <1>1, SettleReserves DEF Attached
<1> QED BY <1>2, StayKeepsOwners DEF OwnsHere

\* Every step of a request keeps an owner for what is pending.
LEMMA OrphanRequest ==
    ASSUME BaseInv, ReservationInv, NoOrphan, ~TaskMayPanic,
           NEW r \in Requests, RequestStep(r)
    PROVE  NoOrphan'
<1>1. /\ Typing /\ OwnersHold
      /\ \A s \in Requests : Phase(s)
  BY DEF BaseInv, ReservationInv, OwnersHold
<1>2. UNCHANGED identifier_rate_limit => NothingReserved
  BY DEF NothingReserved, IsPending
<1>3. CASE Receive(r)
  <2>1. UNCHANGED identifier_rate_limit /\ ~Owns(r) /\ OwnersStay({r})
    <3>1. PICK new : job' = [job EXCEPT ![r] = new]
      BY <1>3 DEF Receive
    <3> QED BY <1>1, <1>3, <3>1
            DEF Receive, SlotFree, Typing, OwnersStay, Owns, TaskRuns
  <2> QED BY <1>2, <2>1, LostNothing
<1>4. CASE AdmitFull(r) \/ AdmitLimited(r) \/ AdmitPending(r) \/ AdmitReplay(r)
  <2>1. job[r] # NoJob /\ ~Owns(r)
    BY <1>1, <1>4 DEF AdmitFull, AdmitLimited, AdmitPending, AdmitReplay,
                      Admits, Phase, SlotFree, Owns
  <2>2. NothingReserved
    <3>1. identifier_rate_limit' \in {Roomy(r), Counted(r)}
      BY <1>4 DEF AdmitFull, AdmitLimited, AdmitPending, AdmitReplay
    <3> QED BY <1>1, <2>1, <3>1, AdmissionReserves DEF NothingReserved
  <2>3. OwnersStay({r})
    <3>1. CASE AdmitReplay(r)
      <4>1. \A s \in Requests \ {r} :
                job'[s] = job[s] /\ handler'[s] = handler[s]
        BY <1>1, <3>1 DEF AdmitReplay, Proceed, Typing
      <4> QED BY <3>1, <4>1 DEF AdmitReplay, Proceed, OwnersStay, Owns, TaskRuns
    <3>2. CASE AdmitFull(r) \/ AdmitLimited(r) \/ AdmitPending(r)
      BY <1>1, <3>2, FreeStays DEF AdmitFull, AdmitLimited, AdmitPending
    <3> QED BY <1>4, <3>1, <3>2
  <2> QED BY <2>1, <2>2, <2>3, LostNothing
<1>5. CASE AdmitNew(r)
  BY <1>5, NewHasOwner
<1>6. CASE PermitTimeoutReplay(r) \/ Respond(r)
  <2>1. UNCHANGED identifier_rate_limit /\ ~Owns(r)
    BY <1>1, <1>6 DEF PermitTimeoutReplay, Respond, Owns, TaskRuns, Phase
  <2> QED BY <1>1, <1>2, <1>6, <2>1, FreeStays, LostNothing
          DEF PermitTimeoutReplay, Respond
<1>7. CASE Refund(r) \/ CancelRemoves(r) \/ DeferredRemoval(r)
  <2>1. Owns(r) /\ RemovePending(r) /\ Free(r)
    BY <1>1, <1>7 DEF Refund, CancelRemoves, DeferredRemoval, GuardArmed, Owns,
                      Phase, SlotFree
  <2> QED BY <1>1, <2>1, FreeStays, OwnRemovalSettles, SettleKeepsOwners
<1>8. CASE AcquirePermit(r) \/ PermitTimeout(r) \/ Database(r) \/ CancelDefers(r)
  <2>1. UNCHANGED <<identifier_rate_limit, job>>
    BY <1>8 DEF AcquirePermit, PermitTimeout, Database, CancelDefers
  <2>2. OwnersStay({})
    BY <1>1, <1>8 DEF AcquirePermit, PermitTimeout, Database, CancelDefers,
                      GuardArmed, Typing, Phase, OwnersStay, Owns, TaskRuns
  <2> QED BY <1>2, <2>1, <2>2, StayKeepsOwners
<1>9. CASE Finalize(r)
  <2>1. /\ task[r] = "finalizing" /\ job[r] # NoJob /\ result[r] \in Results
        /\ TaskEnds(r, "finished")
    BY <1>1, <1>9 DEF Finalize, Phase, SlotFree
  <2>2. OwnersStay({r})
    <3>1. CASE handler[r] = "task"
      BY <1>1, <2>1, <3>1 DEF TaskEnds, Typing, OwnersStay, Owns, TaskRuns
    <3>2. CASE handler[r] # "task"
      BY <1>1, <2>1, <3>2, FreeStays DEF TaskEnds
    <3> QED BY <3>1, <3>2
  <2>3. CASE job[r].is_new
    <3>1. Owns(r)
      BY <2>1, <2>3 DEF Owns, TaskRuns
    <3>2. SettlesIn(identifier_rate_limit, identifier_rate_limit',
                    job[r].id, job[r].cand, job[r].generation)
      BY <1>1, <1>9, <2>1, <2>3, <3>1, OwnRemovalSettles DEF Finalize
    <3> QED BY <1>1, <2>2, <3>1, <3>2, SettleKeepsOwners
  <2>4. CASE ~job[r].is_new
    <3>1. UNCHANGED identifier_rate_limit /\ ~Owns(r)
      BY <1>9, <2>4 DEF Finalize, Owns
    <3> QED BY <1>2, <2>2, <3>1, LostNothing
  <2> QED BY <2>3, <2>4
<1>10. CASE TaskPanics(r) \/ SeePanic(r) \/ Cleanup(r)
  BY <1>1, <1>10 DEF TaskPanics, SeePanic, Cleanup, Phase
<1>11. CASE CancelUnguarded(r)
  <2>1. CASE TaskRuns(r)
    <3>1. /\ handler' = [handler EXCEPT ![r] = "idle"]
          /\ UNCHANGED <<identifier_rate_limit, job, task, deferred>>
      BY <1>11, <2>1 DEF CancelUnguarded
    <3>2. OwnersStay({})
      BY <1>1, <2>1, <3>1 DEF Typing, OwnersStay, Owns, TaskRuns
    <3> QED BY <1>2, <3>1, <3>2, StayKeepsOwners
  <2>2. CASE ~TaskRuns(r)
    <3>1. UNCHANGED identifier_rate_limit /\ Free(r)
      BY <1>11, <2>2 DEF CancelUnguarded
    <3>2. ~Owns(r)
      BY <1>1, <1>11, <2>2 DEF CancelUnguarded, GuardArmed, Owns, Phase
    <3> QED BY <1>1, <1>2, <3>1, <3>2, FreeStays, LostNothing
  <2> QED BY <2>1, <2>2
<1> QED
  BY <1>3, <1>4, <1>5, <1>6, <1>7, <1>8, <1>9, <1>10, <1>11
     DEF RequestStep, Admission, PermitStep, TaskStep, HandlerEnds, Cancel

\* So does every step of the server.
LEMMA OrphanStep ==
    BaseInv /\ ReservationInv /\ NoOrphan /\ [Next]_vars => NoOrphan'
<1> SUFFICES ASSUME BaseInv, ReservationInv, NoOrphan, ~TaskMayPanic, [Next]_vars
             PROVE  NoOrphan'
  BY DEF NoOrphan
<1>1. CASE \E r \in Requests : RequestStep(r)
  BY <1>1, OrphanRequest
<1>2. CASE \/ \E i \in Identifiers, c \in Candidates : Write(i, c)
           \/ SweepStamp
           \/ Tick
           \/ UNCHANGED vars
  <2>1. UNCHANGED <<identifier_rate_limit, reqVars>>
    BY <1>2 DEF Write, SweepStamp, Tick, vars
  <2>2. NothingReserved /\ OwnersStay({})
    BY <2>1 DEF NothingReserved, IsPending, OwnersStay, Owns, TaskRuns, reqVars
  <2> QED BY <2>2, StayKeepsOwners
<1>3. CASE Sweep
  <2>1. ExpiresAt(identifier_rate_limit, identifier_rate_limit', sweep_at)
    BY <1>3, RetainActiveExpires DEF Sweep, BaseInv, Typing
  <2>2. NothingReserved
    BY <2>1 DEF ExpiresAt, NothingReserved, IsPending
  <2>3. OwnersStay({})
    BY <1>3 DEF Sweep, OwnersStay, Owns, TaskRuns, reqVars
  <2> QED BY <2>2, <2>3, StayKeepsOwners
<1>4. CASE Restart
  BY <1>4 DEF Restart, NoOrphan, Known, EmptyMap
<1> QED BY <1>1, <1>2, <1>3, <1>4 DEF Next

\* Unless a task panics, whatever is pending has someone who will settle it.
THEOREM NoOrphanCorrect == Spec => []NoOrphan
<1>1. Init => NoOrphan
  BY DEF Init, NoOrphan, Known, EmptyMap
<1>2. BaseInv /\ ReservationInv /\ NoOrphan /\ [Next]_vars => NoOrphan'
  BY OrphanStep
<1> QED BY <1>1, <1>2, ReservationInvariant, PTL DEF Spec

=============================================================================
