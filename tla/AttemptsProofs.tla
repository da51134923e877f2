---------------------------- MODULE AttemptsProofs ----------------------------
(***************************************************************************)
(* Snapshots of the map and their readers, for every number of polls and   *)
(* every TTL, route timeout and unit of max-age.                           *)
(*                                                                         *)
(* To the map a build is one more sweep, so the invariant of its traffic   *)
(* holds (RateLimitMapProofs).  Of polls, OneBuilder says that the lock of *)
(* the cache excludes; PollOK, that a poll is no older than the route      *)
(* timeout and that what it builds was begun after it came and a TTL after *)
(* the cached snapshot was ready.  What is cached was built by such a      *)
(* poll (CachedOK), and a copy of it is fresh for the TTL that is left and *)
(* less than a second more (CopiedOK).                                     *)
(***************************************************************************)
EXTENDS Attempts, RateLimitMapProofs

-----------------------------------------------------------------------------
(* The inductive invariant *)

SnapshotOrNone == Snapshot \cup {NoSnapshot}

Building(p) == handler[p] \in {"map", "build"}

\* The variables of the polls have their types.
Slots ==
    /\ handler \in [Polls -> {"idle", "cache", "map", "build"}]
    /\ arrived_at \in [Polls -> Nat]
    /\ closure \in [Polls -> {"none", "running", "done", "failed"}]
    /\ built \in [Polls -> SnapshotOrNone]
    /\ \A p \in Polls :
          /\ Building(p) <=> built[p] # NoSnapshot
          /\ handler[p] = "build" => closure[p] # "none"
          /\ closure[p] \in {"done", "failed"} => handler[p] = "build"

\* Entries of a snapshot add up, and had not expired when it was taken.
Sound(entries, stamp) ==
    \A i \in Known(entries) :
        LET entry == entries[i]
        IN  /\ entry.total_attempts \in 1..MaxAttempts
            /\ entry.failed_attempts <= entry.total_attempts
            /\ entry.total_attempts <= entry.total_requests
            /\ stamp <= entry.last_candidate_at + Cooldown

OneBuilder == \A p, q \in Polls : Building(p) /\ Building(q) => p = q

\* What a poll builds was begun after it came, and when the cache was stale.
BuildOK(p) ==
    /\ Sound(built[p].entries, built[p].stamp)
    /\ arrived_at[p] <= built[p].stamp
    /\ built[p].stamp <= built[p].created_at
    /\ built[p].created_at <= now
    /\ attempts_snapshot # NoSnapshot =>
          attempts_snapshot.created_at + SnapshotTtl <= built[p].stamp

PollOK(p) ==
    /\ handler[p] # "idle" =>
          arrived_at[p] <= now /\ now <= arrived_at[p] + RouteTimeout
    /\ Building(p) => BuildOK(p)

CachedOK ==
    attempts_snapshot # NoSnapshot =>
        /\ Sound(attempts_snapshot.entries, attempts_snapshot.stamp)
        /\ attempts_snapshot.created_at <= attempts_snapshot.stamp + RouteTimeout

CopiedOK ==
    proxy # NoSnapshot =>
        /\ Sound(proxy.snapshot.entries, proxy.snapshot.stamp)
        /\ proxy.fresh_until <= proxy.snapshot.stamp + ReaderLag

Caches ==
    /\ attempts_snapshot \in SnapshotOrNone /\ CachedOK
    /\ proxy \in Copy \cup {NoSnapshot} /\ CopiedOK

AttemptsInv ==
    /\ TrafficInv
    /\ Slots
    /\ OneBuilder
    /\ \A p \in Polls : PollOK(p)
    /\ Caches

-----------------------------------------------------------------------------
(* Numbers *)

\* Whole units are no more than what is divided.
LEMMA WholeUnits ==
    ASSUME NEW n \in Nat, NEW unit \in Nat \ {0}
    PROVE  /\ n \div unit \in Nat
           /\ (n \div unit) * unit \in Nat
           /\ (n \div unit) * unit <= n
OBVIOUS

\* A copy stays fresh for less than a second beyond the TTL, or for a second.
LEMMA FreshFor ==
    ASSUME NEW t \in Nat, NEW snapshot \in Snapshot, now = t,
           NEW fresh, fresh = now + remaining_max_age(snapshot) * Second
    PROVE  /\ fresh \in Nat
           /\ \/ fresh <= now + Second
              \/ fresh <= snapshot.created_at + SnapshotTtl + Second
<1> DEFINE due == snapshot.created_at + SnapshotTtl
           seconds == SecondsUp(due - now)
<1>1. due \in Nat /\ Second \in Nat \ {0}
  BY AttemptsAssumption DEF Snapshot
<1> HIDE DEF due
<1>2. CASE now < due
  <2>1. (due - now) + Second - 1 \in Nat
    BY <1>1, <1>2
  <2>2. /\ seconds \in Nat
        /\ seconds * Second \in Nat
        /\ seconds * Second <= (due - now) + Second - 1
    BY <1>1, <2>1, WholeUnits DEF SecondsUp
  <2>3. remaining_max_age(snapshot) = IF seconds = 0 THEN 1 ELSE seconds
    BY <1>2 DEF remaining_max_age, due
  <2> HIDE DEF seconds
  <2>4. CASE seconds = 0
    BY <1>1, <2>3, <2>4
  <2>5. CASE seconds # 0
    <3> DEFINE length == seconds * Second
    <3>1. fresh = now + length
      BY <2>3, <2>5
    <3>2. length \in Nat /\ length <= (due - now) + Second - 1
      BY <2>2
    <3> HIDE DEF length
    <3>3. fresh <= due + Second
      BY <1>1, <3>1, <3>2
    <3> QED BY <3>1, <3>2, <3>3 DEF due
  <2> QED BY <2>4, <2>5
<1>3. CASE ~(now < due)
  <2>1. remaining_max_age(snapshot) = 1
    BY <1>3 DEF remaining_max_age, due
  <2> QED BY <1>1, <2>1
<1> QED BY <1>2, <1>3

\* What is served is fresh for the proxy no longer than ReaderLag, if it is
\* served before its TTL is over, or within a route timeout of its stamp.
LEMMA AnswerFresh ==
    ASSUME NEW snapshot \in Snapshot, now \in Nat, Caches, Answer(snapshot),
           Sound(snapshot.entries, snapshot.stamp),
           snapshot.created_at <= snapshot.stamp + RouteTimeout,
           \/ now < snapshot.created_at + SnapshotTtl
           \/ now <= snapshot.stamp + RouteTimeout
    PROVE  proxy' \in Copy \cup {NoSnapshot} /\ CopiedOK'
<1> DEFINE fresh == now + remaining_max_age(snapshot) * Second
<1>1. /\ fresh \in Nat
      /\ \/ fresh <= now + Second
         \/ fresh <= snapshot.created_at + SnapshotTtl + Second
  BY FreshFor
<1>2. CASE UNCHANGED proxy
  BY <1>2 DEF Caches, CopiedOK
<1>3. CASE proxy' = [snapshot |-> snapshot, fresh_until |-> fresh]
  <2> HIDE DEF fresh
  <2>1. /\ proxy'.snapshot = snapshot /\ proxy'.fresh_until = fresh
        /\ proxy' \in Copy
    BY <1>1, <1>3 DEF Copy
  <2>2. /\ snapshot.created_at \in Nat /\ snapshot.stamp \in Nat
        /\ RouteTimeout \in Nat /\ SnapshotTtl \in Nat /\ Second \in Nat
    BY TrafficAssumption, AttemptsAssumption DEF Snapshot
  <2>3. fresh <= snapshot.stamp + ReaderLag
    BY <1>1, <2>2 DEF ReaderLag
  <2>4. CopiedOK'
    BY <2>1, <2>3 DEF CopiedOK
  <2> QED BY <2>1, <2>4
<1> QED BY <1>2, <1>3 DEF Answer

-----------------------------------------------------------------------------
(* Slots and the lock of the cache *)

\* Poll p moves to these values, and no other poll moves.
Moved(p, h, a, c, b) ==
    /\ handler' = [handler EXCEPT ![p] = h]
    /\ arrived_at' = [arrived_at EXCEPT ![p] = a]
    /\ closure' = [closure EXCEPT ![p] = c]
    /\ built' = [built EXCEPT ![p] = b]

\* What a slot may hold.
Slot(h, a, c, b) ==
    /\ h \in {"idle", "cache", "map", "build"}
    /\ a \in Nat
    /\ c \in {"none", "running", "done", "failed"}
    /\ b \in SnapshotOrNone
    /\ h \in {"map", "build"} <=> b # NoSnapshot
    /\ h = "build" => c # "none"
    /\ c \in {"done", "failed"} => h = "build"

\* The values of each slot go together.
LEMMA SlotTypes ==
    ASSUME Slots, NEW p \in Polls
    PROVE  /\ Slot(handler[p], arrived_at[p], closure[p], built[p])
           /\ Building(p) =>
                 /\ built[p] \in Snapshot
                 /\ built[p].stamp \in Nat /\ built[p].created_at \in Nat
                 /\ built[p].entries \in [Identifiers -> AttemptEntry \cup {NoEntry}]
<1>1. Slot(handler[p], arrived_at[p], closure[p], built[p])
  BY DEF Slots, Slot, Building
<1>2. Building(p) => built[p] \in Snapshot
  BY <1>1 DEF Slot, Building, SnapshotOrNone
<1> QED BY <1>1, <1>2 DEF Snapshot

\* A poll that moves within the types keeps those of all slots.
LEMMA MoveTypes ==
    ASSUME Slots, NEW p \in Polls, NEW h, NEW a, NEW c, NEW b,
           Slot(h, a, c, b), Moved(p, h, a, c, b)
    PROVE  /\ Slots'
           /\ handler'[p] = h /\ arrived_at'[p] = a
           /\ closure'[p] = c /\ built'[p] = b
           /\ \A q \in Polls \ {p} :
                 /\ handler'[q] = handler[q] /\ arrived_at'[q] = arrived_at[q]
                 /\ closure'[q] = closure[q] /\ built'[q] = built[q]
<1>1. /\ handler'[p] = h /\ arrived_at'[p] = a
      /\ closure'[p] = c /\ built'[p] = b
  BY DEF Slots, Moved
<1>2. \A q \in Polls \ {p} :
         /\ handler'[q] = handler[q] /\ arrived_at'[q] = arrived_at[q]
         /\ closure'[q] = closure[q] /\ built'[q] = built[q]
  BY DEF Slots, Moved
<1>3. /\ handler' \in [Polls -> {"idle", "cache", "map", "build"}]
      /\ arrived_at' \in [Polls -> Nat]
      /\ closure' \in [Polls -> {"none", "running", "done", "failed"}]
      /\ built' \in [Polls -> SnapshotOrNone]
  BY DEF Slots, Slot, Moved
<1>4. ASSUME NEW q \in Polls
      PROVE  /\ Building(q)' <=> built'[q] # NoSnapshot
             /\ handler'[q] = "build" => closure'[q] # "none"
             /\ closure'[q] \in {"done", "failed"} => handler'[q] = "build"
  <2>1. CASE q = p
    BY <1>1, <2>1 DEF Slot, Building
  <2>2. CASE q # p
    BY <1>2, <2>2 DEF Slots, Building
  <2> QED BY <2>1, <2>2
<1> QED BY <1>1, <1>2, <1>3, <1>4 DEF Slots

\* A poll begins to build when the lock of the cache is free, and publishes
\* when it has it: whatever another poll builds is still as it was.
LEMMA MoveKeeps ==
    ASSUME AttemptsInv, NEW p \in Polls, NEW h, NEW a, NEW c, NEW b,
           Slot(h, a, c, b), Moved(p, h, a, c, b), now' = now,
           h \in {"map", "build"} => Building(p) \/ ~CacheHeld,
           attempts_snapshot' # attempts_snapshot => Building(p),
           PollOK(p)'
    PROVE  Slots' /\ OneBuilder' /\ (\A q \in Polls : PollOK(q)')
<1>1. Slots /\ OneBuilder /\ (\A q \in Polls : PollOK(q))
  BY DEF AttemptsInv
<1>2. /\ Slots'
      /\ handler'[p] = h
      /\ \A q \in Polls \ {p} :
            /\ handler'[q] = handler[q] /\ arrived_at'[q] = arrived_at[q]
            /\ built'[q] = built[q]
  BY <1>1, MoveTypes
<1>3. \A q \in Polls \ {p} : Building(q)' <=> Building(q)
  BY <1>2 DEF Building
<1>4. OneBuilder'
  <2> SUFFICES ASSUME NEW q \in Polls, NEW r \in Polls,
                      Building(q)', Building(r)', q # r
               PROVE  FALSE
    BY DEF OneBuilder
  <2>1. ASSUME NEW x \in Polls \ {p}, Building(p)', Building(x)'
        PROVE  FALSE
    <3>1. Building(x) /\ h \in {"map", "build"}
      BY <1>2, <1>3, <2>1 DEF Building
    <3>2. CacheHeld
      BY <3>1 DEF CacheHeld, Building
    <3> QED BY <1>1, <3>1, <3>2 DEF OneBuilder
  <2>2. CASE q = p
    BY <2>1, <2>2
  <2>3. CASE r = p
    BY <2>1, <2>3
  <2>4. CASE q # p /\ r # p
    BY <1>1, <1>3, <2>4 DEF OneBuilder
  <2> QED BY <2>2, <2>3, <2>4
<1>5. ASSUME NEW q \in Polls \ {p} PROVE PollOK(q)'
  <2>1. PollOK(q)
    BY <1>1
  <2>2. handler'[q] # "idle" =>
           arrived_at'[q] <= now' /\ now' <= arrived_at'[q] + RouteTimeout
    BY <1>2, <2>1 DEF PollOK
  <2>3. ASSUME Building(q)' PROVE BuildOK(q)'
    <3>1. Building(q) /\ ~Building(p)
      BY <1>1, <1>3, <2>3 DEF OneBuilder
    <3>2. attempts_snapshot' = attempts_snapshot
      BY <3>1
    <3>3. BuildOK(q)
      BY <2>1, <3>1 DEF PollOK
    <3> QED BY <1>2, <3>2, <3>3 DEF BuildOK
  <2> QED BY <2>2, <2>3 DEF PollOK
<1> QED BY <1>2, <1>4, <1>5

\* A step that leaves the map alone, or sweeps it, is one of the traffic.
LEMMA MapStays ==
    ASSUME AttemptsInv,
           \/ UNCHANGED mapVars
           \/ SweepMap /\ UNCHANGED now
    PROVE  TrafficInv'
BY TrafficStep DEF AttemptsInv, MapNext, MapStep

\* The caches stay as they are.
LEMMA CachesStay ==
    ASSUME Caches, UNCHANGED <<attempts_snapshot, proxy>>
    PROVE  Caches'
BY DEF Caches, CachedOK, CopiedOK

\* A poll that is over, or waits for the lock, builds nothing; a poll that is
\* over may leave its closure to go on alone.
LEMMA PollLetsGo ==
    ASSUME AttemptsInv, NEW p \in Polls, UNCHANGED <<mapVars, attempts_snapshot, proxy>>,
           NEW c \in {"none", "running"},
           \/ Moved(p, "idle", 0, c, NoSnapshot)
           \/ Moved(p, "cache", now, c, NoSnapshot)
    PROVE  AttemptsInv'
<1>1. Slots /\ Caches /\ now \in Nat /\ RouteTimeout \in Nat
  BY TrafficAssumption DEF AttemptsInv, TrafficInv, MapTyping
<1>2. now' = now
  BY DEF mapVars
<1>3. PICK h \in {"idle", "cache"}, a \in {0, now} :
         /\ Moved(p, h, a, c, NoSnapshot)
         /\ h = "cache" => a = now
  OBVIOUS
<1>4. Slot(h, a, c, NoSnapshot)
  BY <1>1, <1>3 DEF Slot, SnapshotOrNone
<1>5. PollOK(p)'
  <2>1. handler'[p] = h /\ arrived_at'[p] = a
    BY <1>1, <1>3, <1>4, MoveTypes
  <2> QED BY <1>1, <1>2, <1>3, <2>1 DEF PollOK, Building
<1>6. Slots' /\ OneBuilder' /\ (\A q \in Polls : PollOK(q)')
  BY <1>2, <1>3, <1>4, <1>5, MoveKeeps
<1>7. TrafficInv' /\ Caches'
  BY <1>1, MapStays, CachesStay
<1> QED BY <1>6, <1>7 DEF AttemptsInv

-----------------------------------------------------------------------------
(* Steps of a poll *)

\* A poll arrives.
LEMMA PollStep ==
    ASSUME AttemptsInv, NEW p \in Polls, Poll(p)
    PROVE  AttemptsInv'
<1>1. Slots /\ SlotFree(p) /\ now \in Nat
  BY DEF AttemptsInv, Poll, TrafficInv, MapTyping
<1>2. closure[p] = "none" /\ built[p] = NoSnapshot
  BY <1>1 DEF Slots, SlotFree, Building
<1>3. Moved(p, "cache", now, "none", NoSnapshot)
  BY <1>1, <1>2 DEF Poll, Moved, Slots
<1> QED BY <1>3, PollLetsGo DEF Poll

\* A snapshot that is served has not reached its TTL.
LEMMA ServeStep ==
    ASSUME AttemptsInv, NEW p \in Polls, Serve(p)
    PROVE  AttemptsInv'
<1>1. /\ Slots /\ Caches /\ now \in Nat
      /\ ~Stale /\ Answer(attempts_snapshot) /\ Free(p)
      /\ UNCHANGED <<mapVars, attempts_snapshot>>
  BY DEF AttemptsInv, Serve, TrafficInv, MapTyping
<1>2. /\ attempts_snapshot \in Snapshot
      /\ now < attempts_snapshot.created_at + SnapshotTtl
  <2>1. attempts_snapshot # NoSnapshot
        /\ ~(now >= attempts_snapshot.created_at + SnapshotTtl)
    BY <1>1 DEF Stale
  <2>2. attempts_snapshot \in Snapshot
    BY <1>1, <2>1 DEF Caches, SnapshotOrNone
  <2> QED BY <1>1, <2>1, <2>2, AttemptsAssumption DEF Snapshot
<1>3. attempts_snapshot # NoSnapshot
  BY <1>2, NoSnapshotAssumption
<1>4. proxy' \in Copy \cup {NoSnapshot} /\ CopiedOK'
  BY <1>1, <1>2, <1>3, AnswerFresh DEF Caches, CachedOK
<1>5. Caches'
  BY <1>1, <1>4 DEF Caches, CachedOK
<1>6. Slot("idle", 0, "none", NoSnapshot) /\ Moved(p, "idle", 0, "none", NoSnapshot)
  BY <1>1 DEF Slot, SnapshotOrNone, Moved, Free
<1>7. PollOK(p)'
  <2>1. handler'[p] = "idle"
    BY <1>1, <1>6, MoveTypes
  <2> QED BY <2>1 DEF PollOK, Building
<1>8. Slots' /\ OneBuilder' /\ (\A q \in Polls : PollOK(q)')
  BY <1>1, <1>6, <1>7, MoveKeeps DEF mapVars
<1>9. TrafficInv'
  BY <1>1, MapStays
<1> QED BY <1>5, <1>8, <1>9 DEF AttemptsInv

\* A build begins when no other poll builds, and the cached snapshot is a TTL
\* old.
LEMMA StartBuildStep ==
    ASSUME AttemptsInv, NEW p \in Polls, StartBuild(p)
    PROVE  AttemptsInv'
<1> DEFINE new == [entries |-> EmptyMap, stamp |-> now, created_at |-> now]
<1>1. /\ Slots /\ Caches /\ PollOK(p) /\ now \in Nat
      /\ handler[p] = "cache" /\ ~CacheHeld /\ Stale
      /\ UNCHANGED <<mapVars, attempts_snapshot, proxy>>
  BY DEF AttemptsInv, StartBuild, TrafficInv, MapTyping
<1>2. Moved(p, "map", arrived_at[p], closure[p], new)
  BY <1>1 DEF StartBuild, Moved, Slots
<1>3. /\ new \in Snapshot /\ new.entries = EmptyMap
      /\ new.stamp = now /\ new.created_at = now
  BY <1>1 DEF Snapshot, EmptyMap
<1> HIDE DEF new
<1>4. Slot("map", arrived_at[p], closure[p], new)
  BY <1>1, <1>3, SlotTypes, NoSnapshotAssumption DEF Slot, SnapshotOrNone
<1>5. PollOK(p)'
  <2>1. handler'[p] = "map" /\ arrived_at'[p] = arrived_at[p] /\ built'[p] = new
    BY <1>1, <1>2, <1>4, MoveTypes
  <2>2. arrived_at[p] <= now /\ now <= arrived_at[p] + RouteTimeout
    BY <1>1 DEF PollOK
  <2>3. Sound(EmptyMap, now)
    BY DEF Sound, Known, EmptyMap
  <2>4. attempts_snapshot # NoSnapshot =>
           attempts_snapshot.created_at + SnapshotTtl <= now
    <3>1. attempts_snapshot # NoSnapshot =>
             /\ attempts_snapshot.created_at \in Nat
             /\ now >= attempts_snapshot.created_at + SnapshotTtl
      BY <1>1 DEF Stale, Caches, SnapshotOrNone, Snapshot
    <3> QED BY <1>1, <3>1, AttemptsAssumption
  <2>5. now' = now /\ attempts_snapshot' = attempts_snapshot
    BY <1>1 DEF mapVars
  <2>6. BuildOK(p)'
    BY <1>1, <1>3, <2>1, <2>2, <2>3, <2>4, <2>5 DEF BuildOK
  <2> QED BY <2>1, <2>2, <2>5, <2>6 DEF PollOK
<1>6. Slots' /\ OneBuilder' /\ (\A q \in Polls : PollOK(q)')
  BY <1>1, <1>2, <1>4, <1>5, MoveKeeps DEF mapVars
<1>7. TrafficInv' /\ Caches'
  BY <1>1, MapStays, CachesStay
<1> QED BY <1>6, <1>7 DEF AttemptsInv

\* A published entry is one of the map: it adds up as that does.
LEMMA PublishedSound ==
    ASSUME NEW info \in RateLimitInfo, Counts(info), WithinBudget(info)
    PROVE  /\ Published(info) \in AttemptEntry
           /\ Published(info).total_attempts \in 1..MaxAttempts
           /\ Published(info).failed_attempts <= Published(info).total_attempts
           /\ Published(info).total_attempts <= Published(info).total_requests
           /\ Published(info).last_candidate_at = info.last_candidate_at
<1> DEFINE n == candidate_count(info)
<1>1. n \in Nat /\ n # 0 /\ n <= MaxAttempts /\ n <= info.total_requests
  BY Countable, FS_EmptySet DEF WithinBudget, candidate_count
<1>2. info.failed_candidates <= n
  <2>1. CommittedOf(info) \in SUBSET CandidatesOf(info)
    BY DEF CommittedOf, CandidatesOf
  <2>2. Cardinality(CommittedOf(info)) <= n
    BY <2>1, Countable, FS_Subset DEF candidate_count
  <2>3. info.failed_candidates \in Nat /\ Cardinality(CommittedOf(info)) \in Nat
    BY CommittedCountable DEF RateLimitInfo
  <2> HIDE DEF n
  <2> QED BY <1>1, <2>2, <2>3 DEF Counts
<1>3. /\ truncate_to_hour(info.window_started_at) \in Nat
      /\ truncate_to_hour(info.last_request_at) \in Nat
  BY WholeUnits, AttemptsAssumption DEF truncate_to_hour, RateLimitInfo
<1> HIDE DEF n
<1>4. /\ Published(info).total_attempts = n
      /\ Published(info).failed_attempts = info.failed_candidates
      /\ Published(info).total_requests = info.total_requests
      /\ Published(info).last_candidate_at = info.last_candidate_at
  BY DEF Published, n
<1>5. Published(info) \in AttemptEntry
  BY <1>1, <1>3 DEF Published, AttemptEntry, RateLimitInfo, n
<1>6. n \in 1..MaxAttempts
  BY <1>1, MapAssumption DEF U8Max
<1> QED BY <1>1, <1>2, <1>4, <1>5, <1>6

\* The copy of the purged map is typed and sound.
LEMMA CopySound ==
    ASSUME TrafficInv, NEW t \in Nat,
           NEW entries,
           entries = [i \in Identifiers |->
                         IF Listed(identifier_rate_limit, t)[i] = NoEntry THEN NoEntry
                         ELSE Published(Listed(identifier_rate_limit, t)[i])]
    PROVE  /\ entries \in [Identifiers -> AttemptEntry \cup {NoEntry}]
           /\ Sound(entries, t)
<1> DEFINE map == identifier_rate_limit
           listed == Listed(map, t)
<1>1. \A i \in Identifiers : listed[i] # NoEntry =>
         listed[i] = map[i] /\ map[i] # NoEntry /\ ~Expired(map[i], t)
  BY DEF Listed, RetainActive
<1>2. \A i \in Identifiers :
         entries[i] = IF listed[i] = NoEntry THEN NoEntry ELSE Published(listed[i])
  OBVIOUS
<1>3. map \in IdentifierMap /\ WithinLimits(map)
      /\ \A i \in Known(map) : Counts(map[i])
  BY DEF TrafficInv, MapTyping, MapCounts, LimitsHold
<1> HIDE DEF map, listed
<1>4. ASSUME NEW i \in Identifiers, listed[i] # NoEntry
      PROVE  /\ entries[i] \in AttemptEntry
             /\ entries[i].total_attempts \in 1..MaxAttempts
             /\ entries[i].failed_attempts <= entries[i].total_attempts
             /\ entries[i].total_attempts <= entries[i].total_requests
             /\ t <= entries[i].last_candidate_at + Cooldown
  <2>1. /\ map[i] \in RateLimitInfo /\ map[i].last_candidate_at \in Nat
        /\ Counts(map[i]) /\ WithinBudget(map[i])
        /\ entries[i] = Published(map[i])
    BY <1>1, <1>2, <1>3, <1>4, EntryType DEF WithinLimits, Known
  <2>2. t <= map[i].last_candidate_at + Cooldown
    BY <1>1, <1>4, <2>1, MapAssumption DEF Expired
  <2> QED BY <2>1, <2>2, PublishedSound
<1>5. \A i \in Identifiers : listed[i] = NoEntry => entries[i] = NoEntry
  BY <1>2
<1>6. entries \in [Identifiers -> AttemptEntry \cup {NoEntry}]
  <2>1. \A i \in Identifiers : entries[i] \in AttemptEntry \cup {NoEntry}
    BY <1>4, <1>5
  <2> QED BY <2>1
<1>7. Sound(entries, t)
  BY <1>4, <1>5 DEF Sound, Known
<1> QED BY <1>6, <1>7

\* A build sweeps the map with its stamp, and copies what is left.
LEMMA CollectStep ==
    ASSUME AttemptsInv, NEW p \in Polls, Collect(p)
    PROVE  AttemptsInv'
<1> DEFINE listed == Listed(identifier_rate_limit, built[p].stamp)
           entries == [i \in Identifiers |->
                          IF listed[i] = NoEntry THEN NoEntry ELSE Published(listed[i])]
           new == [built[p] EXCEPT !.entries = entries]
<1>1. /\ Slots /\ Caches /\ PollOK(p) /\ TrafficInv
      /\ handler[p] = "map" /\ Building(p)
      /\ now' = now /\ UNCHANGED <<attempts_snapshot, proxy>>
  BY DEF AttemptsInv, Collect, Building
<1>2. built[p] \in Snapshot /\ built[p].stamp \in Nat /\ built[p].created_at \in Nat
  BY <1>1, SlotTypes
<1>3. Moved(p, "build", arrived_at[p], "running", new)
  BY <1>1 DEF Collect, Moved, Slots
<1>4. identifier_rate_limit' = RetainActive(identifier_rate_limit, built[p].stamp)
  BY DEF Collect, Listed
<1>5. /\ entries \in [Identifiers -> AttemptEntry \cup {NoEntry}]
      /\ Sound(entries, built[p].stamp)
  BY <1>1, <1>2, CopySound
<1> HIDE DEF listed, entries
<1>6. /\ new \in Snapshot /\ new.entries = entries
      /\ new.stamp = built[p].stamp /\ new.created_at = built[p].created_at
  BY <1>2, <1>5 DEF Snapshot
<1> HIDE DEF new
<1>7. BuildOK(p) /\ arrived_at[p] <= now /\ now <= arrived_at[p] + RouteTimeout
  BY <1>1 DEF PollOK
<1>8. Slot("build", arrived_at[p], "running", new)
  BY <1>1, <1>6, SlotTypes, NoSnapshotAssumption DEF Slot, SnapshotOrNone
<1>9. PollOK(p)'
  <2>1. handler'[p] = "build" /\ arrived_at'[p] = arrived_at[p] /\ built'[p] = new
    BY <1>1, <1>3, <1>8, MoveTypes
  <2>2. BuildOK(p)'
    BY <1>1, <1>5, <1>6, <1>7, <2>1 DEF BuildOK
  <2> QED BY <1>1, <1>7, <2>1, <2>2 DEF PollOK
<1>10. Slots' /\ OneBuilder' /\ (\A q \in Polls : PollOK(q)')
  BY <1>1, <1>3, <1>8, <1>9, MoveKeeps
<1>11. TrafficInv'
  <2>1. built[p].stamp \in 0..now
    BY <1>1, <1>2, <1>7 DEF BuildOK, TrafficInv, MapTyping
  <2>2. SweepMap
    BY <1>4, <2>1 DEF SweepMap
  <2> QED BY <1>1, <2>2, MapStays
<1> QED BY <1>1, <1>10, <1>11, CachesStay DEF AttemptsInv

\* The builder publishes within its route timeout.
LEMMA PublishStep ==
    ASSUME AttemptsInv, NEW p \in Polls, Publish(p)
    PROVE  AttemptsInv'
<1> DEFINE new == built[p]
<1>1. /\ Slots /\ Caches /\ PollOK(p) /\ now \in Nat /\ Building(p)
      /\ attempts_snapshot' = new /\ Answer(new) /\ Free(p) /\ UNCHANGED mapVars
  BY DEF AttemptsInv, Publish, Building, TrafficInv, MapTyping
<1>2. /\ new \in Snapshot /\ new.stamp \in Nat /\ new.created_at \in Nat
      /\ arrived_at[p] \in Nat /\ RouteTimeout \in Nat
  BY <1>1, SlotTypes, TrafficAssumption DEF Slot
<1>3. BuildOK(p) /\ now <= arrived_at[p] + RouteTimeout
  BY <1>1 DEF PollOK, Building
<1>4. /\ Sound(new.entries, new.stamp)
      /\ now <= new.stamp + RouteTimeout
      /\ new.created_at <= new.stamp + RouteTimeout
  BY <1>1, <1>2, <1>3 DEF BuildOK
<1> HIDE DEF new
<1>5. proxy' \in Copy \cup {NoSnapshot} /\ CopiedOK'
  BY <1>1, <1>2, <1>4, AnswerFresh
<1>6. Caches'
  BY <1>1, <1>2, <1>4, <1>5 DEF Caches, CachedOK, SnapshotOrNone
<1>7. Slot("idle", 0, "none", NoSnapshot) /\ Moved(p, "idle", 0, "none", NoSnapshot)
  BY <1>1 DEF Slot, SnapshotOrNone, Moved, Free
<1>8. PollOK(p)'
  <2>1. handler'[p] = "idle"
    BY <1>1, <1>7, MoveTypes
  <2> QED BY <2>1 DEF PollOK, Building
<1>9. Slots' /\ OneBuilder' /\ (\A q \in Polls : PollOK(q)')
  BY <1>1, <1>7, <1>8, MoveKeeps DEF mapVars
<1> QED BY <1>1, <1>6, <1>9, MapStays DEF AttemptsInv

\* A poll whose build has failed is over.
LEMMA BuildFailsStep ==
    ASSUME AttemptsInv, NEW p \in Polls, BuildFails(p)
    PROVE  AttemptsInv'
<1>1. Moved(p, "idle", 0, "none", NoSnapshot)
  BY DEF BuildFails, Free, Moved
<1> QED BY <1>1, PollLetsGo DEF BuildFails

\* A poll that is dropped is over, or its closure goes on alone.
LEMMA CancelStep ==
    ASSUME AttemptsInv, NEW p \in Polls, Cancel(p)
    PROVE  AttemptsInv'
<1>1. Slots
  BY DEF AttemptsInv
<1>2. PICK c \in {"none", "running"} : Moved(p, "idle", 0, c, NoSnapshot)
  <2>1. CASE closure[p] = "running"
    BY <1>1, <2>1 DEF Cancel, Moved, Slots
  <2>2. CASE closure[p] # "running"
    BY <2>2 DEF Cancel, Free, Moved
  <2> QED BY <2>1, <2>2
<1> QED BY <1>2, PollLetsGo DEF Cancel

\* A closure dates the snapshot of its handler when it is done.
LEMMA ClosureEndsStep ==
    ASSUME AttemptsInv, NEW p \in Polls, ClosureEnds(p)
    PROVE  AttemptsInv'
<1>1. /\ Slots /\ Caches /\ PollOK(p) /\ now \in Nat /\ now' = now
      /\ UNCHANGED <<mapVars, attempts_snapshot, proxy>>
  BY DEF AttemptsInv, ClosureEnds, TrafficInv, MapTyping, mapVars
<1>2. CASE handler[p] # "build"
  <2>1. Moved(p, "idle", 0, "none", NoSnapshot)
    BY <1>2 DEF ClosureEnds, Free, Moved
  <2> QED BY <1>1, <2>1, PollLetsGo
<1>3. CASE handler[p] = "build"
  <2>1. Building(p)
    BY <1>3 DEF Building
  <2>2. /\ built[p] \in Snapshot /\ built[p].stamp \in Nat
        /\ built[p].created_at \in Nat /\ arrived_at[p] \in Nat
    BY <1>1, <2>1, SlotTypes DEF Slot
  <2>3. BuildOK(p) /\ arrived_at[p] <= now /\ now <= arrived_at[p] + RouteTimeout
    BY <1>1, <1>3, <2>1 DEF PollOK
  <2>4. PICK c \in {"done", "failed"}, t \in {built[p].created_at, now} :
           Moved(p, "build", arrived_at[p], c, [built[p] EXCEPT !.created_at = t])
    <3>1. CASE /\ closure' = [closure EXCEPT ![p] = "done"]
               /\ built' = [built EXCEPT ![p].created_at = now]
      <4>1. Moved(p, "build", arrived_at[p], "done",
                  [built[p] EXCEPT !.created_at = now])
        BY <1>1, <1>3, <3>1 DEF ClosureEnds, Moved, Slots
      <4> QED BY <4>1
    <3>2. CASE closure' = [closure EXCEPT ![p] = "failed"] /\ UNCHANGED built
      <4>1. [built[p] EXCEPT !.created_at = built[p].created_at] = built[p]
        BY <2>2 DEF Snapshot
      <4>2. Moved(p, "build", arrived_at[p], "failed", built[p])
        BY <1>1, <1>3, <3>2 DEF ClosureEnds, Moved, Slots
      <4> QED BY <4>1, <4>2
    <3> QED BY <1>3, <3>1, <3>2 DEF ClosureEnds
  <2> DEFINE new == [built[p] EXCEPT !.created_at = t]
  <2>5. /\ new \in Snapshot /\ new.entries = built[p].entries
        /\ new.stamp = built[p].stamp /\ new.created_at = t
    BY <1>1, <2>2 DEF Snapshot
  <2>6. Moved(p, "build", arrived_at[p], c, new)
    BY <2>4
  <2> HIDE DEF new
  <2>7. Slot("build", arrived_at[p], c, new)
    BY <2>2, <2>5, NoSnapshotAssumption DEF Slot, SnapshotOrNone
  <2>8. PollOK(p)'
    <3>1. handler'[p] = "build" /\ arrived_at'[p] = arrived_at[p] /\ built'[p] = new
      BY <1>1, <2>6, <2>7, MoveTypes
    <3>2. built[p].stamp <= t /\ t <= now
      BY <1>1, <2>2, <2>3 DEF BuildOK
    <3>3. BuildOK(p)'
      BY <1>1, <2>3, <2>5, <3>1, <3>2 DEF BuildOK
    <3> QED BY <1>1, <2>3, <3>1, <3>3 DEF PollOK
  <2>9. Slots' /\ OneBuilder' /\ (\A q \in Polls : PollOK(q)')
    BY <1>1, <2>1, <2>6, <2>7, <2>8, MoveKeeps
  <2> QED BY <1>1, <2>9, MapStays, CachesStay DEF AttemptsInv
<1> QED BY <1>2, <1>3

-----------------------------------------------------------------------------
(* The other steps *)

\* Neither lookups nor the sweeper see polls or snapshots.
LEMMA TrafficKeeps ==
    ASSUME AttemptsInv, Traffic
    PROVE  AttemptsInv'
<1>1. TrafficInv'
  BY TrafficStep DEF AttemptsInv, Traffic, MapNext, MapStep
<1>2. UNCHANGED <<now, pollVars, attempts_snapshot, proxy>>
  BY DEF Traffic
<1>3. Slots' /\ OneBuilder' /\ (\A q \in Polls : PollOK(q)')
  BY <1>2 DEF AttemptsInv, Slots, OneBuilder, PollOK, BuildOK, Building, pollVars
<1> QED BY <1>1, <1>2, <1>3, CachesStay DEF AttemptsInv

\* A process that starts has no polls and no snapshot.
LEMMA NoPolls ==
    ASSUME handler = [p \in Polls |-> "idle"],
           arrived_at = [p \in Polls |-> 0],
           closure = [p \in Polls |-> "none"],
           built = [p \in Polls |-> NoSnapshot]
    PROVE  Slots /\ OneBuilder /\ (\A q \in Polls : PollOK(q))
BY DEF Slots, SnapshotOrNone, OneBuilder, PollOK, Building

\* A copy outlives the process.
LEMMA RestartStep ==
    ASSUME AttemptsInv, Restart
    PROVE  AttemptsInv'
<1>1. TrafficInv'
  BY TrafficStep DEF AttemptsInv, Restart, MapNext, MapStep
<1>2. /\ handler' = [p \in Polls |-> "idle"]
      /\ arrived_at' = [p \in Polls |-> 0]
      /\ closure' = [p \in Polls |-> "none"]
      /\ built' = [p \in Polls |-> NoSnapshot]
      /\ attempts_snapshot' = NoSnapshot /\ proxy' = proxy
  BY DEF Restart
<1>3. Slots' /\ OneBuilder' /\ (\A q \in Polls : PollOK(q)')
  BY <1>2 DEF Slots, SnapshotOrNone, OneBuilder, PollOK, Building
<1>4. Caches'
  BY <1>2 DEF AttemptsInv, Caches, SnapshotOrNone, CachedOK, CopiedOK
<1> QED BY <1>1, <1>3, <1>4 DEF AttemptsInv

\* The clock waits for no poll that is a route timeout old.
LEMMA TickStep ==
    ASSUME AttemptsInv, Tick
    PROVE  AttemptsInv'
<1>1. TrafficInv'
  BY TrafficStep DEF AttemptsInv, Tick, MapNext
<1>2. now \in Nat /\ now' = now + 1 /\ UNCHANGED <<pollVars, attempts_snapshot, proxy>>
  BY DEF AttemptsInv, TrafficInv, MapTyping, Tick
<1>3. Slots' /\ OneBuilder'
  BY <1>2 DEF AttemptsInv, Slots, OneBuilder, Building, pollVars
<1>4. ASSUME NEW q \in Polls PROVE PollOK(q)'
  <2>1. /\ PollOK(q) /\ arrived_at[q] \in Nat /\ RouteTimeout \in Nat
        /\ handler[q] # "idle" => now < arrived_at[q] + RouteTimeout
    BY TrafficAssumption DEF AttemptsInv, Slots, Tick
  <2>2. handler'[q] # "idle" =>
           arrived_at'[q] <= now' /\ now' <= arrived_at'[q] + RouteTimeout
    BY <1>2, <2>1 DEF PollOK, pollVars
  <2>3. ASSUME Building(q)' PROVE BuildOK(q)'
    <3>1. Building(q) /\ BuildOK(q)
      BY <1>2, <2>1, <2>3 DEF PollOK, Building, pollVars
    <3>2. built[q].created_at \in Nat
      BY <3>1, SlotTypes DEF AttemptsInv
    <3>3. built[q].created_at <= now'
      BY <1>2, <3>1, <3>2 DEF BuildOK
    <3> QED BY <1>2, <3>1, <3>3 DEF BuildOK, pollVars
  <2> QED BY <2>2, <2>3 DEF PollOK
<1> QED BY <1>1, <1>2, <1>3, <1>4, CachesStay DEF AttemptsInv

-----------------------------------------------------------------------------
(* The theorems *)

\* A server that has just been started has neither polls nor a snapshot.
LEMMA AttemptsInit == Init => AttemptsInv
<1> SUFFICES ASSUME Init PROVE AttemptsInv
  OBVIOUS
<1>1. TrafficInv
  BY EmptySound DEF Init, MapInit, TrafficInv, MapTyping, MapCounts, LimitsHold
<1>2. Slots /\ OneBuilder /\ (\A q \in Polls : PollOK(q))
  BY NoPolls DEF Init
<1>3. Caches
  BY DEF Init, Caches, SnapshotOrNone, CachedOK, CopiedOK
<1> QED BY <1>1, <1>2, <1>3 DEF AttemptsInv

\* No step of the server, of a client or of time disturbs the invariant.
LEMMA AttemptsStep == AttemptsInv /\ [Next]_vars => AttemptsInv'
<1> SUFFICES ASSUME AttemptsInv, [Next]_vars PROVE AttemptsInv'
  OBVIOUS
<1>1. ASSUME NEW p \in Polls, Poll(p) \/ ServerStep(p) \/ Cancel(p)
      PROVE  AttemptsInv'
  BY <1>1, PollStep, ServeStep, StartBuildStep, CollectStep, ClosureEndsStep,
     PublishStep, BuildFailsStep, CancelStep DEF ServerStep, LockCache
<1>2. CASE UNCHANGED vars
  <2>1. TrafficInv'
    BY <1>2, MapStays DEF vars
  <2>2. Slots' /\ OneBuilder' /\ (\A q \in Polls : PollOK(q)')
    BY <1>2 DEF AttemptsInv, Slots, OneBuilder, PollOK, BuildOK, Building,
                vars, pollVars, mapVars
  <2>3. Caches'
    BY <1>2, CachesStay DEF AttemptsInv, vars
  <2> QED BY <2>1, <2>2, <2>3 DEF AttemptsInv
<1> QED BY <1>1, <1>2, TrafficKeeps, RestartStep, TickStep DEF Next

\* The invariant holds of every behaviour.
LEMMA AttemptsInvariant == Spec => []AttemptsInv
BY AttemptsInit, AttemptsStep, PTL DEF Spec

\* Every variable keeps its type: in particular a handler has a snapshot while
\* it builds, and a closure that has ended has a handler that waits for it
\* (attempts.rs:63-106).
THEOREM AttemptsTypeCorrect == Spec => []TypeOK
<1>1. AttemptsInv => TypeOK
  BY DEF AttemptsInv, TrafficInv, MapTyping, Slots, Caches, SnapshotOrNone,
         Building, TypeOK
<1> QED BY <1>1, AttemptsInvariant, PTL

\* No reader is shown what is older than a route timeout, a TTL and a second,
\* for all three and for every number of polls (attempts.rs:52-61, 181-184).
THEOREM ReadersSeeRecentCorrect == Spec => []ReadersSeeRecent
<1>1. AttemptsInv => ReadersSeeRecent
  <2> SUFFICES ASSUME AttemptsInv, Fresh
               PROVE  now < proxy.snapshot.stamp + ReaderLag
    BY DEF ReadersSeeRecent
  <2>1. /\ now \in Nat /\ now < proxy.fresh_until
        /\ proxy.fresh_until <= proxy.snapshot.stamp + ReaderLag
    BY DEF AttemptsInv, TrafficInv, MapTyping, Caches, CopiedOK, Fresh
  <2>2. /\ proxy.fresh_until \in Nat
        /\ proxy.snapshot.stamp \in Nat /\ ReaderLag \in Nat
    BY TrafficAssumption, AttemptsAssumption
       DEF AttemptsInv, Caches, Copy, Snapshot, Fresh, ReaderLag
  <2> QED BY <2>1, <2>2
<1> QED BY <1>1, AttemptsInvariant, PTL

\* An identifier is shown to readers for that time after its cooldown at most,
\* whether or not anybody sweeps the map (attempts.rs:109-112).
THEOREM ListedForgottenCorrect == Spec => []ListedForgotten
<1>1. AttemptsInv => ListedForgotten
  <2> SUFFICES ASSUME AttemptsInv, Fresh, NEW i \in Known(proxy.snapshot.entries)
               PROVE  now < proxy.snapshot.entries[i].last_candidate_at
                              + Cooldown + ReaderLag
    BY DEF ListedForgotten
  <2> DEFINE stamp == proxy.snapshot.stamp
             reset == proxy.snapshot.entries[i].last_candidate_at + Cooldown
  <2>1. /\ now \in Nat /\ now < proxy.fresh_until
        /\ proxy.fresh_until <= stamp + ReaderLag
        /\ stamp <= reset
    BY DEF AttemptsInv, TrafficInv, MapTyping, Caches, CopiedOK, Sound, Fresh
  <2>2. proxy \in Copy
    BY DEF AttemptsInv, Caches, Fresh
  <2>3. proxy.snapshot \in Snapshot /\ proxy.fresh_until \in Nat
    BY <2>2 DEF Copy
  <2>4. stamp \in Nat /\ proxy.snapshot.entries[i] \in AttemptEntry
    BY <2>3 DEF Snapshot, Known
  <2>5. reset \in Nat /\ ReaderLag \in Nat
    BY <2>4, TrafficAssumption, AttemptsAssumption, MapAssumption
       DEF AttemptEntry, ReaderLag
  <2> HIDE DEF stamp, reset
  <2>6. now < reset + ReaderLag
    BY <2>1, <2>3, <2>4, <2>5
  <2> QED BY <2>6 DEF reset
<1> QED BY <1>1, AttemptsInvariant, PTL

\* What is published adds up, for every budget, capacity and traffic
\* (attempts.rs:113-122).
THEOREM TelemetryAddsUpCorrect == Spec => []TelemetryAddsUp
<1>1. AttemptsInv => TelemetryAddsUp
  BY DEF AttemptsInv, Caches, CachedOK, Sound, TelemetryAddsUp
<1> QED BY <1>1, AttemptsInvariant, PTL

\* Snapshots are published in their order, and a TTL apart at least, however
\* many polls there are (attempts.rs:33-35, 51-106).
THEOREM SnapshotsAdvanceCorrect == Spec => SnapshotsAdvance
<1> DEFINE Advance ==
      \/ attempts_snapshot = NoSnapshot
      \/ attempts_snapshot' \in {attempts_snapshot, NoSnapshot}
      \/ attempts_snapshot'.stamp >= attempts_snapshot.created_at + SnapshotTtl
<1>1. AttemptsInv /\ [Next]_vars => Advance
  <2> SUFFICES ASSUME AttemptsInv, [Next]_vars, attempts_snapshot # NoSnapshot
               PROVE  Advance
    OBVIOUS
  <2>1. ASSUME NEW p \in Polls, Publish(p) PROVE Advance
    <3>1. /\ Building(p) /\ PollOK(p) /\ Slots
          /\ attempts_snapshot' = built[p] /\ attempts_snapshot \in Snapshot
      BY <2>1 DEF AttemptsInv, Publish, Building, Caches, SnapshotOrNone
    <3>2. /\ built[p].stamp \in Nat /\ attempts_snapshot.created_at \in Nat
          /\ SnapshotTtl \in Nat
      BY <3>1, SlotTypes, AttemptsAssumption DEF Snapshot
    <3>3. attempts_snapshot.created_at + SnapshotTtl <= built[p].stamp
      BY <3>1 DEF PollOK, BuildOK
    <3> QED BY <3>1, <3>2, <3>3
  <2>2. ASSUME ~\E p \in Polls : Publish(p)
        PROVE  attempts_snapshot' \in {attempts_snapshot, NoSnapshot}
    BY <2>2 DEF Next, vars, Poll, ServerStep, LockCache, Serve, StartBuild,
                Collect, ClosureEnds, BuildFails, Cancel, Traffic, Restart, Tick
  <2> QED BY <2>1, <2>2
<1>2. AttemptsInv /\ [Next]_vars => [Advance]_vars
  BY <1>1
<1> QED BY <1>2, AttemptsInvariant, PTL DEF Spec, SnapshotsAdvance

=============================================================================
