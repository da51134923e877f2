------------------------------- MODULE Attempts -------------------------------
(***************************************************************************)
(* GET /attempts (handlers/attempts.rs) on top of the traffic of the map:  *)
(* polls share a cached snapshot of the rate-limit map, and the first one  *)
(* that finds it too old builds another while it holds the cache's lock.   *)
(*                                                                         *)
(* A poll is a slot of Polls.  Two activities run for it: the handler,     *)
(* which the client or the route timeout may drop at an await, and with it *)
(* the lock it holds; and the closure that serializes and compresses on a  *)
(* blocking thread, which nothing cancels.  A snapshot is the entries it   *)
(* serializes: its bytes and its ETag are functions of them, so a 304      *)
(* stands for the same content as a 200.  Readers are behind a cache of    *)
(* their own, the reverse proxy, that obeys max-age.                       *)
(***************************************************************************)
EXTENDS MapTraffic

CONSTANTS
    Polls,        \* slots of concurrent requests
    SnapshotTtl,  \* state.attempts_snapshot_ttl, in clock units
    Second,       \* clock units in a second, the unit of max-age
    Hour,         \* clock units in an hour, the precision of published times
    LastPoll,     \* bound: no poll arrives after this time
    NoSnapshot    \* Option::None

\* the configuration gives the TTL in whole seconds, and not zero of them
ASSUME AttemptsAssumption ==
    /\ IsFiniteSet(Polls)
    /\ Second \in Nat \ {0}
    /\ SnapshotTtl \in Nat \ {0}
    /\ SnapshotTtl % Second = 0
    /\ Hour \in Nat \ {0}
    /\ LastPoll \in Nat

\* one entry of the published list.  No client sees last_candidate_at: it is
\* kept for ListedForgotten
AttemptEntry ==
    [total_attempts    : Nat,
     failed_attempts   : Nat,
     total_requests    : Nat,
     window_started_at : Nat,
     last_attempt_at   : Nat,
     last_candidate_at : Nat]

\* stamp is the `now` of build_snapshot, which no client sees
Snapshot == [entries : [Identifiers -> AttemptEntry \cup {NoEntry}],
             stamp : Nat, created_at : Nat]

\* what a proxy holds: a snapshot, and until when max-age lets it be reused
Copy == [snapshot : Snapshot, fresh_until : Nat]

ASSUME NoSnapshotAssumption ==
    NoSnapshot \notin Snapshot /\ NoSnapshot \notin Copy /\ NoEntry \notin AttemptEntry

VARIABLES
    handler,            \* handler[p]: the await the poll is suspended at
    arrived_at,         \* arrived_at[p]: when its route timeout began to run
    closure,            \* closure[p]: progress of the blocking closure
    built,              \* built[p]: the snapshot it builds for its handler
    attempts_snapshot,  \* the cached snapshot; its lock is CacheHeld
    proxy               \* the copy a caching proxy holds

pollVars == <<handler, arrived_at, closure, built>>
vars == <<mapVars, pollVars, attempts_snapshot, proxy>>

TypeOK ==
    /\ now \in Nat
    /\ identifier_rate_limit \in IdentifierMap
    /\ handler \in [Polls -> {"idle", "cache", "map", "build"}]
    /\ arrived_at \in [Polls -> Nat]
    /\ closure \in [Polls -> {"none", "running", "done", "failed"}]
    /\ built \in [Polls -> Snapshot \cup {NoSnapshot}]
    /\ attempts_snapshot \in Snapshot \cup {NoSnapshot}
    /\ proxy \in Copy \cup {NoSnapshot}
    /\ \A p \in Polls :
          /\ handler[p] \in {"map", "build"} <=> built[p] # NoSnapshot
          /\ handler[p] = "build" => closure[p] # "none"
          /\ closure[p] \in {"done", "failed"} => handler[p] = "build"

Init ==
    /\ MapInit
    /\ handler = [p \in Polls |-> "idle"]
    /\ arrived_at = [p \in Polls |-> 0]
    /\ closure = [p \in Polls |-> "none"]
    /\ built = [p \in Polls |-> NoSnapshot]
    /\ attempts_snapshot = NoSnapshot
    /\ proxy = NoSnapshot

-----------------------------------------------------------------------------
(* The cache and its lock *)

SlotFree(p) == handler[p] = "idle" /\ closure[p] = "none"

Free(p) ==
    /\ handler' = [handler EXCEPT ![p] = "idle"]
    /\ arrived_at' = [arrived_at EXCEPT ![p] = 0]
    /\ closure' = [closure EXCEPT ![p] = "none"]
    /\ built' = [built EXCEPT ![p] = NoSnapshot]

\* mutant: the lock is not held while the closure runs
CacheHeldToCollect == \E p \in Polls : handler[p] = "map"

\* a handler locks the cache and keeps it across the awaits of the build
CacheHeld == \E p \in Polls : handler[p] \in {"map", "build"}

Stale ==
    attempts_snapshot # NoSnapshot =>
        now >= attempts_snapshot.created_at + SnapshotTtl

\* a full second or more, and the fraction counts for one
SecondsUp(t) == (t + Second - 1) \div Second

\* mutant: max-age is the TTL, however old the snapshot is
remaining_max_ageOfNew(snapshot) == SnapshotTtl \div Second

remaining_max_age(snapshot) ==
    LET due     == snapshot.created_at + SnapshotTtl
        seconds == IF now < due THEN SecondsUp(due - now) ELSE 0
    IN  IF seconds = 0 THEN 1 ELSE seconds

\* 200 or 304, to the proxy or to a client that bypasses it
Answer(snapshot) ==
    \/ proxy' = [snapshot    |-> snapshot,
                 fresh_until |-> now + remaining_max_age(snapshot) * Second]
    \/ UNCHANGED proxy

-----------------------------------------------------------------------------
(* The handler *)

\* a token of the attempts bucket: the poll waits for the cache
Poll(p) ==
    /\ SlotFree(p)
    /\ now <= LastPoll
    /\ handler' = [handler EXCEPT ![p] = "cache"]
    /\ arrived_at' = [arrived_at EXCEPT ![p] = now]
    /\ UNCHANGED <<mapVars, closure, built, attempts_snapshot, proxy>>

Serve(p) ==
    /\ handler[p] = "cache"
    /\ ~CacheHeld
    /\ ~Stale
    /\ Answer(attempts_snapshot)
    /\ Free(p)
    /\ UNCHANGED <<mapVars, attempts_snapshot>>

\* the build stamps itself, then waits for the map's mutex
StartBuild(p) ==
    /\ handler[p] = "cache"
    /\ ~CacheHeld
    /\ Stale
    /\ handler' = [handler EXCEPT ![p] = "map"]
    /\ built' = [built EXCEPT ![p] =
                    [entries |-> EmptyMap, stamp |-> now, created_at |-> now]]
    /\ UNCHANGED <<mapVars, arrived_at, closure, attempts_snapshot, proxy>>

truncate_to_hour(t) == (t \div Hour) * Hour

Published(info) ==
    [total_attempts    |-> candidate_count(info),
     failed_attempts   |-> info.failed_candidates,
     total_requests    |-> info.total_requests,
     window_started_at |-> truncate_to_hour(info.window_started_at),
     last_attempt_at   |-> truncate_to_hour(info.last_request_at),
     last_candidate_at |-> info.last_candidate_at]

\* mutant: expired entries are listed until somebody else removes them
ListedAll(map, t) == map

Listed(map, t) == RetainActive(map, t)

\* the map is purged and copied under its mutex, and the closure is spawned
Collect(p) ==
    LET listed == Listed(identifier_rate_limit, built[p].stamp)
    IN  /\ handler[p] = "map"
        /\ identifier_rate_limit' = listed
        /\ built' = [built EXCEPT ![p].entries =
                        [i \in Identifiers |->
                            IF listed[i] = NoEntry THEN NoEntry
                                                   ELSE Published(listed[i])]]
        /\ handler' = [handler EXCEPT ![p] = "build"]
        /\ closure' = [closure EXCEPT ![p] = "running"]
        /\ UNCHANGED <<now, arrived_at, attempts_snapshot, proxy>>

\* the snapshot is dated when its bytes are ready
Publish(p) ==
    /\ handler[p] = "build"
    /\ closure[p] = "done"
    /\ attempts_snapshot' = built[p]
    /\ Answer(built[p])
    /\ Free(p)
    /\ UNCHANGED mapVars

\* mutant: a panic of the closure is not an answer
BuildFailsNever(p) == FALSE /\ UNCHANGED vars

\* 500: compression failed or the closure panicked; the cache is left alone
BuildFails(p) ==
    /\ handler[p] = "build"
    /\ closure[p] = "failed"
    /\ Free(p)
    /\ UNCHANGED <<mapVars, attempts_snapshot, proxy>>

\* mutant: what a dropped handler was building is kept
CancelKeeps(p) ==
    /\ handler[p] # "idle"
    /\ handler' = [handler EXCEPT ![p] = "idle"]
    /\ UNCHANGED <<mapVars, arrived_at, closure, built, attempts_snapshot, proxy>>

\* the client disconnects or the route timeout fires; a closure that has been
\* spawned goes on, and the lock of the cache is free again
Cancel(p) ==
    /\ handler[p] # "idle"
    /\ IF closure[p] = "running"
       THEN /\ handler' = [handler EXCEPT ![p] = "idle"]
            /\ arrived_at' = [arrived_at EXCEPT ![p] = 0]
            /\ built' = [built EXCEPT ![p] = NoSnapshot]
            /\ UNCHANGED closure
       ELSE Free(p)
    /\ UNCHANGED <<mapVars, attempts_snapshot, proxy>>

-----------------------------------------------------------------------------
(* The closure *)

\* nobody takes the snapshot of a closure whose handler has been dropped
ClosureEnds(p) ==
    /\ closure[p] = "running"
    /\ IF handler[p] = "build"
       THEN /\ \/ /\ closure' = [closure EXCEPT ![p] = "done"]
                  /\ built' = [built EXCEPT ![p].created_at = now]
               \/ /\ closure' = [closure EXCEPT ![p] = "failed"]
                  /\ UNCHANGED built
            /\ UNCHANGED <<handler, arrived_at>>
       ELSE Free(p)
    /\ UNCHANGED <<mapVars, attempts_snapshot, proxy>>

-----------------------------------------------------------------------------
(* The rest of the server *)

\* lookups and the sweeper
Traffic ==
    /\ \/ \E i \in Identifiers, c \in Candidates : Lookup(i, c) \/ Settle(i, c)
       \/ SweepMap
    /\ UNCHANGED <<now, pollVars, attempts_snapshot, proxy>>

\* a proxy outlives the process
Restart ==
    /\ Forget
    /\ handler' = [p \in Polls |-> "idle"]
    /\ arrived_at' = [p \in Polls |-> 0]
    /\ closure' = [p \in Polls |-> "none"]
    /\ built' = [p \in Polls |-> NoSnapshot]
    /\ attempts_snapshot' = NoSnapshot
    /\ UNCHANGED <<now, proxy>>

\* the route timeout drops a handler before it is older than RouteTimeout
Tick ==
    /\ now < MaxTime
    /\ \A p \in Polls : handler[p] # "idle" => now < arrived_at[p] + RouteTimeout
    /\ now' = now + 1
    /\ UNCHANGED <<identifier_rate_limit, pollVars, attempts_snapshot, proxy>>

-----------------------------------------------------------------------------
\* the handler gets the lock of the cache
LockCache(p) == Serve(p) \/ StartBuild(p)

ServerStep(p) ==
    \/ LockCache(p)
    \/ Collect(p)
    \/ ClosureEnds(p)
    \/ Publish(p)
    \/ BuildFails(p)

Next ==
    \/ \E p \in Polls : Poll(p) \/ ServerStep(p) \/ Cancel(p)
    \/ Traffic
    \/ Restart
    \/ Tick

Spec == Init /\ [][Next]_vars

\* tokio's mutexes queue their waiters in order and a closure ends; clients owe
\* nothing, and neither the clock nor the sweeper has to run
FairSpec ==
    /\ Spec
    /\ \A p \in Polls : WF_vars(ServerStep(p)) /\ SF_vars(LockCache(p))

-----------------------------------------------------------------------------
(* Properties *)

Fresh == proxy # NoSnapshot /\ now < proxy.fresh_until

\* the slack between the map and a reader behind the proxy: a build that takes
\* a whole route timeout, the TTL, and the second that max-age rounds up to
ReaderLag == RouteTimeout + SnapshotTtl + Second

\* What a reader is shown, through the proxy or not, is never older than a route
\* timeout, a TTL and a second, however builds are delayed, cancelled or retried
\* (attempts.rs:52-61 and 181-184).
ReadersSeeRecent == Fresh => now < proxy.snapshot.stamp + ReaderLag

\* An identifier disappears from what readers are shown within that time of its
\* cooldown, even if nobody looks it up again and the sweeper never runs
\* (attempts.rs:29-30 and 109-112).
ListedForgotten ==
    Fresh =>
        \A i \in Known(proxy.snapshot.entries) :
            now < proxy.snapshot.entries[i].last_candidate_at
                    + Cooldown + ReaderLag

\* A snapshot replaces another only if its copy of the map was taken a whole TTL
\* after the other was ready: an old build never overwrites a newer one, and
\* polls, however many, publish one rebuild per TTL (attempts.rs:33-35).
SnapshotsAdvance ==
    [][\/ attempts_snapshot = NoSnapshot
       \/ attempts_snapshot' \in {attempts_snapshot, NoSnapshot}
       \/ attempts_snapshot'.stamp >=
              attempts_snapshot.created_at + SnapshotTtl]_vars

\* What is published adds up: no entry is empty, and no more failures than
\* candidates, nor candidates than requests (attempts.rs:113-122).
TelemetryAddsUp ==
    attempts_snapshot # NoSnapshot =>
        \A i \in Known(attempts_snapshot.entries) :
            LET entry == attempts_snapshot.entries[i]
            IN  /\ entry.total_attempts \in 1..MaxAttempts
                /\ entry.failed_attempts <= entry.total_attempts
                /\ entry.total_attempts <= entry.total_requests

\* Every poll is answered or dropped, and its closure ends, also when builds
\* fail and when many polls wait for the lock of the cache.
PollsEnd == \A p \in Polls : ~SlotFree(p) ~> SlotFree(p)

\* "rounded up to the next second so clients never cache past the rebuild"
\* (attempts.rs:178): when a snapshot is replaced no proxy may still reuse it.
CopiesEndWithRebuild ==
    [][(\E p \in Polls : Publish(p)) /\ Fresh
           => proxy.snapshot # attempts_snapshot]_vars

\* "at most one rebuild per window, single-flight" (README.md:315): no two
\* closures serialize the map at the same time.
SingleFlight ==
    Cardinality({p \in Polls : closure[p] = "running"}) <= 1

\* "`last_attempt_at` is never before `window_started_at` (both hour-truncated)"
\* (tests/test_adversarial.rs:1474): a window is opened before it is used.
LastAttemptInWindow ==
    attempts_snapshot # NoSnapshot =>
        \A i \in Known(attempts_snapshot.entries) :
            attempts_snapshot.entries[i].last_attempt_at >=
                attempts_snapshot.entries[i].window_started_at

=============================================================================
