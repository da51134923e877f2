----------------------------- MODULE FetchSecret ------------------------------
(***************************************************************************)
(* /fetch and /trash (handlers/fetch.rs): concurrent requests reserve a    *)
(* candidate in the rate-limit map, wait for a database permit, hand the   *)
(* lookup to a detached task, and may be cancelled at any await.           *)
(*                                                                         *)
(* A request is a slot of Requests that is reused when everything it       *)
(* started has ended.  Up to three activities run for it: the handler,     *)
(* which the client or the route timeout may drop; the detached task,      *)
(* which nothing cancels; and the removal that a dropped PendingGuard      *)
(* spawned because it found the map locked.  The mutex of the map is never *)
(* held across an await, so each critical section is one step.             *)
(*                                                                         *)
(* Readings of the clock matter: a request stamps itself before it waits    *)
(* for the map's mutex, so it may use a stamp that is old by then; and the *)
(* route timeout bounds how old.  What the client is told follows from the *)
(* action that ends its request, which the comments give as a status.      *)
(*                                                                         *)
(* The clock and the map are the variables of MapTraffic, the abstract     *)
(* specification that this one implements by hiding all the others.        *)
(***************************************************************************)
EXTENDS MapTraffic, Integers

CONSTANTS
    Requests,       \* slots of concurrent requests
    Routes,         \* the routes that clients use: /fetch, /trash
    MaxPermits,     \* DATABASE_MAX_CONCURRENCY
    TaskMayPanic,   \* whether the detached task may panic before it finalizes
    LastArrival,    \* bound: no request arrives after this time
    NoJob           \* the slot is free

ASSUME RequestsAssumption ==
    /\ IsFiniteSet(Requests)
    /\ Routes \subseteq {"fetch", "trash"}

\* 30 s in router.rs, and a cooldown of at least one minute in env.rs
ASSUME TimeAssumption ==
    /\ Cooldown >= 2 * RouteTimeout
    /\ MaxPermits \in Nat \ {0}
    /\ TaskMayPanic \in BOOLEAN
    /\ LastArrival \in Nat

Job == [id : Identifiers, cand : Candidates, route : Routes,
        requested_at : Nat, is_new : BOOLEAN, generation : Nat]

ASSUME NoJobAssumption == NoJob \notin Job

VARIABLES
    handler,                \* handler[r]: the await the handler is suspended at
    job,                    \* job[r]: the locals of the request
    task,                   \* task[r]: progress of the detached task
    result,                 \* result[r]: what the database work returned
    deferred,               \* deferred[r]: a removal spawned by the guard's Drop
    permits,                \* permits left in database_semaphore
    secret,                 \* the rows of the secret table, by secret id
    sweep_at                \* the stamp of a sweep that waits for the map

reqVars == <<handler, job, task, result, deferred>>
vars == <<now, identifier_rate_limit, reqVars, permits, secret, sweep_at>>

HandlerState == {"idle", "requested", "permit", "refund", "task", "cleanup"}
TaskState == {"none", "blocking", "finalizing", "finished", "panicked"}
Result == {"none", "hit", "miss", "error"}
NoSweep == -1

SecretId == Identifiers \X Candidates

TypeOK ==
    /\ now \in Nat
    /\ identifier_rate_limit \in IdentifierMap
    /\ handler \in [Requests -> HandlerState]
    /\ job \in [Requests -> Job \cup {NoJob}]
    /\ task \in [Requests -> TaskState]
    /\ result \in [Requests -> Result]
    /\ deferred \in [Requests -> BOOLEAN]
    /\ permits \in 0..MaxPermits
    /\ secret \in SUBSET SecretId
    /\ sweep_at \in Nat \cup {NoSweep}

Init ==
    /\ now = 0
    /\ identifier_rate_limit = EmptyMap
    /\ handler = [r \in Requests |-> "idle"]
    /\ job = [r \in Requests |-> NoJob]
    /\ task = [r \in Requests |-> "none"]
    /\ result = [r \in Requests |-> "none"]
    /\ deferred = [r \in Requests |-> FALSE]
    /\ permits = MaxPermits
    /\ secret = {}
    /\ sweep_at = NoSweep

-----------------------------------------------------------------------------
(* Who is responsible for a reservation *)

\* mutant: the guard is disarmed before the refund, not after it
GuardArmedUntilRefund(r) == handler[r] = "permit" /\ job[r].is_new

\* a PendingGuard exists and is armed: from the admission of a new candidate
\* to the end of the refund, or to the hand-over to the detached task
GuardArmed(r) == handler[r] \in {"permit", "refund"} /\ job[r].is_new

TaskRuns(r) == task[r] \in {"blocking", "finalizing"}

SlotFree(r) == handler[r] = "idle" /\ task[r] = "none" /\ ~deferred[r]

\* the request has ended, and so has all that it started
Free(r) ==
    /\ handler' = [handler EXCEPT ![r] = "idle"]
    /\ job' = [job EXCEPT ![r] = NoJob]
    /\ task' = [task EXCEPT ![r] = "none"]
    /\ result' = [result EXCEPT ![r] = "none"]
    /\ deferred' = [deferred EXCEPT ![r] = FALSE]

RemovePending(r) ==
    identifier_rate_limit' =
        remove_pending(identifier_rate_limit,
                       job[r].id, job[r].cand, job[r].generation)

-----------------------------------------------------------------------------
(* Arrival and admission *)

\* well-formed hashes and a token of the lookup bucket: the request stamps
\* itself and waits for the map's mutex (one refused before leaves no trace)
Receive(r) ==
    /\ SlotFree(r)
    /\ now <= LastArrival
    /\ \E i \in Identifiers, c \in Candidates, route \in Routes :
          job' = [job EXCEPT ![r] =
                    [id |-> i, cand |-> c, route |-> route,
                     requested_at |-> now, is_new |-> FALSE, generation |-> 0]]
    /\ handler' = [handler EXCEPT ![r] = "requested"]
    /\ UNCHANGED <<now, identifier_rate_limit, task, result, deferred,
                   permits, secret, sweep_at>>

\* the map after expiry, and after the request is counted in its entry
Roomy(r) == MakeRoom(identifier_rate_limit, job[r].id, job[r].requested_at)

Counted(r) == CountRequest(Roomy(r), job[r].id, job[r].requested_at)

OwnEntry(r) == Counted(r)[job[r].id]

\* the critical section of the admission gets past the capacity check
Admits(r) == handler[r] = "requested" /\ ~NoRoom(Roomy(r), job[r].id)

AdmitFull(r) ==
    /\ handler[r] = "requested"
    /\ NoRoom(Roomy(r), job[r].id)
    /\ identifier_rate_limit' = Roomy(r)
    /\ Free(r)
    /\ UNCHANGED <<now, permits, secret, sweep_at>>

AdmitLimited(r) ==
    /\ Admits(r)
    /\ Saturated(OwnEntry(r))
    /\ identifier_rate_limit' = Counted(r)
    /\ Free(r)
    /\ UNCHANGED <<now, permits, secret, sweep_at>>

AdmitPending(r) ==
    /\ Admits(r)
    /\ ~Saturated(OwnEntry(r))
    /\ OwnEntry(r).candidates[job[r].cand] = "Pending"
    /\ identifier_rate_limit' = Counted(r)
    /\ Free(r)
    /\ UNCHANGED <<now, permits, secret, sweep_at>>

\* the handler goes on to the database with the generation it was admitted in
Proceed(r, is_new) ==
    /\ handler' = [handler EXCEPT ![r] = "permit"]
    /\ job' = [job EXCEPT ![r].is_new = is_new,
                          ![r].generation = OwnEntry(r).window_started_at]
    /\ UNCHANGED <<now, task, result, deferred, permits, secret, sweep_at>>

AdmitReplay(r) ==
    /\ Admits(r)
    /\ ~Saturated(OwnEntry(r))
    /\ OwnEntry(r).candidates[job[r].cand] = "Committed"
    /\ identifier_rate_limit' = Counted(r)
    /\ Proceed(r, FALSE)

\* mutant: a pending candidate is reserved again
AdmitNewOverPending(r) ==
    /\ Admits(r)
    /\ ~Saturated(OwnEntry(r))
    /\ OwnEntry(r).candidates[job[r].cand] # "Committed"
    /\ identifier_rate_limit' =
          [Counted(r) EXCEPT ![job[r].id] =
              Reserve(@, job[r].cand, job[r].requested_at)]
    /\ Proceed(r, TRUE)

AdmitNew(r) ==
    /\ Admits(r)
    /\ ~Saturated(OwnEntry(r))
    /\ OwnEntry(r).candidates[job[r].cand] = "Absent"
    /\ identifier_rate_limit' =
          [Counted(r) EXCEPT ![job[r].id] =
              Reserve(@, job[r].cand, job[r].requested_at)]
    /\ Proceed(r, TRUE)

-----------------------------------------------------------------------------
(* The database permit *)

\* no await separates the permit, the spawn and the disarming of the guard
AcquirePermit(r) ==
    /\ handler[r] = "permit"
    /\ permits > 0
    /\ permits' = permits - 1
    /\ handler' = [handler EXCEPT ![r] = "task"]
    /\ task' = [task EXCEPT ![r] = "blocking"]
    /\ UNCHANGED <<now, identifier_rate_limit, job, result, deferred,
                   secret, sweep_at>>

\* DATABASE_PERMIT_TIMEOUT, which may race a permit that has just come back
PermitTimeout(r) ==
    /\ handler[r] = "permit"
    /\ job[r].is_new
    /\ handler' = [handler EXCEPT ![r] = "refund"]
    /\ UNCHANGED <<now, identifier_rate_limit, job, task, result, deferred,
                   permits, secret, sweep_at>>

PermitTimeoutReplay(r) ==
    /\ handler[r] = "permit"
    /\ ~job[r].is_new
    /\ Free(r)
    /\ UNCHANGED <<now, identifier_rate_limit, permits, secret, sweep_at>>

Refund(r) ==
    /\ handler[r] = "refund"
    /\ RemovePending(r)
    /\ Free(r)
    /\ UNCHANGED <<now, permits, secret, sweep_at>>

-----------------------------------------------------------------------------
(* The detached task *)

\* the closure on the blocking thread ends: the row is read, and deleted by a
\* trash, in one transaction, or the work fails or panics; the permit is back
Database(r) ==
    LET row == <<job[r].id, job[r].cand>>
    IN  /\ task[r] = "blocking"
        /\ \/ /\ row \in secret
              /\ result' = [result EXCEPT ![r] = "hit"]
              /\ secret' = IF job[r].route = "trash" THEN secret \ {row} ELSE secret
           \/ /\ row \notin secret
              /\ result' = [result EXCEPT ![r] = "miss"]
              /\ UNCHANGED secret
           \/ /\ result' = [result EXCEPT ![r] = "error"]
              /\ UNCHANGED secret
        /\ task' = [task EXCEPT ![r] = "finalizing"]
        /\ permits' = permits + 1
        /\ UNCHANGED <<now, identifier_rate_limit, handler, job, deferred,
                       sweep_at>>

\* the task has ended as state; nobody reads its result when the handler has
\* been dropped
TaskEnds(r, state) ==
    IF handler[r] = "task"
    THEN /\ task' = [task EXCEPT ![r] = state]
         /\ UNCHANGED <<handler, job, result, deferred>>
    ELSE Free(r)

Finalize(r) ==
    /\ task[r] = "finalizing"
    /\ identifier_rate_limit' =
          IF job[r].is_new
          THEN finalize(identifier_rate_limit, job[r].id, job[r].cand,
                        job[r].generation, result[r])
          ELSE identifier_rate_limit
    /\ TaskEnds(r, "finished")
    /\ UNCHANGED <<now, permits, secret, sweep_at>>

TaskPanics(r) ==
    /\ TaskMayPanic
    /\ task[r] = "finalizing"
    /\ TaskEnds(r, "panicked")
    /\ UNCHANGED <<now, identifier_rate_limit, permits, secret, sweep_at>>

-----------------------------------------------------------------------------
(* The handler wakes up when its task has ended *)

\* 200 or 202 for a hit, 401 for a miss, 500 for an error
Respond(r) ==
    /\ handler[r] = "task"
    /\ task[r] = "finished"
    /\ Free(r)
    /\ UNCHANGED <<now, identifier_rate_limit, permits, secret, sweep_at>>

\* mutant: the join error of a replay is not handled
SeePanicOfNew(r) ==
    /\ handler[r] = "task"
    /\ task[r] = "panicked"
    /\ job[r].is_new
    /\ handler' = [handler EXCEPT ![r] = "cleanup"]
    /\ task' = [task EXCEPT ![r] = "none"]
    /\ UNCHANGED <<now, identifier_rate_limit, job, result, deferred,
                   permits, secret, sweep_at>>

\* the task panicked: the handler, whose guard is disarmed, removes the
\* reservation itself and waits for the mutex to do so
SeePanic(r) ==
    /\ handler[r] = "task"
    /\ task[r] = "panicked"
    /\ handler' = [handler EXCEPT ![r] = "cleanup"]
    /\ task' = [task EXCEPT ![r] = "none"]
    /\ UNCHANGED <<now, identifier_rate_limit, job, result, deferred,
                   permits, secret, sweep_at>>

Cleanup(r) ==
    /\ handler[r] = "cleanup"
    /\ IF job[r].is_new THEN RemovePending(r)
                        ELSE UNCHANGED identifier_rate_limit
    /\ Free(r)
    /\ UNCHANGED <<now, permits, secret, sweep_at>>

-----------------------------------------------------------------------------
(* Cancellation: the client disconnects or the route timeout fires, and the *)
(* future of the handler is dropped at the await it is suspended at         *)

\* Drop of an armed guard whose try_lock succeeds
CancelRemoves(r) ==
    /\ GuardArmed(r)
    /\ RemovePending(r)
    /\ Free(r)
    /\ UNCHANGED <<now, permits, secret, sweep_at>>

\* Drop of an armed guard that finds the map locked
CancelDefers(r) ==
    /\ GuardArmed(r)
    /\ handler' = [handler EXCEPT ![r] = "idle"]
    /\ deferred' = [deferred EXCEPT ![r] = TRUE]
    /\ UNCHANGED <<now, identifier_rate_limit, job, task, result, permits,
                   secret, sweep_at>>

\* mutant: the handler holds the permit, so dropping it returns the permit
CancelUnguardedPermit(r) ==
    /\ handler[r] # "idle"
    /\ ~GuardArmed(r)
    /\ IF TaskRuns(r)
       THEN /\ handler' = [handler EXCEPT ![r] = "idle"]
            /\ permits' = IF task[r] = "blocking" THEN permits + 1 ELSE permits
            /\ UNCHANGED <<job, task, result, deferred>>
       ELSE Free(r) /\ UNCHANGED permits
    /\ UNCHANGED <<now, identifier_rate_limit, secret, sweep_at>>

\* no guard is armed: the task goes on without the handler if it still runs
CancelUnguarded(r) ==
    /\ handler[r] # "idle"
    /\ ~GuardArmed(r)
    /\ IF TaskRuns(r)
       THEN /\ handler' = [handler EXCEPT ![r] = "idle"]
            /\ UNCHANGED <<job, task, result, deferred>>
       ELSE Free(r)
    /\ UNCHANGED <<now, identifier_rate_limit, permits, secret, sweep_at>>

DeferredRemoval(r) ==
    /\ deferred[r]
    /\ RemovePending(r)
    /\ Free(r)
    /\ UNCHANGED <<now, permits, secret, sweep_at>>

-----------------------------------------------------------------------------
(* The rest of the server *)

\* database::write on behalf of /store: a new row, or nothing
Write(i, c) ==
    /\ <<i, c>> \notin secret
    /\ secret' = secret \cup {<<i, c>>}
    /\ UNCHANGED <<now, identifier_rate_limit, reqVars, permits, sweep_at>>

\* mutant: the sweeper does not loop
SweepStampOnce ==
    /\ now = 0
    /\ sweep_at = NoSweep
    /\ sweep_at' = now
    /\ UNCHANGED <<now, identifier_rate_limit, reqVars, permits, secret>>

\* the sweeper stamps itself, then waits for the mutex, like a request
SweepStamp ==
    /\ sweep_at = NoSweep
    /\ sweep_at' = now
    /\ UNCHANGED <<now, identifier_rate_limit, reqVars, permits, secret>>

Sweep ==
    /\ sweep_at # NoSweep
    /\ identifier_rate_limit' = RetainActive(identifier_rate_limit, sweep_at)
    /\ sweep_at' = NoSweep
    /\ UNCHANGED <<now, reqVars, permits, secret>>

\* the process stops, at any point, and starts again: only the rows survive
Restart ==
    /\ identifier_rate_limit' = EmptyMap
    /\ handler' = [r \in Requests |-> "idle"]
    /\ job' = [r \in Requests |-> NoJob]
    /\ task' = [r \in Requests |-> "none"]
    /\ result' = [r \in Requests |-> "none"]
    /\ deferred' = [r \in Requests |-> FALSE]
    /\ permits' = MaxPermits
    /\ sweep_at' = NoSweep
    /\ UNCHANGED <<now, secret>>

\* mutant: the routes have no TimeoutLayer
TickUntimed ==
    /\ now < MaxTime
    /\ now' = now + 1
    /\ UNCHANGED <<identifier_rate_limit, reqVars, permits, secret, sweep_at>>

\* the route timeout drops a handler before it is older than RouteTimeout
Tick ==
    /\ now < MaxTime
    /\ \A r \in Requests :
          handler[r] # "idle" => now < job[r].requested_at + RouteTimeout
    /\ now' = now + 1
    /\ UNCHANGED <<identifier_rate_limit, reqVars, permits, secret, sweep_at>>

-----------------------------------------------------------------------------
Admission(r) ==
    \/ AdmitFull(r)
    \/ AdmitLimited(r)
    \/ AdmitPending(r)
    \/ AdmitReplay(r)
    \/ AdmitNew(r)

PermitStep(r) == AcquirePermit(r) \/ PermitTimeout(r) \/ PermitTimeoutReplay(r)

TaskStep(r) == Database(r) \/ Finalize(r) \/ TaskPanics(r)

HandlerEnds(r) == Refund(r) \/ Respond(r) \/ SeePanic(r) \/ Cleanup(r)

Cancel(r) == CancelRemoves(r) \/ CancelDefers(r) \/ CancelUnguarded(r)

RequestStep(r) ==
    \/ Receive(r)
    \/ Admission(r)
    \/ PermitStep(r)
    \/ TaskStep(r)
    \/ HandlerEnds(r)
    \/ Cancel(r)
    \/ DeferredRemoval(r)

Next ==
    \/ \E r \in Requests : RequestStep(r)
    \/ \E i \in Identifiers, c \in Candidates : Write(i, c)
    \/ SweepStamp
    \/ Sweep
    \/ Restart
    \/ Tick

Spec == Init /\ [][Next]_vars

\* what the server does for r once it has arrived.  Mutexes are fair, permit
\* waits are bounded, and busy_timeout bounds the work of a blocking thread
ServerStep(r) ==
    \/ Admission(r)
    \/ PermitStep(r)
    \/ TaskStep(r)
    \/ HandlerEnds(r)
    \/ DeferredRemoval(r)

\* clients owe nothing: neither arrivals, nor cancellations, nor writes are fair
FairSpec ==
    /\ Spec
    /\ \A r \in Requests : WF_vars(ServerStep(r))
    /\ WF_vars(SweepStamp)
    /\ WF_vars(Sweep)
    /\ WF_vars(Tick)

-----------------------------------------------------------------------------
(* Properties *)

\* r is the activity that must settle the reservation its request made
Owns(r) ==
    /\ job[r] # NoJob
    /\ job[r].is_new
    /\ \/ handler[r] \in {"permit", "refund", "cleanup"}
       \/ deferred[r]
       \/ TaskRuns(r)
       \/ task[r] = "panicked"

\* the window that admitted r is still open
Attached(r) == SameWindow(identifier_rate_limit, job[r].id, job[r].generation)

SameReservation(r, s) ==
    /\ job[r].id = job[s].id
    /\ job[r].cand = job[s].cand
    /\ job[r].generation = job[s].generation

\* Whoever must settle a reservation finds it pending, unless its window is
\* gone: nobody else has released or committed it (the generation check and the
\* arming of PendingGuard, fetch.rs:47-100 and 376-380).
OwnerHoldsPending ==
    \A r \in Requests : Owns(r) /\ Attached(r) =>
        identifier_rate_limit[job[r].id].candidates[job[r].cand] = "Pending"

\* Two requests never settle the same reservation of one open window, however
\* late a finalizer, a cleanup or a deferred removal runs (fetch.rs:159-175).
ReservationsDisjoint ==
    \A r, s \in Requests :
        Owns(r) /\ Owns(s) /\ Attached(r) /\ SameReservation(r, s) => r = s

\* A pending candidate always has someone who will settle it; without one the
\* client is told to retry a lookup that nobody makes (fetch.rs:268 and 295).
\* A panic of the detached task is the exception: its cleanup has no guard.
NoOrphan ==
    TaskMayPanic \/
    \A i \in Known(identifier_rate_limit), c \in Candidates :
        identifier_rate_limit[i].candidates[c] = "Pending" =>
            \E r \in Requests :
                /\ Owns(r) /\ Attached(r)
                /\ job[r].id = i /\ job[r].cand = c

\* No window holds more candidates than the budget, pending ones included, so
\* candidate_count's conversion to u8 never panics under the map's mutex
\* (models.rs:102-107, fetch.rs:259).
BudgetHolds ==
    \A i \in Known(identifier_rate_limit) :
        candidate_count(identifier_rate_limit[i]) <= MaxAttempts

\* The map never exceeds its capacity, and no entry in it is an empty one that
\* a refund or a cancellation has left behind to occupy a place
\* (fetch.rs:239-251, 30-34 and 194-199).
CapacityHolds ==
    /\ Cardinality(Known(identifier_rate_limit)) <= MaxIdentifiers
    /\ \A i \in Known(identifier_rate_limit) :
          CandidatesOf(identifier_rate_limit[i]) # {}

\* Every failure that is counted is one of a committed candidate, so
\* failed_attempts never exceeds total_attempts nor saturates its u8
\* (fetch.rs:182-187).
FailuresCommitted ==
    \A i \in Known(identifier_rate_limit) :
        LET info == identifier_rate_limit[i]
        IN  info.failed_candidates <=
                Cardinality({c \in Candidates : info.candidates[c] = "Committed"})

\* A permit is held by exactly the lookups that are on a blocking thread,
\* whatever becomes of their handlers (fetch.rs:348-352).
PermitsConserved ==
    permits + Cardinality({r \in Requests : task[r] = "blocking"}) = MaxPermits

\* An answer that tells the client whether its guess was right is charged in
\* the window that admitted it before the answer leaves, and the window of a new
\* candidate is still open then: neither the sweeper nor requests with younger
\* stamps have expired it under the lookup (fetch.rs:364-374, router.rs:21).
AnswersCharged ==
    \A r \in Requests :
        /\ handler[r] = "task" /\ task[r] = "finished"
        /\ result[r] \in {"hit", "miss"}
        /\ job[r].is_new \/ Attached(r)
        => /\ Attached(r)
           /\ identifier_rate_limit[job[r].id].candidates[job[r].cand] = "Committed"

\* A charged candidate stays charged in its window, and its counters never go
\* back, until a whole cooldown has passed since the window's last candidate
\* or the process restarts (fetch.rs:234-237 and 241-244, rate_limit.rs:52).
ChargeKept ==
    [][Restart \/
       \A i \in Known(identifier_rate_limit), c \in Candidates :
          LET old == identifier_rate_limit[i]
              new == identifier_rate_limit'[i]
          IN  old.candidates[c] = "Committed" =>
                \/ now > old.last_candidate_at + Cooldown
                \/ /\ new # NoEntry
                   /\ new.window_started_at = old.window_started_at
                   /\ new.candidates[c] = "Committed"
                   /\ new.failed_candidates >= old.failed_candidates
                   /\ new.total_requests >= old.total_requests]_vars

\* Only a new candidate postpones the reset of an open window: replays,
\* refusals, refunds and answers do not (fetch.rs:255-256 and 282).
OnlyNewSlides ==
    [][\A i \in Known(identifier_rate_limit) :
          LET old == identifier_rate_limit[i]
              new == identifier_rate_limit'[i]
          IN  /\ new # NoEntry
              /\ new.window_started_at = old.window_started_at
              /\ new.last_candidate_at # old.last_candidate_at
              => \E c \in Candidates :
                    /\ old.candidates[c] = "Absent"
                    /\ new.candidates[c] = "Pending"]_vars

\* The reset that clients are told of moves forward, although the stamp that sets
\* it may be older than the one it replaces: it is never set back by more than a
\* request may wait, nor is it ever set to more than a cooldown from now
\* (fetch.rs:117 and 282).
ResetsAtHolds ==
    [][\A i \in Known(identifier_rate_limit) :
          LET old == identifier_rate_limit[i]
              new == identifier_rate_limit'[i]
          IN  new # NoEntry /\ new.window_started_at = old.window_started_at =>
                new.last_candidate_at \in old.last_candidate_at - RouteTimeout .. now]_vars

\* Everything a request starts comes to an end, its detached task and its
\* deferred removal included, even if its handler is dropped.
RequestsEnd == \A r \in Requests : ~SlotFree(r) ~> SlotFree(r)

\* A candidate does not stay pending for ever, not even when a panic has left
\* nobody to settle it: the cooldown and the sweeper see to it
\* (rate_limit.rs:44-58).
PendingEnds ==
    \A i \in Identifiers, c \in Candidates :
        LET IsPending == /\ identifier_rate_limit[i] # NoEntry
                         /\ identifier_rate_limit[i].candidates[c] = "Pending"
        IN  IsPending ~> ~IsPending

\* Once clients have gone away every identifier is forgotten, without any
\* request to trigger it (rate_limit.rs:60-62).
Forgotten == <>[](identifier_rate_limit = EmptyMap)

\* However requests interleave, wait, fail, panic or are cancelled, the map only
\* sees admissions with stamps that are at most RouteTimeout old, ends of
\* reservations that are pending, and sweeps (fetch.rs:221-303, router.rs:21).
TrafficImplemented == MapSpec

=============================================================================
