---------------------------- MODULE FetchMapProofs ----------------------------
(***************************************************************************)
(* What requests, the sweeper and the process do to the rate-limit map,    *)
(* for every number of requests.                                           *)
(*                                                                         *)
(* First, FetchSecret implements MapTraffic: a step is a Lookup, a Settle, *)
(* a sweep, a tick, a restart, or leaves the map and the clock alone.  The *)
(* invariants of FetchReservationProofs carry the argument: Clocks says    *)
(* that the stamp of an admission is recent; Holds, that an owner that     *)
(* finds its window open finds its candidate pending in it.  The limits of *)
(* the map, and that its counters add up, are then those of its traffic    *)
(* (RateLimitMapProofs).                                                   *)
(*                                                                         *)
(* Then, what a step of a request does to one entry: it keeps its window,  *)
(* or lapses after its cooldown, or goes with the only reservation it      *)
(* held, which is the request's (Moves).  The action properties and        *)
(* AnswersCharged follow from that.                                        *)
(***************************************************************************)
EXTENDS FetchReservationProofs

-----------------------------------------------------------------------------
(* FetchSecret implements MapTraffic *)

\* An admission is a Lookup with the stamp of its request.
LEMMA AdmissionIsLookup ==
    ASSUME BaseInv, Clocks, NEW r \in Requests, Admission(r)
    PROVE  Lookup(job[r].id, job[r].cand) /\ UNCHANGED now
<1> DEFINE i == job[r].id
           c == job[r].cand
           t == job[r].requested_at
<1>1. handler[r] = "requested" /\ job[r] # NoJob
  BY DEF Admission, AdmitFull, AdmitLimited, AdmitPending, AdmitReplay,
         AdmitNew, Admits, BaseInv, Phase, SlotFree
<1>2. t \in RecentStamps
  BY <1>1, JobType DEF BaseInv, Clocks, Typing, RecentStamps
<1>3. Roomy(r) = MakeRoom(identifier_rate_limit, i, t)
  BY DEF Roomy
<1>4. Counted(r) = CountRequest(Roomy(r), i, t) /\ OwnEntry(r) = Counted(r)[i]
  BY DEF Counted, OwnEntry
<1>5. LookupAt(i, c, t)
  <2>1. CASE AdmitFull(r)
    BY <1>3, <2>1 DEF AdmitFull, LookupAt
  <2>2. CASE AdmitLimited(r) \/ AdmitPending(r) \/ AdmitReplay(r)
    BY <1>3, <1>4, <2>2
       DEF AdmitLimited, AdmitPending, AdmitReplay, Admits, LookupAt
  <2>3. CASE AdmitNew(r)
    BY <1>3, <1>4, <2>3 DEF AdmitNew, Admits, LookupAt
  <2> QED BY <2>1, <2>2, <2>3 DEF Admission
<1>6. UNCHANGED now
  BY DEF Admission, AdmitFull, AdmitLimited, AdmitPending, AdmitReplay,
         AdmitNew, Proceed
<1> QED BY <1>2, <1>5, <1>6 DEF Lookup

\* An owner that removes its reservation settles it, or its window is gone.
LEMMA RemovalIsSettle ==
    ASSUME BaseInv, ReservationInv, NEW r \in Requests, Owns(r), RemovePending(r)
    PROVE  \/ Attached(r) /\ Settle(job[r].id, job[r].cand)
           \/ UNCHANGED identifier_rate_limit
<1>1. CASE ~Attached(r)
  BY <1>1 DEF Attached, RemovePending, remove_pending
<1>2. CASE Attached(r)
  <2>1. /\ identifier_rate_limit[job[r].id] # NoEntry
        /\ identifier_rate_limit[job[r].id].window_started_at = job[r].generation
        /\ identifier_rate_limit[job[r].id].candidates[job[r].cand] = "Pending"
    BY <1>2 DEF Attached, SameWindow, ReservationInv, Holds
  <2>2. identifier_rate_limit' =
            finalize(identifier_rate_limit, job[r].id, job[r].cand,
                     job[r].generation, "error")
    BY <2>1 DEF RemovePending, remove_pending, finalize, HoldsReservation,
                SameWindow
  <2> QED BY <1>2, <2>1, <2>2 DEF Settle
<1> QED BY <1>1, <1>2

\* So does the task of an owner that finalizes.
LEMMA FinalizeIsSettle ==
    ASSUME BaseInv, ReservationInv, NEW r \in Requests, Finalize(r)
    PROVE  \/ Owns(r) /\ Attached(r) /\ Settle(job[r].id, job[r].cand)
           \/ UNCHANGED identifier_rate_limit
<1>1. result[r] \in Results
  BY DEF BaseInv, Phase, Finalize
<1>2. CASE ~job[r].is_new
  BY <1>2 DEF Finalize
<1>3. CASE job[r].is_new /\ ~Attached(r)
  BY <1>3 DEF Finalize, Attached, finalize, HoldsReservation
<1>4. CASE job[r].is_new /\ Attached(r)
  <2>1. Owns(r)
    BY <1>4 DEF Finalize, Owns, TaskRuns, BaseInv, Phase, SlotFree
  <2>2. /\ identifier_rate_limit[job[r].id] # NoEntry
        /\ identifier_rate_limit[job[r].id].window_started_at = job[r].generation
        /\ identifier_rate_limit[job[r].id].candidates[job[r].cand] = "Pending"
    BY <1>4, <2>1 DEF Attached, SameWindow, ReservationInv, Holds
  <2>3. identifier_rate_limit' =
            finalize(identifier_rate_limit, job[r].id, job[r].cand,
                     identifier_rate_limit[job[r].id].window_started_at,
                     result[r])
    BY <1>4, <2>2 DEF Finalize
  <2> QED BY <1>1, <1>4, <2>1, <2>2, <2>3 DEF Results, Settle
<1> QED BY <1>2, <1>3, <1>4

\* What a request r may do to the map: the reservation it settles is its own.
RequestTraffic(r) ==
    /\ UNCHANGED now
    /\ \/ job[r] # NoJob /\ Lookup(job[r].id, job[r].cand)
       \/ Owns(r) /\ Attached(r) /\ Settle(job[r].id, job[r].cand)
       \/ UNCHANGED identifier_rate_limit

\* What a request does is a Lookup, a Settle or nothing.
LEMMA RequestIsTraffic ==
    ASSUME BaseInv, ReservationInv, NEW r \in Requests, RequestStep(r)
    PROVE  RequestTraffic(r)
<1>1. CASE Admission(r)
  <2>1. job[r] # NoJob
    BY <1>1 DEF Admission, AdmitFull, AdmitLimited, AdmitPending, AdmitReplay,
                AdmitNew, Admits, BaseInv, Phase, SlotFree
  <2> QED BY <1>1, <2>1, AdmissionIsLookup DEF ReservationInv, RequestTraffic
<1>2. CASE Owns(r) /\ RemovePending(r) /\ UNCHANGED now
  BY <1>2, RemovalIsSettle DEF RequestTraffic
<1>3. CASE Finalize(r)
  <2>1. UNCHANGED now
    BY <1>3 DEF Finalize
  <2> QED BY <1>3, <2>1, FinalizeIsSettle DEF RequestTraffic
<1>4. CASE Refund(r) \/ Cleanup(r) \/ CancelRemoves(r) \/ DeferredRemoval(r)
  <2>1. job[r] # NoJob
    BY <1>4 DEF Refund, Cleanup, CancelRemoves, GuardArmed, DeferredRemoval,
                BaseInv, Phase, SlotFree
  <2>2. UNCHANGED now
    BY <1>4 DEF Refund, Cleanup, CancelRemoves, DeferredRemoval
  <2>3. \/ Owns(r) /\ RemovePending(r)
        \/ UNCHANGED identifier_rate_limit
    BY <1>4, <2>1 DEF Refund, Cleanup, CancelRemoves, GuardArmed,
                      DeferredRemoval, Owns, BaseInv, Phase
  <2> QED BY <1>2, <2>2, <2>3 DEF RequestTraffic
<1>5. CASE \/ Receive(r) \/ PermitStep(r) \/ Database(r) \/ TaskPanics(r)
           \/ Respond(r) \/ SeePanic(r) \/ CancelDefers(r) \/ CancelUnguarded(r)
  BY <1>5 DEF RequestTraffic, Receive, PermitStep, AcquirePermit, PermitTimeout,
              PermitTimeoutReplay, Database, TaskPanics, Respond, SeePanic,
              CancelDefers, CancelUnguarded
<1> QED BY <1>1, <1>3, <1>4, <1>5
        DEF RequestStep, TaskStep, HandlerEnds, Cancel

\* A step of the server is one of a request, a sweep, a restart or a tick, or
\* leaves the map and the clock alone.
LEMMA StepKinds ==
    ASSUME BaseInv, ReservationInv, [Next]_vars
    PROVE  \/ \E r \in Requests : RequestStep(r) /\ RequestTraffic(r)
           \/ SweepMap /\ UNCHANGED <<now, reqVars>>
           \/ Restart
           \/ Tick
           \/ UNCHANGED <<now, identifier_rate_limit, reqVars>>
<1>1. CASE \E r \in Requests : RequestStep(r)
  BY <1>1, RequestIsTraffic
<1>2. CASE \E i \in Identifiers, c \in Candidates : Write(i, c)
  BY <1>2 DEF Write
<1>3. CASE SweepStamp
  BY <1>3 DEF SweepStamp
<1>4. CASE Sweep
  <2>1. sweep_at \in 0..now
    BY <1>4 DEF Sweep, BaseInv, Typing, ReservationInv, Clocks
  <2> QED BY <1>4, <2>1 DEF Sweep, SweepMap
<1>5. CASE UNCHANGED vars
  BY <1>5 DEF vars
<1> QED BY <1>1, <1>2, <1>3, <1>4, <1>5 DEF Next

\* Every step of the server is a step of traffic, or none.
LEMMA StepIsTraffic ==
    BaseInv /\ ReservationInv /\ [Next]_vars => [MapNext]_mapVars
<1> SUFFICES ASSUME BaseInv, ReservationInv, [Next]_vars
             PROVE  [MapNext]_mapVars
  OBVIOUS
<1>1. ASSUME NEW r \in Requests, RequestTraffic(r) PROVE [MapNext]_mapVars
  <2>1. job[r] # NoJob => job[r].id \in Identifiers /\ job[r].cand \in Candidates
    BY JobType DEF BaseInv
  <2>2. Owns(r) => job[r] # NoJob
    BY DEF Owns
  <2> QED BY <1>1, <2>1, <2>2 DEF RequestTraffic, MapNext, MapStep, mapVars
<1>2. CASE SweepMap /\ UNCHANGED now
  BY <1>2 DEF MapNext, MapStep
<1>3. CASE Restart
  BY <1>3 DEF Restart, Forget, MapStep, MapNext
<1>4. CASE Tick
  BY <1>4 DEF Tick, MapNext
<1>5. CASE UNCHANGED <<now, identifier_rate_limit>>
  BY <1>5 DEF mapVars
<1> QED BY <1>1, <1>2, <1>3, <1>4, <1>5, StepKinds

\* Whatever requests do, the map sees nothing but its traffic.
THEOREM TrafficImplementedCorrect == Spec => TrafficImplemented
<1>1. Init => MapInit
  BY DEF Init, MapInit
<1>2. BaseInv /\ ReservationInv /\ [Next]_vars => [MapNext]_mapVars
  BY StepIsTraffic
<1> QED BY <1>1, <1>2, ReservationInvariant, PTL
        DEF Spec, TrafficImplemented, MapSpec

\* So the map is within its limits, and what it counts adds up.
LEMMA CountsInvariant == Spec => []MapCounts
<1>1. TrafficInv => MapCounts
  BY DEF TrafficInv
<1> QED BY <1>1, TrafficImplementedCorrect, TrafficInvariant, PTL
        DEF TrafficImplemented

\* Both limits hold whenever those of the traffic do.
LEMMA LimitsInvariant == Spec => []LimitsHold
<1>1. TrafficInv => LimitsHold
  BY DEF TrafficInv
<1> QED BY <1>1, TrafficImplementedCorrect, TrafficInvariant, PTL
        DEF TrafficImplemented

\* Every failure that is counted is one of a committed candidate, for every
\* number of candidates and requests (fetch.rs:182-187).
THEOREM FailuresCommittedCorrect == Spec => []FailuresCommitted
<1>1. MapCounts => FailuresCommitted
  BY DEF MapCounts, Counts, CommittedOf, FailuresCommitted
<1> QED BY <1>1, CountsInvariant, PTL

\* No window holds more candidates than the budget.
THEOREM BudgetHoldsCorrect == Spec => []BudgetHolds
<1>1. LimitsHold => BudgetHolds
  BY DEF LimitsHold, WithinLimits, WithinBudget, BudgetHolds
<1> QED BY <1>1, LimitsInvariant, PTL

\* The map holds no more entries than it may, and none that is empty.
THEOREM CapacityHoldsCorrect == Spec => []CapacityHolds
<1>1. LimitsHold => CapacityHolds
  BY DEF LimitsHold, WithinLimits, WithinBudget, CapacityHolds
<1> QED BY <1>1, LimitsInvariant, PTL

-----------------------------------------------------------------------------
(* What requests do to the entries *)

\* What a request does to the entries: it empties one only as the owner of its
\* only candidate.
LEMMA RequestMoves ==
    ASSUME BaseInv, MapCounts, NEW r \in Requests, RequestTraffic(r)
    PROVE  \A j \in Identifiers :
              LET old == identifier_rate_limit[j]
                  new == identifier_rate_limit'[j]
              IN  \/ Advances(old, new)
                  \/ /\ Owns(r) /\ Attached(r) /\ j = job[r].id
                     /\ Empties(old, new)
<1>1. Typing /\ MapTyping
  BY DEF BaseInv, Typing, MapTyping
<1>2. CASE job[r] # NoJob /\ Lookup(job[r].id, job[r].cand)
  BY <1>1, <1>2, JobType, LookupMoves
<1>3. CASE Owns(r) /\ Attached(r) /\ Settle(job[r].id, job[r].cand)
  <2>1. identifier_rate_limit[job[r].id] # NoEntry
    BY <1>3 DEF Attached, SameWindow
  <2> QED BY <1>1, <1>3, <2>1, OwnerType, SettleMoves DEF Advances
<1>4. CASE UNCHANGED identifier_rate_limit
  BY <1>1, <1>4, AdvancesItself DEF Typing, IdentifierMap
<1> QED BY <1>2, <1>3, <1>4 DEF RequestTraffic

\* Every step but a restart moves the entries.
LEMMA StepMoves ==
    ASSUME BaseInv, ReservationInv, MapCounts, [Next]_vars
    PROVE  \/ Restart
           \/ \A j \in Identifiers :
                 Moves(identifier_rate_limit[j], identifier_rate_limit'[j])
<1>1. Typing /\ MapTyping
  BY DEF BaseInv, Typing, MapTyping
<1>2. CASE \E r \in Requests : RequestTraffic(r)
  <2>1. PICK r \in Requests : RequestTraffic(r)
    BY <1>2
  <2>2. Attached(r) => identifier_rate_limit[job[r].id] # NoEntry
    BY DEF Attached, SameWindow
  <2> QED BY <2>1, <2>2, RequestMoves DEF Moves
<1>3. CASE SweepMap
  BY <1>1, <1>3, SweepMoves DEF Moves
<1>4. CASE Restart
  BY <1>4
<1>5. CASE Tick \/ UNCHANGED <<now, identifier_rate_limit>>
  <2>1. UNCHANGED identifier_rate_limit
    BY <1>5 DEF Tick
  <2> QED BY <1>1, <2>1, AdvancesItself
          DEF Typing, IdentifierMap, Moves
<1> QED BY <1>2, <1>3, <1>4, <1>5, StepKinds

-----------------------------------------------------------------------------
(* What traffic may never do *)

\* A window that lapses never has the generation of its successor: the cooldown
\* is longer than any stamp can be late.
LEMMA LapseIsLater ==
    ASSUME BaseInv, Clocks, NEW i \in Known(identifier_rate_limit),
           NEW new, new # NoEntry,
           Lapses(identifier_rate_limit[i], new)
    PROVE  /\ new.window_started_at # identifier_rate_limit[i].window_started_at
           /\ now > identifier_rate_limit[i].window_started_at + RouteTimeout
<1> DEFINE old == identifier_rate_limit[i]
<1>1. /\ old.window_started_at \in Nat /\ old.last_candidate_at \in Nat
      /\ old.window_started_at <= old.last_candidate_at + RouteTimeout
      /\ now \in Nat
  BY EntryType DEF BaseInv, Typing, Clocks, Known
<1>2. /\ now > old.last_candidate_at + Cooldown
      /\ now <= new.window_started_at + RouteTimeout
      /\ new.window_started_at \in 0..now
  BY DEF Lapses, Reopened, RecentStamps
<1> HIDE DEF old
<1>3. /\ now > old.window_started_at + RouteTimeout
      /\ new.window_started_at # old.window_started_at
  BY <1>1, <1>2, TimeAssumption, TrafficAssumption, MapAssumption
<1> QED BY <1>3 DEF old

\* No step but a restart takes a charge back, or turns a counter back, within
\* the cooldown of the last new candidate (fetch.rs:234-244, rate_limit.rs:52).
THEOREM ChargeKeptCorrect == Spec => ChargeKept
<1> DEFINE Kept ==
      Restart \/
      \A i \in Known(identifier_rate_limit), c \in Candidates :
          LET old == identifier_rate_limit[i]
              new == identifier_rate_limit'[i]
          IN  old.candidates[c] = "Committed" =>
                \/ now > old.last_candidate_at + Cooldown
                \/ /\ new # NoEntry
                   /\ new.window_started_at = old.window_started_at
                   /\ new.candidates[c] = "Committed"
                   /\ new.failed_candidates >= old.failed_candidates
                   /\ new.total_requests >= old.total_requests
<1>1. ASSUME NEW old, old # NoEntry, NEW new, NEW c \in Candidates, Moves(old, new),
             old.candidates[c] = "Committed"
      PROVE  \/ now > old.last_candidate_at + Cooldown
             \/ /\ new # NoEntry
                /\ new.window_started_at = old.window_started_at
                /\ new.candidates[c] = "Committed"
                /\ new.failed_candidates >= old.failed_candidates
                /\ new.total_requests >= old.total_requests
  BY <1>1, NoEntryAssumption DEF Moves, Advances, Keeps, Lapses, Empties
<1>2. BaseInv /\ ReservationInv /\ MapCounts /\ [Next]_vars => Kept
  BY <1>1, StepMoves DEF Known
<1>3. BaseInv /\ ReservationInv /\ MapCounts /\ [Next]_vars => [Kept]_vars
  BY <1>2
<1> QED BY <1>3, BaseInvariant, ReservationInvariant, CountsInvariant, PTL
        DEF Spec, ChargeKept

\* Only a candidate that becomes pending moves the reset of an open window
\* (fetch.rs:255-256 and 282).
THEOREM OnlyNewSlidesCorrect == Spec => OnlyNewSlides
<1> DEFINE Slides ==
      \A i \in Known(identifier_rate_limit) :
          LET old == identifier_rate_limit[i]
              new == identifier_rate_limit'[i]
          IN  /\ new # NoEntry
              /\ new.window_started_at = old.window_started_at
              /\ new.last_candidate_at # old.last_candidate_at
              => \E c \in Candidates :
                    /\ old.candidates[c] = "Absent"
                    /\ new.candidates[c] = "Pending"
<1>1. BaseInv /\ ReservationInv /\ MapCounts /\ [Next]_vars => Slides
  <2> SUFFICES ASSUME BaseInv, ReservationInv, MapCounts, [Next]_vars,
                      NEW i \in Known(identifier_rate_limit),
                      identifier_rate_limit'[i] # NoEntry,
                      identifier_rate_limit'[i].window_started_at =
                          identifier_rate_limit[i].window_started_at,
                      identifier_rate_limit'[i].last_candidate_at #
                          identifier_rate_limit[i].last_candidate_at
               PROVE  \E c \in Candidates :
                         /\ identifier_rate_limit[i].candidates[c] = "Absent"
                         /\ identifier_rate_limit'[i].candidates[c] = "Pending"
    OBVIOUS
  <2>1. ~Restart
    BY DEF Restart, EmptyMap, Known
  <2>2. Moves(identifier_rate_limit[i], identifier_rate_limit'[i])
    BY <2>1, StepMoves DEF Known
  <2>3. Keeps(identifier_rate_limit[i], identifier_rate_limit'[i])
    BY <2>2, LapseIsLater DEF Moves, Advances, Empties, ReservationInv, Known
  <2> QED BY <2>3 DEF Keeps
<1>2. BaseInv /\ ReservationInv /\ MapCounts /\ [Next]_vars => [Slides]_vars
  BY <1>1
<1> QED BY <1>2, BaseInvariant, ReservationInvariant, CountsInvariant, PTL
        DEF Spec, OnlyNewSlides

\* The reset of an open window goes back by the route timeout at most, and never
\* lies more than a cooldown ahead (fetch.rs:117 and 282).
THEOREM ResetsAtHoldsCorrect == Spec => ResetsAtHolds
<1> DEFINE Resets ==
      \A i \in Known(identifier_rate_limit) :
          LET old == identifier_rate_limit[i]
              new == identifier_rate_limit'[i]
          IN  new # NoEntry /\ new.window_started_at = old.window_started_at =>
                new.last_candidate_at \in old.last_candidate_at - RouteTimeout .. now
<1>1. BaseInv /\ ReservationInv /\ MapCounts /\ [Next]_vars => Resets
  <2> SUFFICES ASSUME BaseInv, ReservationInv, MapCounts, [Next]_vars,
                      NEW i \in Known(identifier_rate_limit),
                      identifier_rate_limit'[i] # NoEntry,
                      identifier_rate_limit'[i].window_started_at =
                          identifier_rate_limit[i].window_started_at
               PROVE  identifier_rate_limit'[i].last_candidate_at
                         \in identifier_rate_limit[i].last_candidate_at
                                 - RouteTimeout .. now
    OBVIOUS
  <2>1. ~Restart
    BY DEF Restart, EmptyMap, Known
  <2>2. Moves(identifier_rate_limit[i], identifier_rate_limit'[i])
    BY <2>1, StepMoves DEF Known
  <2>3. Keeps(identifier_rate_limit[i], identifier_rate_limit'[i])
    BY <2>2, LapseIsLater DEF Moves, Advances, Empties, ReservationInv, Known
  <2>4. /\ identifier_rate_limit[i].last_candidate_at \in Nat
        /\ identifier_rate_limit[i].last_candidate_at <= now
        /\ now \in Nat
    BY EntryType DEF BaseInv, Typing, ReservationInv, Clocks, Known
  <2> QED BY <2>3, <2>4, TrafficAssumption DEF Keeps, RecentStamps
<1>2. BaseInv /\ ReservationInv /\ MapCounts /\ [Next]_vars => [Resets]_vars
  BY <1>1
<1> QED BY <1>2, BaseInvariant, ReservationInvariant, CountsInvariant, PTL
        DEF Spec, ResetsAtHolds

-----------------------------------------------------------------------------
(* Answers *)

\* The handler of r holds an answer that tells whether the guess was right.
Told(r) ==
    /\ handler[r] = "task" /\ task[r] = "finished"
    /\ result[r] \in {"hit", "miss"}

\* The candidate of r is committed in the entry of its identifier.
Charged(r) == identifier_rate_limit[job[r].id].candidates[job[r].cand] = "Committed"

\* The window of r is open, and was stamped after r arrived or a little before.
OpenFor(r) ==
    /\ Attached(r)
    /\ job[r].requested_at <=
          identifier_rate_limit[job[r].id].last_candidate_at + RouteTimeout

\* What a live handler can rely on: the window of a new candidate outlives it,
\* and the candidate is committed before it is told; a replay's candidate is
\* committed as long as its window is there, and the window does not come back.
AnswerReady(r) ==
    /\ Owns(r) /\ handler[r] # "idle" => OpenFor(r)
    /\ Told(r) /\ job[r].is_new => OpenFor(r) /\ Charged(r)
    /\ handler[r] \in {"permit", "task"} /\ ~job[r].is_new =>
          IF Attached(r) THEN Charged(r)
                         ELSE now > job[r].generation + RouteTimeout

AnswersReady == \A r \in Requests : AnswerReady(r)

\* What a step leaves of a request it is not about.
Undisturbed(r) ==
    /\ handler'[r] = handler[r] /\ job'[r] = job[r] /\ task'[r] = task[r]
    /\ result'[r] = result[r] /\ deferred'[r] = deferred[r]

\* A request whose handler is dropped or has ended relies on nothing.
LEMMA IdleReady ==
    ASSUME NEW r \in Requests, handler'[r] = "idle"
    PROVE  AnswerReady(r)'
BY DEF AnswerReady, Told

\* A step that leaves the map and the locals of r alone, and neither tells it
\* anything nor lets it go on, leaves it ready.
LEMMA LocalReady ==
    ASSUME BaseInv, AnswersReady, NEW r \in Requests,
           UNCHANGED identifier_rate_limit, job'[r] = job[r],
           now' = now \/ now' = now + 1,
           Owns(r)' /\ handler'[r] # "idle" => Owns(r) /\ handler[r] # "idle",
           Told(r)' /\ job[r].is_new => Told(r),
           handler'[r] \in {"permit", "task"} => handler[r] \in {"permit", "task"}
    PROVE  AnswerReady(r)'
<1>1. AnswerReady(r) /\ now \in Nat
  BY DEF AnswersReady, BaseInv, Typing
<1>2. /\ OpenFor(r)' <=> OpenFor(r)
      /\ Charged(r)' <=> Charged(r)
      /\ Attached(r)' <=> Attached(r)
  BY DEF OpenFor, Charged, Attached, SameWindow
<1>3. CASE job[r] = NoJob
  <2>1. handler[r] = "idle" /\ ~Owns(r)'
    BY <1>3 DEF BaseInv, Phase, SlotFree, Owns
  <2> QED BY <1>1, <1>2, <2>1 DEF AnswerReady, Told
<1>4. CASE job[r] # NoJob
  <2>1. job[r].generation \in Nat
    BY <1>4, JobType DEF BaseInv
  <2> QED BY <1>1, <1>2, <2>1, TrafficAssumption DEF AnswerReady
<1> QED BY <1>3, <1>4

\* So does a step elsewhere that advances the entry of its identifier: the
\* window cannot lapse under a handler that is younger than the route timeout,
\* and one that has lapsed does not come back.
LEMMA MovedReady ==
    ASSUME BaseInv, Clocks, AnswersReady, now' = now,
           NEW r \in Requests, Undisturbed(r), job[r] # NoJob,
           LET old == identifier_rate_limit[job[r].id]
               new == identifier_rate_limit'[job[r].id]
           IN  \/ Advances(old, new)
               \/ Empties(old, new) /\ ~(Owns(r) /\ Attached(r))
    PROVE  AnswerReady(r)'
<1> DEFINE old == identifier_rate_limit[job[r].id]
           new == identifier_rate_limit'[job[r].id]
           g == job[r].generation
           c == job[r].cand
           asked == job[r].requested_at
<1>1. /\ c \in Candidates /\ g \in Nat /\ asked \in Nat
      /\ asked <= now /\ now \in Nat
      /\ handler[r] # "idle" => now <= asked + RouteTimeout
  BY JobType DEF BaseInv, Typing, Clocks
<1>2. old # NoEntry => /\ old.window_started_at \in Nat
                       /\ old.last_candidate_at \in Nat
                       /\ old.window_started_at
                             <= old.last_candidate_at + RouteTimeout
  BY JobType, EntryType DEF BaseInv, Typing, Clocks
<1>3. /\ Attached(r) <=> old # NoEntry /\ old.window_started_at = g
      /\ OpenFor(r) <=> /\ Attached(r)
                        /\ asked <= old.last_candidate_at + RouteTimeout
      /\ Charged(r) <=> old.candidates[c] = "Committed"
  BY DEF Attached, SameWindow, OpenFor, Charged
<1>4. /\ Attached(r)' <=> new # NoEntry /\ new.window_started_at = g
      /\ OpenFor(r)' <=> /\ Attached(r)'
                         /\ asked <= new.last_candidate_at + RouteTimeout
      /\ Charged(r)' <=> new.candidates[c] = "Committed"
  BY DEF Attached, SameWindow, OpenFor, Charged, Undisturbed
<1>5. /\ Owns(r)' <=> Owns(r)
      /\ Told(r)' <=> Told(r)
      /\ handler'[r] = handler[r] /\ job'[r] = job[r]
  BY DEF Owns, TaskRuns, Told, Undisturbed
<1>6. AnswerReady(r)
  BY DEF AnswersReady
<1>7. \/ old = NoEntry /\ Reopened(new)
      \/ old # NoEntry /\ Keeps(old, new)
      \/ old # NoEntry /\ Lapses(old, new)
      \/ Empties(old, new) /\ ~(Owns(r) /\ Attached(r))
  BY DEF Advances
<1> HIDE DEF old, new, g, c, asked
<1>8. ASSUME OpenFor(r), handler[r] # "idle", Advances(old, new)
      PROVE  OpenFor(r)' /\ (Charged(r) => Charged(r)')
  <2>1. ~Lapses(old, new)
    BY <1>1, <1>2, <1>3, <1>8, TimeAssumption, TrafficAssumption, MapAssumption
       DEF Lapses
  <2>2. Keeps(old, new) /\ new # NoEntry
    BY <1>3, <1>8, <2>1, NoEntryAssumption DEF Advances, Keeps
  <2> QED BY <1>1, <1>2, <1>3, <1>4, <1>8, <2>2, TrafficAssumption
          DEF Keeps, RecentStamps
<1>9. ASSUME Charged(r) PROVE ~Empties(old, new)
  BY <1>1, <1>3, <1>9 DEF Empties
<1>10. ASSUME Attached(r), Charged(r)
       PROVE  IF Attached(r)' THEN Charged(r)' ELSE now > g + RouteTimeout
  <2>1. CASE Keeps(old, new)
    BY <1>1, <1>3, <1>4, <1>10, <2>1, NoEntryAssumption DEF Keeps
  <2>2. CASE Lapses(old, new)
    BY <1>1, <1>2, <1>3, <1>4, <1>10, <2>2,
       TimeAssumption, TrafficAssumption, MapAssumption
       DEF Lapses, Reopened, RecentStamps
  <2> QED BY <1>3, <1>7, <1>9, <1>10, <2>1, <2>2
<1>11. ASSUME ~Attached(r), now > g + RouteTimeout
       PROVE  ~Attached(r)'
  <2>1. CASE Reopened(new)
    BY <1>1, <1>4, <1>11, <2>1, TrafficAssumption DEF Reopened, RecentStamps
  <2>2. CASE old # NoEntry /\ Keeps(old, new)
    BY <1>3, <1>4, <1>11, <2>2 DEF Keeps
  <2>3. CASE Empties(old, new)
    BY <1>4, <2>3 DEF Empties
  <2> QED BY <1>7, <2>1, <2>2, <2>3 DEF Lapses
<1>12. Owns(r) /\ handler[r] # "idle" => OpenFor(r)'
  BY <1>6, <1>7, <1>8 DEF AnswerReady, Advances, OpenFor
<1>13. Told(r) /\ job[r].is_new => OpenFor(r)' /\ Charged(r)'
  BY <1>6, <1>7, <1>8, <1>9 DEF AnswerReady, Advances, Told
<1>14. handler[r] \in {"permit", "task"} /\ ~job[r].is_new =>
          IF Attached(r)' THEN Charged(r)' ELSE now > g + RouteTimeout
  BY <1>6, <1>10, <1>11 DEF AnswerReady, g
<1> QED BY <1>5, <1>12, <1>13, <1>14 DEF AnswerReady, g

\* A request does nothing to the locals of another.
LEMMA OthersUndisturbed ==
    ASSUME Typing, NEW s \in Requests, RequestStep(s),
           NEW r \in Requests, r # s
    PROVE  Undisturbed(r)
<1>1. CASE Free(s)
  BY <1>1 DEF Typing, Free, Undisturbed
<1>2. CASE Receive(s)
  <2>1. PICK new : job' = [job EXCEPT ![s] = new]
    BY <1>2 DEF Receive
  <2> QED BY <1>2, <2>1 DEF Typing, Receive, Undisturbed
<1>3. CASE AdmitReplay(s) \/ AdmitNew(s)
  <2>1. PICK is_new : Proceed(s, is_new)
    BY <1>3 DEF AdmitReplay, AdmitNew
  <2> QED BY <2>1 DEF Typing, Proceed, Undisturbed
<1>4. CASE Database(s)
  BY <1>4 DEF Typing, Database, Undisturbed
<1>5. CASE AcquirePermit(s) \/ PermitTimeout(s) \/ SeePanic(s) \/ CancelDefers(s)
  BY <1>5 DEF Typing, AcquirePermit, PermitTimeout, SeePanic, CancelDefers,
              Undisturbed
<1>6. CASE ~Free(s) /\ (Finalize(s) \/ TaskPanics(s) \/ CancelUnguarded(s))
  BY <1>6 DEF Typing, Finalize, TaskPanics, TaskEnds, CancelUnguarded, Undisturbed
<1>7. CASE \/ AdmitFull(s) \/ AdmitLimited(s) \/ AdmitPending(s)
           \/ PermitTimeoutReplay(s) \/ Refund(s) \/ Respond(s) \/ Cleanup(s)
           \/ CancelRemoves(s) \/ DeferredRemoval(s)
  <2>1. Free(s)
    BY <1>7 DEF AdmitFull, AdmitLimited, AdmitPending, PermitTimeoutReplay,
                Refund, Respond, Cleanup, CancelRemoves, DeferredRemoval
  <2> QED BY <1>1, <2>1
<1> QED BY <1>1, <1>2, <1>3, <1>4, <1>5, <1>6, <1>7
        DEF RequestStep, Admission, PermitStep, TaskStep, HandlerEnds, Cancel

\* A replay is admitted into an open window in which it is committed.
LEMMA ReplayReady ==
    ASSUME BaseInv, NEW r \in Requests, AdmitReplay(r)
    PROVE  AnswerReady(r)'
<1> DEFINE i == job[r].id
           c == job[r].cand
<1>1. /\ Typing /\ job[r] \in Job /\ i \in Identifiers
      /\ OwnEntry(r) \in RateLimitInfo /\ Counted(r)[i] = OwnEntry(r)
      /\ task[r] = "none" /\ ~deferred[r]
  BY JobType, AdmissionType
     DEF BaseInv, AdmitReplay, Admits, Phase, SlotFree, OwnEntry
<1>2. /\ job' = [job EXCEPT ![r].is_new = FALSE,
                            ![r].generation = OwnEntry(r).window_started_at]
      /\ handler' = [handler EXCEPT ![r] = "permit"]
      /\ identifier_rate_limit' = Counted(r)
      /\ OwnEntry(r).candidates[c] = "Committed"
  BY DEF AdmitReplay, Proceed
<1>3. job'[r] = [[job[r] EXCEPT !.is_new = FALSE]
                    EXCEPT !.generation = OwnEntry(r).window_started_at]
  BY <1>1, <1>2, Zenon DEF Typing
<1>4. /\ job'[r].id = i /\ job'[r].cand = c /\ ~job'[r].is_new
      /\ job'[r].generation = OwnEntry(r).window_started_at
  BY <1>1, <1>3 DEF Job
<1>5. handler'[r] = "permit"
  BY <1>1, <1>2 DEF Typing
<1>6. Attached(r)' /\ Charged(r)'
  BY <1>1, <1>2, <1>4, NoEntryAssumption DEF Attached, SameWindow, Charged
<1>7. ~Owns(r)' /\ ~Told(r)'
  BY <1>4, <1>5 DEF Owns, Told
<1> QED BY <1>4, <1>6, <1>7 DEF AnswerReady

\* Reserving a candidate stamps the entry and leaves its window alone.
LEMMA ReserveStamps ==
    ASSUME NEW info \in RateLimitInfo, NEW c \in Candidates, NEW t \in Nat
    PROVE  /\ Reserve(info, c, t) \in RateLimitInfo
           /\ Reserve(info, c, t).window_started_at = info.window_started_at
           /\ Reserve(info, c, t).last_candidate_at = t
<1>1. /\ Reserve(info, c, t) \in RateLimitInfo
      /\ Reserve(info, c, t).window_started_at = info.window_started_at
      /\ Reserve(info, c, t).last_candidate_at = t
      /\ Reserve(info, c, t).candidates =
            [info.candidates EXCEPT ![c] = "Pending"]
  BY ReserveType
<1> QED BY <1>1

\* A new candidate stamps the window it is admitted into.
LEMMA NewReady ==
    ASSUME BaseInv, NEW r \in Requests, AdmitNew(r)
    PROVE  AnswerReady(r)'
<1> DEFINE i == job[r].id
           c == job[r].cand
           t == job[r].requested_at
           e == Reserve(OwnEntry(r), c, t)
<1>1. /\ Typing /\ job[r] \in Job /\ i \in Identifiers /\ c \in Candidates
      /\ t \in Nat
      /\ OwnEntry(r) \in RateLimitInfo /\ Counted(r) \in IdentifierMap
      /\ Counted(r)[i] = OwnEntry(r)
  BY JobType, AdmissionType
     DEF BaseInv, AdmitNew, Admits, Phase, SlotFree, OwnEntry
<1>2. /\ job' = [job EXCEPT ![r].is_new = TRUE,
                            ![r].generation = OwnEntry(r).window_started_at]
      /\ handler' = [handler EXCEPT ![r] = "permit"]
      /\ identifier_rate_limit' = [Counted(r) EXCEPT ![i] = e]
  BY <1>1 DEF AdmitNew, Proceed
<1>3. /\ e \in RateLimitInfo
      /\ e.window_started_at = OwnEntry(r).window_started_at
      /\ e.last_candidate_at = t
  BY <1>1, ReserveStamps
<1>4. job'[r] = [[job[r] EXCEPT !.is_new = TRUE]
                    EXCEPT !.generation = OwnEntry(r).window_started_at]
  BY <1>1, <1>2, Zenon DEF Typing
<1>5. /\ job'[r].id = i /\ job'[r].requested_at = t /\ job'[r].is_new
      /\ job'[r].generation = OwnEntry(r).window_started_at
  BY <1>1, <1>4 DEF Job
<1>6. identifier_rate_limit'[i] = e /\ handler'[r] = "permit"
  BY <1>1, <1>2 DEF IdentifierMap, Typing
<1> HIDE DEF i, c, t, e
<1>7. OpenFor(r)'
  BY <1>1, <1>3, <1>5, <1>6, NoEntryAssumption, TrafficAssumption
     DEF OpenFor, Attached, SameWindow
<1> QED BY <1>5, <1>6, <1>7 DEF AnswerReady, Told

\* A new candidate whose lookup has found out whether the guess was right is
\* committed in its window, which is still open, before its handler is told.
LEMMA FinalizeReady ==
    ASSUME BaseInv, ReservationInv, AnswersReady,
           NEW r \in Requests, Finalize(r)
    PROVE  AnswerReady(r)'
<1> DEFINE i == job[r].id
           c == job[r].cand
           g == job[r].generation
           old == identifier_rate_limit[i]
           new == identifier_rate_limit'[i]
<1>1. /\ Typing /\ task[r] = "finalizing" /\ job[r] # NoJob
      /\ result[r] \in Results /\ now' = now
  BY DEF BaseInv, Finalize, Phase, SlotFree
<1>2. CASE handler[r] # "task"
  <2>1. handler'[r] = "idle"
    BY <1>1, <1>2 DEF Finalize, TaskEnds, Free, Typing
  <2> QED BY <2>1, IdleReady
<1>3. CASE handler[r] = "task"
  <2>1. /\ task'[r] = "finished"
        /\ UNCHANGED <<handler, job, result, deferred>> /\ ~deferred[r]
    BY <1>1, <1>3 DEF Finalize, TaskEnds, Typing, BaseInv, Phase
  <2>2. ~Owns(r)'
    BY <1>3, <2>1 DEF Owns, TaskRuns
  <2>3. CASE ~job[r].is_new
    <3>1. UNCHANGED identifier_rate_limit
      BY <2>3 DEF Finalize
    <3> QED BY <1>1, <1>3, <2>1, <2>2, <2>3, <3>1, LocalReady
  <2>4. CASE job[r].is_new
    <3>1. SUFFICES ASSUME result[r] \in {"hit", "miss"}
                   PROVE  OpenFor(r)' /\ Charged(r)'
      BY <2>1, <2>2, <2>4 DEF AnswerReady, Told
    <3>2. Owns(r) /\ OpenFor(r)
      BY <1>1, <1>3, <2>4 DEF Owns, TaskRuns, AnswersReady, AnswerReady
    <3>3. /\ old # NoEntry /\ old.window_started_at = g
          /\ old.candidates[c] = "Pending"
      BY <3>2 DEF OpenFor, Attached, SameWindow, ReservationInv, Holds
    <3>4. old \in RateLimitInfo /\ c \in Candidates /\ i \in Identifiers
      BY <1>1, <3>3, JobType, EntryType DEF Typing
    <3>5. new \in {Commit(old, c), CommitMiss(old, c)}
      <4>1. HoldsReservation(identifier_rate_limit, i, c, g)
        BY <3>3 DEF HoldsReservation, SameWindow
      <4> QED BY <1>1, <2>4, <3>1, <3>4, <4>1
              DEF Finalize, finalize, Typing, IdentifierMap
    <3>6. KeepsBut(old, new, c) /\ new.candidates[c] = "Committed"
      <4> HIDE DEF old, new
      <4> QED BY <3>3, <3>4, <3>5, CommitType
    <3> QED BY <2>1, <3>2, <3>3, <3>6, NoEntryAssumption
            DEF KeepsBut, OpenFor, Attached, SameWindow, Charged
  <2> QED BY <2>3, <2>4
<1> QED BY <1>2, <1>3

\* Every step of a request leaves itself ready.
LEMMA OwnReady ==
    ASSUME BaseInv, ReservationInv, AnswersReady,
           NEW r \in Requests, RequestStep(r)
    PROVE  AnswerReady(r)'
<1>1. Typing /\ Phase(r)
  BY DEF BaseInv
<1>2. CASE Free(r)
  <2>1. handler'[r] = "idle"
    BY <1>1, <1>2 DEF Free, Typing
  <2> QED BY <2>1, IdleReady
<1>3. CASE Receive(r)
  <2>1. PICK new \in Job : job' = [job EXCEPT ![r] = new] /\ ~new.is_new
    <3>1. PICK i \in Identifiers, d \in Candidates, route \in Routes :
             job' = [job EXCEPT ![r] =
                       [id |-> i, cand |-> d, route |-> route,
                        requested_at |-> now, is_new |-> FALSE,
                        generation |-> 0]]
      BY <1>3 DEF Receive
    <3>2. [id |-> i, cand |-> d, route |-> route, requested_at |-> now,
           is_new |-> FALSE, generation |-> 0] \in Job
      BY <1>1 DEF Job, Typing
    <3> QED BY <3>1, <3>2
  <2>2. handler'[r] = "requested" /\ ~job'[r].is_new
    BY <1>1, <1>3, <2>1 DEF Receive, Typing
  <2> QED BY <2>2 DEF AnswerReady, Owns, Told
<1>4. CASE AdmitReplay(r)
  BY <1>4, ReplayReady
<1>5. CASE AdmitNew(r)
  BY <1>5, NewReady
<1>6. CASE Finalize(r)
  BY <1>6, FinalizeReady
<1>7. CASE AcquirePermit(r) \/ PermitTimeout(r) \/ Database(r) \/ SeePanic(r)
  <2>1. /\ UNCHANGED <<now, identifier_rate_limit, job, deferred>>
        /\ task'[r] # "finished"
        /\ Owns(r)' /\ handler'[r] # "idle" => Owns(r) /\ handler[r] # "idle"
        /\ handler'[r] \in {"permit", "task"} => handler[r] \in {"permit", "task"}
    BY <1>1, <1>7
       DEF AcquirePermit, PermitTimeout, Database, SeePanic, Typing, Phase,
           Owns, TaskRuns
  <2> QED BY <2>1, LocalReady DEF Told
<1>8. CASE TaskPanics(r) /\ ~Free(r)
  <2>1. /\ UNCHANGED <<now, identifier_rate_limit, job, deferred, handler>>
        /\ task'[r] = "panicked" /\ task[r] = "finalizing"
    BY <1>1, <1>8 DEF TaskPanics, TaskEnds, Typing
  <2> QED BY <2>1, LocalReady DEF Told, Owns, TaskRuns
<1>9. CASE (CancelDefers(r) \/ CancelUnguarded(r)) /\ ~Free(r)
  <2>1. handler'[r] = "idle"
    BY <1>1, <1>9 DEF CancelDefers, CancelUnguarded, Typing
  <2> QED BY <2>1, IdleReady
<1>10. CASE \/ AdmitFull(r) \/ AdmitLimited(r) \/ AdmitPending(r)
            \/ PermitTimeoutReplay(r) \/ Refund(r) \/ Respond(r) \/ Cleanup(r)
            \/ CancelRemoves(r) \/ DeferredRemoval(r)
  <2>1. Free(r)
    BY <1>10 DEF AdmitFull, AdmitLimited, AdmitPending, PermitTimeoutReplay,
                 Refund, Respond, Cleanup, CancelRemoves, DeferredRemoval
  <2> QED BY <1>2, <2>1
<1> QED BY <1>2, <1>3, <1>4, <1>5, <1>6, <1>7, <1>8, <1>9, <1>10
        DEF RequestStep, Admission, PermitStep, TaskStep, HandlerEnds, Cancel

\* Every step of the server leaves every request ready: a reservation that
\* empties an entry is the only one in it, so it is no other request's.
LEMMA ReadyStep ==
    BaseInv /\ ReservationInv /\ MapCounts /\ AnswersReady /\ [Next]_vars
        => AnswersReady'
<1> SUFFICES ASSUME BaseInv, ReservationInv, MapCounts, AnswersReady,
                    [Next]_vars, NEW r \in Requests
             PROVE  AnswerReady(r)'
  BY DEF AnswersReady
<1>1. Typing /\ Clocks
  BY DEF BaseInv, ReservationInv
<1>2. CASE job[r] = NoJob /\ Undisturbed(r)
  <2>1. handler'[r] = "idle"
    BY <1>2 DEF BaseInv, Phase, SlotFree, Undisturbed
  <2> QED BY <2>1, IdleReady
<1>3. ASSUME NEW s \in Requests, RequestStep(s), RequestTraffic(s)
      PROVE  AnswerReady(r)'
  <2>1. CASE s = r
    BY <1>3, <2>1, OwnReady
  <2>2. CASE s # r /\ job[r] # NoJob
    <3> DEFINE old == identifier_rate_limit[job[r].id]
               new == identifier_rate_limit'[job[r].id]
    <3>1. Undisturbed(r) /\ now' = now
      BY <1>1, <1>3, <2>2, OthersUndisturbed DEF RequestTraffic
    <3>2. \/ Advances(old, new)
          \/ /\ Owns(s) /\ Attached(s) /\ job[r].id = job[s].id
             /\ Empties(old, new)
      BY <1>1, <1>3, <2>2, JobType, RequestMoves
    <3>3. ASSUME Owns(s), Attached(s), job[r].id = job[s].id, Empties(old, new),
                 Owns(r), Attached(r)
          PROVE  FALSE
      <4>1. /\ old.candidates[job[s].cand] = "Pending"
            /\ old.candidates[job[r].cand] = "Pending"
            /\ job[s].cand \in Candidates /\ job[r].cand \in Candidates
        BY <1>1, <3>3, OwnerType DEF ReservationInv, Holds
      <4>2. job[s].cand = job[r].cand
        BY <3>3, <4>1 DEF Empties
      <4>3. SameReservation(r, s)
        BY <3>3, <4>2 DEF SameReservation, Attached, SameWindow
      <4> QED BY <2>2, <3>3, <4>3 DEF ReservationInv, ReservationsDisjoint
    <3> QED BY <1>1, <2>2, <3>1, <3>2, <3>3, MovedReady
  <2>3. CASE s # r /\ job[r] = NoJob
    BY <1>1, <1>2, <1>3, <2>3, OthersUndisturbed
  <2> QED BY <2>1, <2>2, <2>3
<1>4. CASE SweepMap /\ UNCHANGED <<now, reqVars>>
  <2>1. Undisturbed(r)
    BY <1>4 DEF reqVars, Undisturbed
  <2>2. CASE job[r] # NoJob
    <3>1. Advances(identifier_rate_limit[job[r].id],
                   identifier_rate_limit'[job[r].id])
      BY <1>1, <1>4, <2>2, JobType, SweepMoves DEF Typing, MapTyping
    <3> QED BY <1>1, <1>4, <2>1, <2>2, <3>1, MovedReady
  <2> QED BY <1>2, <2>1, <2>2
<1>5. CASE Restart
  <2>1. handler'[r] = "idle"
    BY <1>5 DEF Restart
  <2> QED BY <2>1, IdleReady
<1>6. CASE Tick \/ UNCHANGED <<now, identifier_rate_limit, reqVars>>
  <2>1. /\ UNCHANGED <<identifier_rate_limit, reqVars>>
        /\ now' = now \/ now' = now + 1
    BY <1>6 DEF Tick
  <2> QED BY <2>1, LocalReady DEF reqVars, Owns, TaskRuns, Told
<1> QED BY <1>3, <1>4, <1>5, <1>6, StepKinds

\* An answer that tells whether the guess was right is charged in its window
\* before it leaves, and the window of a new candidate is still open then,
\* provided a cooldown lasts at least two route timeouts (fetch.rs:364-374).
THEOREM AnswersChargedCorrect == Spec => []AnswersCharged
<1>1. Init => AnswersReady
  BY DEF Init, AnswersReady, AnswerReady, Owns, TaskRuns, Told
<1>2. BaseInv /\ AnswersReady => AnswersCharged
  <2> SUFFICES ASSUME BaseInv, AnswersReady, NEW r \in Requests, Told(r),
                      job[r].is_new \/ Attached(r)
               PROVE  Attached(r) /\ Charged(r)
    BY DEF AnswersCharged, Told, Charged
  <2>1. AnswerReady(r) /\ handler[r] = "task"
    BY DEF AnswersReady, Told
  <2> QED BY <2>1 DEF AnswerReady, OpenFor
<1> QED BY <1>1, <1>2, ReadyStep, BaseInvariant, ReservationInvariant,
           CountsInvariant, PTL DEF Spec

=============================================================================
