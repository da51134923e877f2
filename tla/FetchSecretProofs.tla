-------------------------- MODULE FetchSecretProofs ---------------------------
(***************************************************************************)
(* Theorems about FetchSecret, for every set of requests, identifiers and  *)
(* candidates and every value of the limits.                               *)
(***************************************************************************)
EXTENDS FetchSecret, RateLimitMapProofs

-----------------------------------------------------------------------------
(* Types, phases of a request, permits *)

\* TypeOK without the upper bound of permits, which needs PermitsConserved.
Typing ==
    /\ now \in Nat
    /\ identifier_rate_limit \in IdentifierMap
    /\ handler \in [Requests -> HandlerState]
    /\ job \in [Requests -> Job \cup {NoJob}]
    /\ task \in [Requests -> TaskState]
    /\ result \in [Requests -> Result]
    /\ deferred \in [Requests -> BOOLEAN]
    /\ permits \in Nat
    /\ secret \in SUBSET SecretId
    /\ sweep_at \in Nat \cup {NoSweep}

\* Which of the activities of r may exist together, and what they know.
Phase(r) ==
    /\ job[r] = NoJob => SlotFree(r)
    /\ handler[r] \in {"requested", "permit", "refund", "cleanup"} =>
          task[r] = "none" /\ ~deferred[r]
    /\ handler[r] = "requested" => ~job[r].is_new
    /\ handler[r] = "refund" => job[r].is_new
    /\ handler[r] = "task" => task[r] # "none" /\ ~deferred[r]
    /\ task[r] \in {"finished", "panicked"} => handler[r] = "task"
    /\ task[r] \in {"finalizing", "finished"} => result[r] \in Results
    /\ deferred[r] => /\ handler[r] = "idle"
                      /\ task[r] = "none"
                      /\ job[r].is_new
    /\ ~TaskMayPanic => task[r] # "panicked" /\ handler[r] # "cleanup"

Blocking == {r \in Requests : task[r] = "blocking"}

BaseInv ==
    /\ Typing
    /\ \A r \in Requests : Phase(r)
    /\ permits + Cardinality(Blocking) = MaxPermits

USE DEF HandlerState, TaskState, Result, Results

\* A request's own activities are undone by Free, and nobody else's are.
LEMMA FreeBase ==
    ASSUME Typing, \A s \in Requests : Phase(s),
           NEW r \in Requests, Free(r)
    PROVE  /\ handler' \in [Requests -> HandlerState]
           /\ job' \in [Requests -> Job \cup {NoJob}]
           /\ task' \in [Requests -> TaskState]
           /\ result' \in [Requests -> Result]
           /\ deferred' \in [Requests -> BOOLEAN]
           /\ \A s \in Requests : Phase(s)'
           /\ task[r] # "blocking" => Blocking' = Blocking
<1>1. /\ handler' \in [Requests -> HandlerState]
      /\ job' \in [Requests -> Job \cup {NoJob}]
      /\ task' \in [Requests -> TaskState]
      /\ result' \in [Requests -> Result]
      /\ deferred' \in [Requests -> BOOLEAN]
  BY DEF Typing, Free
<1>2. ASSUME NEW s \in Requests PROVE Phase(s)'
  <2>1. CASE s = r
    BY <2>1 DEF Typing, Free, Phase, SlotFree
  <2>2. CASE s # r
    <3>1. /\ handler'[s] = handler[s] /\ job'[s] = job[s]
          /\ task'[s] = task[s] /\ result'[s] = result[s]
          /\ deferred'[s] = deferred[s]
      BY <2>2 DEF Typing, Free
    <3> QED BY <3>1 DEF Phase, SlotFree
  <2> QED BY <2>1, <2>2
<1>3. task[r] # "blocking" => Blocking' = Blocking
  BY DEF Typing, Free, Blocking
<1> QED BY <1>1, <1>2, <1>3

\* A request whose locals are in use has well-typed ones.
LEMMA JobType ==
    ASSUME Typing, NEW r \in Requests, job[r] # NoJob
    PROVE  /\ job[r] \in Job
           /\ job[r].id \in Identifiers
           /\ job[r].cand \in Candidates
           /\ job[r].requested_at \in Nat
           /\ job[r].generation \in Nat
BY DEF Typing, Job

\* The critical section of an admission, step by step.
LEMMA AdmissionType ==
    ASSUME Typing, NEW r \in Requests, job[r] # NoJob
    PROVE  /\ ExpiresAt(identifier_rate_limit, Roomy(r), job[r].requested_at)
           /\ Roomy(r) \in IdentifierMap
           /\ Counted(r) \in IdentifierMap
           /\ OwnEntry(r) \in RateLimitInfo
<1>1. ExpiresAt(identifier_rate_limit, Roomy(r), job[r].requested_at)
  BY JobType, MakeRoomExpires DEF Roomy, Typing
<1>2. Roomy(r) \in IdentifierMap
  BY <1>1 DEF ExpiresAt
<1>3. Counted(r) \in IdentifierMap /\ OwnEntry(r) \in RateLimitInfo
  BY <1>2, JobType, CountRequestKeeps DEF Counted, OwnEntry
<1> QED BY <1>1, <1>2, <1>3

\* The initial state satisfies BaseInv.
LEMMA BaseInit == Init => BaseInv
<1> SUFFICES ASSUME Init PROVE BaseInv
  OBVIOUS
<1>1. identifier_rate_limit \in IdentifierMap
  BY DEF Init, EmptyMap, IdentifierMap
<1>2. Typing
  BY <1>1, TimeAssumption, TrafficAssumption DEF Init, Typing, NoSweep
<1>3. ASSUME NEW r \in Requests PROVE Phase(r)
  BY DEF Init, Phase, SlotFree
<1>4. Blocking = {}
  BY DEF Init, Blocking
<1> QED BY <1>2, <1>3, <1>4, FS_EmptySet, TimeAssumption, TrafficAssumption DEF BaseInv, Init

\* What ends a request and touches the map keeps BaseInv.
LEMMA FreeStep ==
    ASSUME BaseInv, NEW r \in Requests, Free(r), task[r] # "blocking",
           identifier_rate_limit' \in IdentifierMap,
           UNCHANGED <<now, permits, secret, sweep_at>>
    PROVE  BaseInv'
BY FreeBase DEF BaseInv, Typing

\* Every step of a request keeps BaseInv.
LEMMA BaseRequest ==
    ASSUME BaseInv, NEW r \in Requests, RequestStep(r)
    PROVE  BaseInv'
<1>1. Typing /\ \A s \in Requests : Phase(s)
  BY DEF BaseInv
<1>2. job[r] # NoJob => /\ job[r] \in Job
                        /\ job[r].id \in Identifiers
                        /\ job[r].cand \in Candidates
                        /\ job[r].generation \in Nat
  BY <1>1, JobType
<1>3. job[r] # NoJob /\ RemovePending(r) => identifier_rate_limit' \in IdentifierMap
  BY <1>1, <1>2, RemovePendingMap DEF RemovePending, Typing
<1>4. CASE Receive(r)
  <2>0. PICK new \in Job : job' = [job EXCEPT ![r] = new] /\ ~new.is_new
    <3>1. PICK i \in Identifiers, c \in Candidates, route \in Routes :
             job' = [job EXCEPT ![r] =
                       [id |-> i, cand |-> c, route |-> route,
                        requested_at |-> now, is_new |-> FALSE,
                        generation |-> 0]]
      BY <1>4 DEF Receive
    <3>2. [id |-> i, cand |-> c, route |-> route, requested_at |-> now,
           is_new |-> FALSE, generation |-> 0] \in Job
      BY <1>1 DEF Job, Typing
    <3> QED BY <3>1, <3>2
  <2>1. Typing'
    BY <1>1, <1>4, <2>0 DEF Typing, Receive
  <2>2. ASSUME NEW s \in Requests PROVE Phase(s)'
    BY <1>1, <1>4, <2>0, NoJobAssumption DEF Typing, Receive, Phase, SlotFree
  <2>3. Blocking' = Blocking
    BY <1>4 DEF Receive, Blocking
  <2> QED BY <1>4, <2>1, <2>2, <2>3 DEF BaseInv, Receive
<1>5. CASE AdmitFull(r) \/ AdmitLimited(r) \/ AdmitPending(r)
  <2>1. job[r] # NoJob /\ task[r] # "blocking" /\ Free(r)
    BY <1>1, <1>5 DEF AdmitFull, AdmitLimited, AdmitPending, Admits, Phase, SlotFree
  <2>2. identifier_rate_limit' \in IdentifierMap
    BY <1>1, <1>5, <2>1, AdmissionType DEF AdmitFull, AdmitLimited, AdmitPending
  <2> QED BY <1>5, <2>1, <2>2, FreeStep DEF AdmitFull, AdmitLimited, AdmitPending
<1>6. CASE AdmitReplay(r) \/ AdmitNew(r)
  <2>1. handler[r] = "requested" /\ job[r] # NoJob
    BY <1>1, <1>6 DEF AdmitReplay, AdmitNew, Admits, Phase, SlotFree
  <2>2. PICK is_new \in BOOLEAN : Proceed(r, is_new)
    BY <1>6 DEF AdmitReplay, AdmitNew
  <2>3. OwnEntry(r).window_started_at \in Nat
    BY <1>1, <2>1, AdmissionType DEF RateLimitInfo
  <2>4. identifier_rate_limit' \in IdentifierMap
    <3>1. CASE AdmitReplay(r)
      BY <1>1, <2>1, <3>1, AdmissionType DEF AdmitReplay
    <3>2. CASE AdmitNew(r)
      <4> DEFINE e == Reserve(OwnEntry(r), job[r].cand, job[r].requested_at)
      <4>1. e \in RateLimitInfo
        BY <1>1, <2>1, JobType, AdmissionType, ReserveType
      <4>2. identifier_rate_limit' = [Counted(r) EXCEPT ![job[r].id] = e]
        BY <3>2 DEF AdmitNew, OwnEntry
      <4>3. Counted(r) \in IdentifierMap
        BY <1>1, <2>1, AdmissionType
      <4> HIDE DEF e
      <4> QED BY <4>1, <4>2, <4>3 DEF IdentifierMap
    <3> QED BY <1>6, <3>1, <3>2
  <2>5. job' \in [Requests -> Job \cup {NoJob}] /\ job'[r] # NoJob
    <3>1. job' = [job EXCEPT ![r] = [[job[r] EXCEPT !.is_new = is_new]
                        EXCEPT !.generation = OwnEntry(r).window_started_at]]
      BY <1>1, <2>2, Zenon DEF Proceed, Typing
    <3>2. [[job[r] EXCEPT !.is_new = is_new]
             EXCEPT !.generation = OwnEntry(r).window_started_at] \in Job
      BY <1>2, <2>1, <2>3 DEF Job
    <3> QED BY <1>1, <3>1, <3>2, NoJobAssumption DEF Typing
  <2>6. Typing'
    BY <1>1, <2>2, <2>4, <2>5 DEF Typing, Proceed
  <2>7. ASSUME NEW s \in Requests PROVE Phase(s)'
    <3>1. CASE s = r
      BY <1>1, <2>1, <2>2, <2>5, <3>1 DEF Typing, Proceed, Phase, SlotFree
    <3>2. CASE s # r
      <4>1. job'[s] = job[s]
        BY <1>1, <2>2, <3>2 DEF Typing, Proceed
      <4> QED BY <1>1, <2>2, <3>2, <4>1 DEF Typing, Proceed, Phase, SlotFree
    <3> QED BY <3>1, <3>2
  <2>8. Blocking' = Blocking
    BY <2>2 DEF Proceed, Blocking
  <2> QED BY <2>2, <2>6, <2>7, <2>8 DEF BaseInv, Proceed
<1>7. CASE AcquirePermit(r)
  <2>1. Typing'
    BY <1>1, <1>7 DEF Typing, AcquirePermit
  <2>2. ASSUME NEW s \in Requests PROVE Phase(s)'
    BY <1>1, <1>7 DEF Typing, AcquirePermit, Phase, SlotFree
  <2>3. Blocking' = Blocking \cup {r} /\ r \notin Blocking
    BY <1>1, <1>7 DEF Typing, AcquirePermit, Blocking, Phase
  <2>4. IsFiniteSet(Blocking)
    BY RequestsAssumption, FS_Subset DEF Blocking
  <2>5. Cardinality(Blocking') = Cardinality(Blocking) + 1
    BY <2>3, <2>4, FS_AddElement
  <2>6. Cardinality(Blocking) \in Nat
    BY <2>4, FS_CardinalityType
  <2>7. permits' = permits - 1 /\ permits \in Nat
    BY <1>1, <1>7 DEF AcquirePermit, Typing
  <2> QED BY <2>1, <2>2, <2>5, <2>6, <2>7 DEF BaseInv
<1>8. CASE PermitTimeout(r)
  <2>1. Typing'
    BY <1>1, <1>8 DEF Typing, PermitTimeout
  <2>2. ASSUME NEW s \in Requests PROVE Phase(s)'
    BY <1>1, <1>8 DEF Typing, PermitTimeout, Phase, SlotFree
  <2> QED BY <1>8, <2>1, <2>2 DEF BaseInv, PermitTimeout, Blocking
<1>9. CASE PermitTimeoutReplay(r) \/ Respond(r)
  <2>1. task[r] # "blocking"
    BY <1>1, <1>9 DEF PermitTimeoutReplay, Respond, Phase
  <2> QED BY <1>1, <1>9, <2>1, FreeStep DEF PermitTimeoutReplay, Respond, Typing
<1>10. CASE Refund(r) \/ CancelRemoves(r) \/ DeferredRemoval(r)
  <2>1. task[r] # "blocking" /\ job[r] # NoJob
    BY <1>1, <1>10 DEF Refund, CancelRemoves, DeferredRemoval, GuardArmed,
                       Phase, SlotFree
  <2> QED BY <1>3, <1>10, <2>1, FreeStep DEF Refund, CancelRemoves, DeferredRemoval
<1>11. CASE Database(r)
  <2>1. Typing'
    BY <1>1, <1>11 DEF Typing, Database
  <2>2. ASSUME NEW s \in Requests PROVE Phase(s)'
    BY <1>1, <1>11 DEF Typing, Database, Phase, SlotFree
  <2>3. Blocking' = Blocking \ {r} /\ r \in Blocking
    BY <1>1, <1>11 DEF Typing, Database, Blocking
  <2>4. IsFiniteSet(Blocking)
    BY RequestsAssumption, FS_Subset DEF Blocking
  <2>5. Cardinality(Blocking') = Cardinality(Blocking) - 1
    BY <2>3, <2>4, FS_RemoveElement
  <2>6. Cardinality(Blocking) \in Nat
    BY <2>4, FS_CardinalityType
  <2>7. permits' = permits + 1 /\ permits \in Nat
    BY <1>1, <1>11 DEF Database, Typing
  <2> QED BY <2>1, <2>2, <2>5, <2>6, <2>7 DEF BaseInv
<1>12. CASE Finalize(r) \/ TaskPanics(r)
  <2>1. task[r] = "finalizing" /\ job[r] # NoJob /\ result[r] \in Results
    BY <1>1, <1>12 DEF Finalize, TaskPanics, Phase, SlotFree
  <2>2. identifier_rate_limit' \in IdentifierMap
    BY <1>1, <1>2, <1>12, <2>1, FinalizeMap DEF Finalize, TaskPanics, Typing
  <2>3. CASE handler[r] # "task"
    BY <1>12, <2>1, <2>2, <2>3, FreeStep DEF Finalize, TaskPanics, TaskEnds
  <2>4. CASE handler[r] = "task"
    <3>1. PICK state \in {"finished", "panicked"} :
             /\ task' = [task EXCEPT ![r] = state]
             /\ state = "panicked" => TaskMayPanic
             /\ UNCHANGED <<handler, job, result, deferred>>
      BY <1>12, <2>4 DEF Finalize, TaskPanics, TaskEnds
    <3>2. UNCHANGED <<now, permits, secret, sweep_at>>
      BY <1>12 DEF Finalize, TaskPanics
    <3>3. Typing'
      BY <1>1, <2>2, <3>1, <3>2 DEF Typing
    <3>4. ASSUME NEW s \in Requests PROVE Phase(s)'
      BY <1>1, <2>1, <2>4, <3>1 DEF Typing, Phase, SlotFree
    <3>5. Blocking' = Blocking
      BY <1>1, <2>1, <3>1 DEF Typing, Blocking
    <3> QED BY <3>2, <3>3, <3>4, <3>5 DEF BaseInv
  <2> QED BY <2>3, <2>4
<1>13. CASE SeePanic(r)
  <2>1. Typing'
    BY <1>1, <1>13 DEF Typing, SeePanic
  <2>2. ASSUME NEW s \in Requests PROVE Phase(s)'
    BY <1>1, <1>13 DEF Typing, SeePanic, Phase, SlotFree
  <2>3. Blocking' = Blocking
    BY <1>1, <1>13 DEF Typing, SeePanic, Blocking
  <2> QED BY <1>13, <2>1, <2>2, <2>3 DEF BaseInv, SeePanic
<1>14. CASE Cleanup(r)
  <2>1. task[r] # "blocking" /\ job[r] # NoJob
    BY <1>1, <1>14 DEF Cleanup, Phase, SlotFree
  <2> QED BY <1>1, <1>3, <1>14, <2>1, FreeStep DEF Cleanup, Typing
<1>15. CASE CancelDefers(r)
  <2>1. Typing'
    BY <1>1, <1>15 DEF Typing, CancelDefers
  <2>2. ASSUME NEW s \in Requests PROVE Phase(s)'
    BY <1>1, <1>15 DEF Typing, CancelDefers, GuardArmed, Phase, SlotFree
  <2> QED BY <1>15, <2>1, <2>2 DEF BaseInv, CancelDefers, Blocking
<1>16. CASE CancelUnguarded(r)
  <2>1. CASE TaskRuns(r)
    <3>1. /\ handler' = [handler EXCEPT ![r] = "idle"]
          /\ UNCHANGED <<job, task, result, deferred, now,
                         identifier_rate_limit, permits, secret, sweep_at>>
      BY <1>16, <2>1 DEF CancelUnguarded
    <3>2. Typing'
      BY <1>1, <3>1 DEF Typing
    <3>3. ASSUME NEW s \in Requests PROVE Phase(s)'
      BY <1>1, <2>1, <3>1 DEF Typing, TaskRuns, Phase, SlotFree
    <3> QED BY <3>1, <3>2, <3>3 DEF BaseInv, Blocking
  <2>2. CASE ~TaskRuns(r)
    BY <1>1, <1>16, <2>2, FreeStep DEF CancelUnguarded, TaskRuns, Typing
  <2> QED BY <2>1, <2>2
<1> QED
  BY <1>4, <1>5, <1>6, <1>7, <1>8, <1>9, <1>10, <1>11, <1>12, <1>13, <1>14,
     <1>15, <1>16
     DEF RequestStep, Admission, PermitStep, TaskStep, HandlerEnds, Cancel

\* Every step of the server keeps BaseInv.
LEMMA BaseStep == BaseInv /\ [Next]_vars => BaseInv'
<1> SUFFICES ASSUME BaseInv, [Next]_vars PROVE BaseInv'
  OBVIOUS
<1>1. Typing /\ \A s \in Requests : Phase(s)
  BY DEF BaseInv
<1>2. CASE \E r \in Requests : RequestStep(r)
  BY <1>2, BaseRequest
<1>3. CASE \E i \in Identifiers, c \in Candidates : Write(i, c)
  <2>1. PICK i \in Identifiers, c \in Candidates : Write(i, c)
    BY <1>3
  <2> QED BY <1>1, <2>1
          DEF BaseInv, Typing, Phase, SlotFree, Blocking, Write, reqVars, SecretId
<1>4. CASE SweepStamp \/ Tick
  <2>1. Typing'
    BY <1>1, <1>4 DEF Typing, SweepStamp, Tick, reqVars
  <2>2. ASSUME NEW s \in Requests PROVE Phase(s)'
    BY <1>1, <1>4 DEF Phase, SlotFree, SweepStamp, Tick, reqVars
  <2> QED BY <1>4, <2>1, <2>2 DEF BaseInv, Blocking, SweepStamp, Tick, reqVars
<1>5. CASE Sweep
  <2>1. sweep_at \in Nat
    BY <1>1, <1>5 DEF Sweep, Typing
  <2>2. identifier_rate_limit' \in IdentifierMap
    BY <1>1, <1>5, <2>1, RetainActiveExpires DEF Sweep, ExpiresAt, Typing
  <2>3. Typing'
    BY <1>1, <1>5, <2>2 DEF Typing, Sweep, reqVars
  <2>4. ASSUME NEW s \in Requests PROVE Phase(s)'
    BY <1>1, <1>5 DEF Phase, SlotFree, Sweep, reqVars
  <2> QED BY <1>5, <2>3, <2>4 DEF BaseInv, Blocking, Sweep, reqVars
<1>6. CASE Restart
  <2>1. identifier_rate_limit' \in IdentifierMap
    BY <1>6 DEF Restart, EmptyMap, IdentifierMap
  <2>2. Typing'
    BY <1>1, <1>6, <2>1, TimeAssumption, TrafficAssumption DEF Restart, Typing, NoSweep
  <2>3. ASSUME NEW s \in Requests PROVE Phase(s)'
    BY <1>6 DEF Restart, Phase, SlotFree
  <2>4. Blocking' = {}
    BY <1>6 DEF Restart, Blocking
  <2> QED BY <1>6, <2>2, <2>3, <2>4, FS_EmptySet, TimeAssumption, TrafficAssumption
          DEF BaseInv, Restart
<1>7. CASE UNCHANGED vars
  BY <1>1, <1>7 DEF BaseInv, Typing, Phase, SlotFree, Blocking, vars, reqVars
<1> QED BY <1>2, <1>3, <1>4, <1>5, <1>6, <1>7 DEF Next

\* BaseInv contains the type invariant and the conservation of permits.
LEMMA BaseImplies == BaseInv => TypeOK /\ PermitsConserved
<1> SUFFICES ASSUME BaseInv PROVE TypeOK /\ PermitsConserved
  OBVIOUS
<1>1. Cardinality(Blocking) \in Nat
  BY RequestsAssumption, FS_Subset, FS_CardinalityType DEF Blocking
<1>2. permits \in 0..MaxPermits
  BY <1>1, TimeAssumption, TrafficAssumption DEF BaseInv, Typing
<1> QED BY <1>2 DEF BaseInv, Typing, TypeOK, PermitsConserved, Blocking

\* BaseInv is an invariant.
LEMMA BaseInvariant == Spec => []BaseInv
BY BaseInit, BaseStep, PTL DEF Spec

\* Every variable keeps its type, whatever the requests do.
THEOREM TypeCorrect == Spec => []TypeOK
BY BaseInvariant, BaseImplies, PTL

\* A permit is held by exactly the lookups on a blocking thread: cancelling a
\* handler neither returns nor loses the permit of its detached task.
THEOREM PermitsCorrect == Spec => []PermitsConserved
BY BaseInvariant, BaseImplies, PTL

=============================================================================
