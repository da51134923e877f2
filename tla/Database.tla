-------------------------------- MODULE Database --------------------------------
(***************************************************************************)
(* The rows of the secret table under /store, /fetch and /trash:           *)
(* handlers/store.rs from its admission on, the database part of           *)
(* handlers/fetch.rs, the statements of database.rs on SQLite in WAL mode, *)
(* and the shutdown of main.rs.                                            *)
(*                                                                         *)
(* A call is a slot of Requests.  Its handler waits for a permit of the    *)
(* semaphore, hands the work to a closure on a blocking thread and waits   *)
(* for that; the client or the route timeout may drop it, and the closure  *)
(* goes on.  The closure opens a connection of its own.  SQLite, external, *)
(* gives each statement a committed snapshot and writers one lock: a store *)
(* is a statement that takes it, a trash a transaction that takes it first *)
(* (BEGIN IMMEDIATE), and a change is visible, and durable, once it is     *)
(* committed.  busy_timeout and I/O errors may fail any statement.         *)
(***************************************************************************)
EXTENDS Naturals, FiniteSets

CONSTANTS
    Requests,    \* slots of concurrent calls
    Ids,         \* secret ids, the primary keys
    Secrets,     \* encrypted secrets
    MaxPermits,  \* DATABASE_MAX_CONCURRENCY
    NoRow,       \* no row has this id
    NoCall,      \* the slot is free
    NoWriter     \* nobody holds SQLite's write lock

ASSUME DatabaseAssumption ==
    /\ IsFiniteSet(Requests)
    /\ MaxPermits \in Nat \ {0}
    /\ NoRow \notin Secrets
    /\ NoWriter \notin Requests

VARIABLES
    secret,    \* secret[i]: the committed row of id i
    handler,   \* handler[r]: the await the handler is suspended at
    call,      \* call[r]: the request
    closure,   \* closure[r]: the next thing the closure does
    found,     \* found[r]: the row a trash has read in its transaction
    answer,    \* answer[r]: what the closure has returned to the handler
    permits,   \* permits left in database_semaphore
    writer,    \* who holds SQLite's write lock
    draining   \* SIGTERM has been received

reqVars == <<handler, call, closure, found, answer>>
vars == <<secret, reqVars, permits, writer, draining>>

\* the specification that this one implements
Store == INSTANCE SecretStore WITH
    pending <- [r \in Requests |->
                    IF call[r] = NoCall THEN NoCall
                    ELSE [call |-> call[r], answer |-> answer[r]]]

Call == Store!Call
Answer == Store!Answer
NoAnswer == Store!NoAnswer
Failed == Store!Failed

ASSUME NoCallAssumption ==
    /\ NoCall \notin Call
    /\ NoCall \notin [call : Call, answer : Answer]

ClosureState == {"none", "queued", "ready", "select", "delete", "commit", "done"}

TypeOK ==
    /\ secret \in [Ids -> Secrets \cup {NoRow}]
    /\ handler \in [Requests -> {"idle", "permit", "task"}]
    /\ call \in [Requests -> Call \cup {NoCall}]
    /\ closure \in [Requests -> ClosureState]
    /\ found \in [Requests -> Secrets \cup {NoRow}]
    /\ answer \in [Requests -> Answer]
    /\ permits \in 0..MaxPermits
    /\ writer \in Requests \cup {NoWriter}
    /\ draining \in BOOLEAN

Init ==
    /\ secret = [i \in Ids |-> NoRow]
    /\ handler = [r \in Requests |-> "idle"]
    /\ call = [r \in Requests |-> NoCall]
    /\ closure = [r \in Requests |-> "none"]
    /\ found = [r \in Requests |-> NoRow]
    /\ answer = [r \in Requests |-> NoAnswer]
    /\ permits = MaxPermits
    /\ writer = NoWriter
    /\ draining = FALSE

Row(r) == secret[call[r].id]

SlotFree(r) == handler[r] = "idle" /\ closure[r] = "none"

Free(r) ==
    /\ handler' = [handler EXCEPT ![r] = "idle"]
    /\ call' = [call EXCEPT ![r] = NoCall]
    /\ closure' = [closure EXCEPT ![r] = "none"]
    /\ found' = [found EXCEPT ![r] = NoRow]
    /\ answer' = [answer EXCEPT ![r] = NoAnswer]

-----------------------------------------------------------------------------
(* The handler *)

\* mutant: connections are accepted after SIGTERM
ReceiveAlways(r) ==
    /\ SlotFree(r)
    /\ \E c \in Call : call' = [call EXCEPT ![r] = c]
    /\ handler' = [handler EXCEPT ![r] = "permit"]
    /\ UNCHANGED <<secret, closure, found, answer, permits, writer, draining>>

\* a store that is valid and has a token, or a lookup that has been admitted;
\* after SIGTERM no connection is accepted
Receive(r) ==
    /\ SlotFree(r)
    /\ ~draining
    /\ \E c \in Call : call' = [call EXCEPT ![r] = c]
    /\ handler' = [handler EXCEPT ![r] = "permit"]
    /\ UNCHANGED <<secret, closure, found, answer, permits, writer, draining>>

\* the closure owns the permit from here on
Spawn(r) ==
    /\ handler[r] = "permit"
    /\ permits > 0
    /\ permits' = permits - 1
    /\ handler' = [handler EXCEPT ![r] = "task"]
    /\ closure' = [closure EXCEPT ![r] = "queued"]
    /\ UNCHANGED <<secret, call, found, answer, writer, draining>>

\* 503 after DATABASE_PERMIT_TIMEOUT
PermitTimeout(r) ==
    /\ handler[r] = "permit"
    /\ Free(r)
    /\ UNCHANGED <<secret, permits, writer, draining>>

\* mutant: a closure that has failed is not an answer
RespondUnlessFailed(r) ==
    /\ closure[r] = "done"
    /\ answer[r] # Failed
    /\ Free(r)
    /\ UNCHANGED <<secret, permits, writer, draining>>

\* 201, 200 or 202, 401, 500
Respond(r) ==
    /\ closure[r] = "done"
    /\ Free(r)
    /\ UNCHANGED <<secret, permits, writer, draining>>

\* mutant: the permit is the handler's and goes with it
CancelReturnsPermit(r) ==
    /\ handler[r] # "idle"
    /\ IF closure[r] \in {"none", "done"}
       THEN Free(r) /\ UNCHANGED permits
       ELSE /\ handler' = [handler EXCEPT ![r] = "idle"]
            /\ permits' = permits + 1
            /\ UNCHANGED <<call, closure, found, answer>>
    /\ UNCHANGED <<secret, writer, draining>>

\* the client disconnects or the route timeout fires: the future is dropped,
\* a closure that has been handed over is not
Cancel(r) ==
    /\ handler[r] # "idle"
    /\ IF closure[r] \in {"none", "done"}
       THEN Free(r)
       ELSE /\ handler' = [handler EXCEPT ![r] = "idle"]
            /\ UNCHANGED <<call, closure, found, answer>>
    /\ UNCHANGED <<secret, permits, writer, draining>>

-----------------------------------------------------------------------------
(* The closure *)

Goto(r, step) == closure' = [closure EXCEPT ![r] = step]

\* the closure returns: its connection is closed, which ends its transaction,
\* and its permit is back; nobody hears the answer to a dropped handler
Return(r, status, row) ==
    /\ permits' = permits + 1
    /\ writer' = IF writer = r THEN NoWriter ELSE writer
    /\ IF handler[r] = "task"
       THEN /\ Goto(r, "done")
            /\ answer' = [answer EXCEPT ![r] = [status |-> status, row |-> row]]
            /\ found' = [found EXCEPT ![r] = NoRow]
            /\ UNCHANGED <<handler, call>>
       ELSE Free(r)
    /\ UNCHANGED draining

\* a blocking thread takes the closure up, and it connects
Connect(r) ==
    /\ closure[r] = "queued"
    /\ Goto(r, "ready")
    /\ UNCHANGED <<secret, handler, call, found, answer, permits, writer, draining>>

\* mutant: a store replaces the row
InsertReplacing(r) ==
    /\ closure[r] = "ready"
    /\ call[r].route = "store"
    /\ writer = NoWriter
    /\ secret' = [secret EXCEPT ![call[r].id] = call[r].value]
    /\ Return(r, "stored", NoRow)

\* write: one INSERT ... ON CONFLICT DO NOTHING, which waits for the lock and
\* commits by itself
Insert(r) ==
    /\ closure[r] = "ready"
    /\ call[r].route = "store"
    /\ writer = NoWriter
    /\ secret' = IF Row(r) = NoRow THEN [secret EXCEPT ![call[r].id] = call[r].value]
                                   ELSE secret
    /\ Return(r, "stored", NoRow)

\* what a lookup that has read row returns
Found(r, row) == Return(r, IF row = NoRow THEN "miss" ELSE "hit", row)

\* read_secret_by_id: a reader does not wait for the writer
Select(r) ==
    /\ closure[r] = "ready"
    /\ call[r].route = "fetch"
    /\ Found(r, Row(r))
    /\ UNCHANGED secret

\* mutant: BEGIN DEFERRED, and no lock before the end
BeginDeferred(r) ==
    /\ closure[r] = "ready"
    /\ call[r].route = "trash"
    /\ Goto(r, "select")
    /\ UNCHANGED <<secret, handler, call, found, answer, permits, writer, draining>>

\* read_and_trash_secret_by_id, statement by statement
BeginImmediate(r) ==
    /\ closure[r] = "ready"
    /\ call[r].route = "trash"
    /\ writer = NoWriter
    /\ writer' = r
    /\ Goto(r, "select")
    /\ UNCHANGED <<secret, handler, call, found, answer, permits, draining>>

TrashSelect(r) ==
    /\ closure[r] = "select"
    /\ IF Row(r) = NoRow
       THEN Found(r, NoRow)
       ELSE /\ found' = [found EXCEPT ![r] = Row(r)]
            /\ Goto(r, "delete")
            /\ UNCHANGED <<handler, call, answer, permits, writer, draining>>
    /\ UNCHANGED secret

\* a DELETE that does not hit one row is an error
TrashDelete(r) ==
    /\ closure[r] = "delete"
    /\ IF Row(r) = NoRow
       THEN Return(r, "error", NoRow)
       ELSE /\ Goto(r, "commit")
            /\ UNCHANGED <<handler, call, found, answer, permits, writer, draining>>
    /\ UNCHANGED secret

Commit(r) ==
    /\ closure[r] = "commit"
    /\ secret' = [secret EXCEPT ![call[r].id] = NoRow]
    /\ Return(r, "hit", found[r])

\* the connection fails, the lock is not free within busy_timeout, a statement
\* fails, or the closure panics: an open transaction is rolled back
StatementFails(r) ==
    /\ closure[r] \in {"queued", "ready", "select", "delete", "commit"}
    /\ Return(r, "error", NoRow)
    /\ UNCHANGED secret

-----------------------------------------------------------------------------
(* The process *)

Sigterm ==
    /\ ~draining
    /\ draining' = TRUE
    /\ UNCHANGED <<secret, reqVars, permits, writer>>

\* a new process: only what has been committed is left
Restarted ==
    /\ handler' = [r \in Requests |-> "idle"]
    /\ call' = [r \in Requests |-> NoCall]
    /\ closure' = [r \in Requests |-> "none"]
    /\ found' = [r \in Requests |-> NoRow]
    /\ answer' = [r \in Requests |-> NoAnswer]
    /\ permits' = MaxPermits
    /\ writer' = NoWriter
    /\ draining' = FALSE
    /\ UNCHANGED secret

\* axum waits for the requests in flight, then the runtime for the closures
\* that a thread has taken up; those in the queue are dropped
Exit ==
    /\ draining
    /\ \A r \in Requests : handler[r] = "idle" /\ closure[r] \in {"none", "queued"}
    /\ Restarted

Kill == Restarted

-----------------------------------------------------------------------------
ClosureStep(r) ==
    \/ Connect(r)
    \/ Insert(r)
    \/ Select(r)
    \/ BeginImmediate(r)
    \/ TrashSelect(r)
    \/ TrashDelete(r)
    \/ Commit(r)
    \/ StatementFails(r)

ServerStep(r) == Spawn(r) \/ PermitTimeout(r) \/ ClosureStep(r) \/ Respond(r)

Next ==
    \/ \E r \in Requests : Receive(r) \/ ServerStep(r) \/ Cancel(r)
    \/ Sigterm
    \/ Exit
    \/ Kill

Spec == Init /\ [][Next]_vars

\* waits for permits and for the lock are bounded, and threads are scheduled;
\* nobody has to call, to leave, or to stop the server
FairSpec ==
    /\ Spec
    /\ \A r \in Requests : WF_vars(ServerStep(r))
    /\ WF_vars(Exit)

-----------------------------------------------------------------------------
(* Properties *)

\* Whatever the closures of stores, fetches and trashes do in between each
\* other, after their clients have left, or when they fail or the process is
\* killed: every call has one effect at most, at one moment while it lives, its
\* answer is the one of that moment, and a row is released by the one trash that
\* removes it (database.rs:124-168, store.rs:95-113).
Linearizable == Store!StoreSpec

\* A trash that has read a row still finds it when it deletes and commits:
\* nobody else has removed it or put another in its place, so that `deleted != 1`
\* is never the case (database.rs:155-166).
TrashHoldsRow ==
    \A r \in Requests :
        closure[r] \in {"delete", "commit"} => writer = r /\ Row(r) = found[r]

\* Stores and lookups share one pool of permits: one is held by exactly the
\* closures that have not returned, with or without a handler (store.rs:77-113).
PermitsConserved ==
    permits + Cardinality({r \in Requests : closure[r] \notin {"none", "done"}})
        = MaxPermits

\* Every call ends, and so does its closure, with or without its client, while
\* others hold all permits or the write lock of the database.
RequestsEnd == \A r \in Requests : ~SlotFree(r) ~> SlotFree(r)

\* A graceful shutdown comes to its end without being killed, however many
\* calls are in flight or have been abandoned (main.rs:85-98).
ShutdownEnds == draining ~> ~draining

=============================================================================
