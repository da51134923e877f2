------------------------------ MODULE SecretStore ------------------------------
(***************************************************************************)
(* What /store, /fetch and /trash promise about the secrets, and nothing   *)
(* of how: a table from secret ids to encrypted secrets, on which every    *)
(* call has at most one effect, in one step, at a moment between its       *)
(* arrival and its end.  A store never replaces a secret, and a trash      *)
(* hands out the secret that it removes.                                   *)
(*                                                                         *)
(* A client that goes away does not take its call back: the call is over   *)
(* when the server has ended it, and until then its effect may come.       *)
(* Database implements this specification.                                 *)
(***************************************************************************)
CONSTANTS
    Requests,  \* slots of concurrent calls
    Ids,       \* secret ids, the primary keys
    Secrets,   \* encrypted secrets
    NoRow,     \* no row has this id
    NoCall     \* the slot is free

VARIABLES
    secret,    \* secret[i]: the row of id i
    pending    \* pending[r]: a call, and its answer when it has had its effect

storeVars == <<secret, pending>>

\* a store brings a secret, the other routes bring none
Call ==
    [route : {"store"}, id : Ids, value : Secrets]
        \cup [route : {"fetch", "trash"}, id : Ids, value : {NoRow}]

Answer == [status : {"none", "stored", "hit", "miss", "error"},
           row : Secrets \cup {NoRow}]

NoAnswer == [status |-> "none", row |-> NoRow]
Failed   == [status |-> "error", row |-> NoRow]

\* what a call would be answered now
AnswerTo(call) ==
    IF call.route = "store" THEN [status |-> "stored", row |-> NoRow]
    ELSE [status |-> IF secret[call.id] = NoRow THEN "miss" ELSE "hit",
          row    |-> secret[call.id]]

\* the row of its id after a call has had its effect
RowAfter(call) ==
    CASE call.route = "store" /\ secret[call.id] = NoRow -> call.value
      [] call.route = "trash"                            -> NoRow
      [] OTHER                                           -> secret[call.id]

StoreInit ==
    /\ secret = [i \in Ids |-> NoRow]
    /\ pending = [r \in Requests |-> NoCall]

Begin(r) ==
    /\ pending[r] = NoCall
    /\ \E call \in Call :
          pending' = [pending EXCEPT ![r] = [call |-> call, answer |-> NoAnswer]]
    /\ UNCHANGED secret

Unanswered(r) == pending[r] # NoCall /\ pending[r].answer = NoAnswer

\* the answer waits for the client, or nobody is there to take it
Answered(r, answer) ==
    \/ pending' = [pending EXCEPT ![r].answer = answer]
    \/ pending' = [pending EXCEPT ![r] = NoCall]

Effect(r) ==
    LET call == pending[r].call
    IN  /\ Unanswered(r)
        /\ secret' = [secret EXCEPT ![call.id] = RowAfter(call)]
        /\ Answered(r, AnswerTo(call))

Fail(r) ==
    /\ Unanswered(r)
    /\ Answered(r, Failed)
    /\ UNCHANGED secret

End(r) ==
    /\ pending[r] # NoCall
    /\ pending' = [pending EXCEPT ![r] = NoCall]
    /\ UNCHANGED secret

\* the process stops and starts again: calls are forgotten, rows are not
Crash ==
    /\ pending' = [r \in Requests |-> NoCall]
    /\ UNCHANGED secret

StoreNext ==
    \/ \E r \in Requests : Begin(r) \/ Effect(r) \/ Fail(r) \/ End(r)
    \/ Crash

StoreSpec == StoreInit /\ [][StoreNext]_storeVars

=============================================================================
