-------------------------------- MODULE Server --------------------------------
(***************************************************************************)
(* The life of a process (main.rs): it reads its configuration, brings the *)
(* database up to date, serves, and stops at any point, while the database *)
(* and the dotenv file outlive it.  Of what it serves this is /info; the   *)
(* other routes have modules of their own.                                 *)
(***************************************************************************)
EXTENDS Migrations, Canary

vars == <<phase, database, canaryVars>>

\* The types, and: no server gets beyond its configuration without a CANARY,
\* be it an empty one (env.rs:254-268).
TypeOK ==
    /\ phase \in Phase
    /\ database \in Schema
    /\ CanaryTypes
    /\ phase \notin {"down", "refused"} => canary # None

Init ==
    /\ phase = "down"
    /\ database \in Unadopted
    /\ CanaryInit

\* env::init
Start ==
    /\ phase \in {"down", "refused"}
    /\ phase' = "init"
    /\ LoadCanary
    /\ UNCHANGED <<database, infoVars>>

\* init_db
Initialize == Migrate /\ UNCHANGED canaryVars

Info ==
    /\ phase = "up"
    /\ get_info
    /\ UNCHANGED <<phase, database>>

\* a shutdown, a panic or a crash
Stop ==
    /\ phase \notin {"down", "refused"}
    /\ phase' = "down"
    /\ ForgetCanary
    /\ UNCHANGED <<database, fileVars, stateVars>>

Next ==
    \/ Start
    \/ Initialize
    \/ Info
    \/ Stop
    \/ Operator /\ UNCHANGED <<phase, database>>

Spec == Init /\ [][Next]_vars

-----------------------------------------------------------------------------
(* Properties *)

\* The ledger does not lie, wherever starts have been cut off: what it says was
\* migrated or adopted is there with the expected columns, and no server serves
\* without (database.rs:42-90).
LedgerTrue ==
    /\ database.ledger = "0001" => database.secret = "exact"
    /\ phase = "up" => database.ledger = "0001"

\* A server refuses to start on an incompatible table only: no crash, between
\* whichever steps of earlier starts, leaves a database behind that was new or
\* could be adopted and that no start accepts any more (database.rs:75-90).
RefusesOnlyIncompatible == phase = "refused" => database.secret = "other"

\* What /info serves is what the dotenv file has shown at some moment of the
\* request: an edit is served at once, a removed canary is not masked by a
\* cached or a start-up value, a file that cannot be read raises no alarm.  That
\* holds up to the clock of the file system: of edits within one tick any may be
\* served, and stay served.  And it holds if the path is the file's: a server that
\* was started on a file above its working directory with a line that does not
\* parse serves the start-up value for good (info.rs:11-30, env.rs:205-262, 387).
InfoFollowsFile ==
    ~canary_from_env /\ followed /\ served # None =>
        served \in {Shown(c) : c \in held}

=============================================================================
