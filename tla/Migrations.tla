------------------------------ MODULE Migrations ------------------------------
(***************************************************************************)
(* run_migrations of database.rs, which every start of the server goes     *)
(* through before it serves: a database that is new is migrated, one that  *)
(* an older version without Diesel's ledger has left is adopted if its     *)
(* table is the expected one, and any other is refused.                    *)
(*                                                                         *)
(* Between two of these steps the process may stop (Server); a step is one *)
(* transaction or statement of SQLite, which is done or not done.  The     *)
(* steps of run_pending_migrations are Diesel's, external: it creates its  *)
(* ledger if there is none, then runs what the ledger lacks.               *)
(***************************************************************************)
VARIABLES
    phase,     \* how far the start of the process has got
    database   \* the schema in the database file

Phase == {"down", "init", "adopt", "setup", "pending", "up", "refused"}

\* secret: no table, the one of migration 0001, or another of that name;
\* ledger: __diesel_schema_migrations, which may hold the version 0001
Schema == [secret : {"none", "exact", "other"}, ledger : {"none", "empty", "0001"}]

\* a new file, and what servers without the ledger may have left
Unadopted == {schema \in Schema : schema.ledger = "none"}

\* mutant: any table with the name is adopted
ProbeUnchecked ==
    /\ phase = "init"
    /\ phase' = IF database.secret # "none" /\ database.ledger = "none"
                THEN "adopt"
                ELSE "setup"
    /\ UNCHANGED database

\* an unadopted table must have exactly the columns of migration 0001
Probe ==
    /\ phase = "init"
    /\ phase' = IF database.ledger # "none" \/ database.secret = "none" THEN "setup"
                ELSE IF database.secret = "exact" THEN "adopt" ELSE "refused"
    /\ UNCHANGED database

\* mutant: the ledger is created and filled without a transaction
AdoptUncommitted ==
    /\ phase = "adopt"
    /\ IF database.ledger = "none"
       THEN /\ database' = [database EXCEPT !.ledger = "empty"]
            /\ UNCHANGED phase
       ELSE /\ database' = [database EXCEPT !.ledger = "0001"]
            /\ phase' = "setup"

\* the ledger is created with its entry in one transaction
Adopt ==
    /\ phase = "adopt"
    /\ database' = [database EXCEPT !.ledger = "0001"]
    /\ phase' = "setup"

\* run_pending_migrations: CREATE TABLE IF NOT EXISTS
SetupLedger ==
    /\ phase = "setup"
    /\ database' = [database EXCEPT !.ledger = IF @ = "none" THEN "empty" ELSE @]
    /\ phase' = "pending"

\* run_pending_migrations: migration 0001 and its entry in one transaction,
\* which fails if the table is there
RunPending ==
    /\ phase = "pending"
    /\ IF database.ledger = "empty" /\ database.secret # "none"
       THEN phase' = "refused" /\ UNCHANGED database
       ELSE /\ phase' = "up"
            /\ database' = IF database.ledger = "empty"
                           THEN [secret |-> "exact", ledger |-> "0001"]
                           ELSE database

Migrate == Probe \/ Adopt \/ SetupLedger \/ RunPending

=============================================================================
