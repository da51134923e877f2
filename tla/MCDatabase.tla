------------------------------ MODULE MCDatabase ------------------------------
(***************************************************************************)
(* Instances of Database for TLC.                                          *)
(***************************************************************************)
EXTENDS Database, TLC

\* slots, secret ids and encrypted secrets are interchangeable
Symmetry ==
    Permutations(Requests) \cup Permutations(Ids) \cup Permutations(Secrets)

=============================================================================
