---------------------------- MODULE MCFetchSecret ----------------------------
(***************************************************************************)
(* Instances of FetchSecret for TLC.                                       *)
(***************************************************************************)
EXTENDS FetchSecret, TLC

\* requests, identifiers and authentication keys are interchangeable
Symmetry ==
    Permutations(Requests) \cup Permutations(Identifiers)
                           \cup Permutations(Candidates)

=============================================================================
