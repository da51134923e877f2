------------------------------ MODULE MCAttempts ------------------------------
(***************************************************************************)
(* Instances of Attempts for TLC.                                          *)
(***************************************************************************)
EXTENDS Attempts, TLC

\* polls, identifiers and authentication keys are interchangeable
Symmetry ==
    Permutations(Polls) \cup Permutations(Identifiers)
                        \cup Permutations(Candidates)

=============================================================================
