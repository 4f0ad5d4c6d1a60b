---------------------------- MODULE MCJobService ----------------------------
(***************************************************************************)
(* Values of the constants of JobService for TLC.                          *)
(***************************************************************************)
EXTENDS JobService, TLC

CONSTANT alice

MCOwner == [j \in Jobs |-> alice]

\* All but one of the jobs ask for the judge.
MCJudged == Jobs \ {CHOOSE j \in Jobs : TRUE}

\* The workers are interchangeable.
WorkerSymmetry == Permutations(Workers)

=============================================================================
