------------------------------ MODULE MCJudge ------------------------------
(***************************************************************************)
(* Values of the constants of Judge for TLC.                               *)
(***************************************************************************)
EXTENDS Judge, TLC

\* Two jobs judged at the same time are interchangeable.
MCSymmetry == Permutations(Batches)

=============================================================================
