------------------------------ MODULE MCWakeUp ------------------------------
(***************************************************************************)
(* Values of the constants of WakeUp for TLC.                              *)
(***************************************************************************)
EXTENDS WakeUp, TLC

\* The workers are interchangeable.
MCSymmetry == Permutations(Workers)

=============================================================================
