------------------------------- MODULE MCJobs -------------------------------
(***************************************************************************)
(* Values of the constants of Jobs for TLC.                                *)
(***************************************************************************)
EXTENDS Jobs, TLC

CONSTANTS alice, bob

\* One job id belongs to bob, the others to alice.
MCBobsJob == CHOOSE j \in Jobs : TRUE
MCOwner   == [j \in Jobs |-> IF j = MCBobsJob THEN bob ELSE alice]

\* alice's ids are interchangeable.
MCSymmetry == Permutations(Jobs \ {MCBobsJob})

=============================================================================
