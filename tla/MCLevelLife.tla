---------------------------- MODULE MCLevelLife ----------------------------
(* Instances of LevelLife for TLC. *)
EXTENDS LevelLife, TLC

Symmetry == Permutations(User)

\* What the invariants except is not followed, nor a failed open once a file has
\* been removed under a loader.
Followed == ~spoilt /\ (overtaken => fails = 0)
=============================================================================
