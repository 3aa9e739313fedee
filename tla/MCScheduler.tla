----------------------------- MODULE MCScheduler -----------------------------
(* Small instances of Scheduler for TLC.                                    *)
EXTENDS Scheduler, TLC

(* Pollers and jobs are interchangeable, and no property names one.         *)
PollerSymmetry == Permutations(Pollers)
Symmetry == Permutations(Jobs) \cup Permutations(Pollers)
=============================================================================
