-------------------------- MODULE MCBackgroundJobs --------------------------
(* TLC's instance of BackgroundJobs: the workers are interchangeable.       *)
EXTENDS BackgroundJobs, TLC

Symmetry == Permutations(Workers) \cup Permutations(Users)
=============================================================================
