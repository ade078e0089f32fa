------------------------------- MODULE MCJobs -------------------------------
(* TLC instances of Jobs. *)
EXTENDS Jobs, TLC

\* Runs and waiters are interchangeable: no action names one of them.
JobsSymmetry == Permutations(Runs) \cup Permutations(Waiters)
=============================================================================
