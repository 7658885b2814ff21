---------------------------- MODULE MCTaskLaunch ----------------------------
(* Model-checking instances of TaskLaunch.                                  *)
EXTENDS TaskLaunch, TLC

\* Attempts, sessions and reads are interchangeable.
Symmetry == Permutations(Launches) \cup Permutations(Sessions)
              \cup Permutations(Requests)
=============================================================================
