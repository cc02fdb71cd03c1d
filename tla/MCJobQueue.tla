----------------------------- MODULE MCJobQueue -----------------------------
(* JobQueue on a small instance: more jobs than the queue and the workers  *)
(* take at once, and times a few ticks long.                               *)
EXTENDS JobQueue, TLC

\* Safety does not tell jobs or workers apart.
Symmetry == Permutations(Jobs) \cup Permutations(Workers)
=============================================================================
