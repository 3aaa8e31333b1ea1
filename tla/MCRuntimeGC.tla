---------------------------- MODULE MCRuntimeGC ----------------------------
(* Instances of RuntimeGC for TLC.                                         *)
EXTENDS RuntimeGC, TLC

\* Processes and the names of directories are interchangeable.
Symmetry == Permutations(Procs) \cup Permutations(Dirs)

=============================================================================
