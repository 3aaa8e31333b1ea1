-------------------------- MODULE MCProcessManager --------------------------
(* Finite instances of ProcessManager for TLC.                             *)
EXTENDS ProcessManager, TLC

PidSymmetry == Permutations(Pids)

Opt(reaper, parent_death, w, g) ==
    [subreaper |-> reaper, exit_with_parent |-> parent_death,
     wait |-> w, grace |-> g]

\* No --terminate-timeout, with and without --subreaper.
WaitOptions == { Opt(TRUE, FALSE, 0, -1), Opt(FALSE, TRUE, 0, -1) }

\* --terminate-timeout, zero or not, with and without an idle timeout.
TerminateOptions ==
    { Opt(TRUE, FALSE, w, g) : w \in {0, 1}, g \in {0, 1} }

EveryOption == WaitOptions \cup TerminateOptions \cup { Opt(TRUE, TRUE, 1, 1) }

ParentDeathOptions == { Opt(TRUE, TRUE, 0, -1) }
=============================================================================
