-------------------------- MODULE MCPoliteProcesses -------------------------
(* ProcessManager with fairness, in two kinds of environment: one of which  *)
(* nothing is assumed, so that the grace period ends, and one in which every *)
(* process dies of SIGTERM before it does.                                  *)
EXTENDS MCProcessManager

VARIABLE polite

\* The other options lead into the same phases.
LiveOptions == { Opt(TRUE, FALSE, 1, 1), Opt(TRUE, FALSE, 0, 0) }

MCLiveSpec ==
    /\ Init /\ polite \in BOOLEAN /\ (polite => opts.grace > 0)
    /\ [][Next /\ (polite => PoliteStep) /\ UNCHANGED polite]_<<vars, polite>>
    /\ WF_vars(ManagerStep) /\ WF_vars(WaitTimer) /\ WF_vars(~polite /\ KillTimer)
    /\ \A p \in Pids : /\ WF_vars(DieOfSigkill(p))
                       /\ WF_vars(polite /\ DieOfSigterm(p))
=============================================================================
