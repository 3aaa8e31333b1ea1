-------------------------- MODULE MCLauncherService --------------------------
EXTENDS LauncherService, TLC

\* A game with the default options, and with --exec-fallback; a service without a
\* command that others may replace; a command and a socket, with --no-stop-on-exit.
MCOptions ==
    { [bus |-> TRUE, wrapped |-> TRUE, stop_on_exit |-> TRUE,
       stop_on_name_loss |-> TRUE, exec_fallback |-> TRUE],
      [bus |-> TRUE, wrapped |-> FALSE, stop_on_exit |-> FALSE,
       stop_on_name_loss |-> FALSE, exec_fallback |-> FALSE],
      [bus |-> FALSE, wrapped |-> TRUE, stop_on_exit |-> FALSE,
       stop_on_name_loss |-> FALSE, exec_fallback |-> FALSE] }

\* For the properties that are not liveness properties.
Alike == Permutations(Clients) \cup Permutations(Pids)
=============================================================================
