---------------------------- MODULE RemoteCommand ----------------------------
(***************************************************************************)
(* What steam-runtime-launch-client promises: its command behaves as if it *)
(* were the client's own child.  It runs at most once, the client reports  *)
(* its exit status only when there is one, and fails to start only while   *)
(* nothing runs on its behalf.                                             *)
(***************************************************************************)
CONSTANT Clients

VARIABLES ran, status

vars == <<ran, status>>

Init ==
    /\ ran    = [c \in Clients |-> "no"]
    /\ status = [c \in Clients |-> "none"]

\* A call that a client made before it died may still be answered.
Start(c) ==
    /\ ran[c] = "no" /\ status[c] \in {"none", "died"}
    /\ ran' = [ran EXCEPT ![c] = "running"]
    /\ UNCHANGED status

End(c) ==
    /\ ran[c] = "running"
    /\ ran' = [ran EXCEPT ![c] = "exited"]
    /\ UNCHANGED status

\* The exit status of the command; 125; 255; or no status at all.
Report(c) ==
    /\ status[c] = "none"
    /\ \E s \in {"command", "failed", "unknown", "died"} :
          /\ s = "command" => ran[c] = "exited"
          /\ s = "failed"  => ran[c] # "running"
          /\ s = "unknown" => ran[c] # "no"
          /\ status' = [status EXCEPT ![c] = s]
    /\ UNCHANGED ran

Next == \E c \in Clients : Start(c) \/ End(c) \/ Report(c)

Spec == Init /\ [][Next]_vars
=============================================================================
