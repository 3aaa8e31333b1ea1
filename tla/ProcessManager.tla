--------------------------- MODULE ProcessManager ---------------------------
(***************************************************************************)
(* steam-runtime-tools/process-manager.c: one SrtProcessManager, as run by *)
(* steam-runtime-supervisor and pv-adverb, together with the processes it  *)
(* manages.  The manager starts COMMAND, reaps children until COMMAND has  *)
(* exited, then either waits for every remaining child or terminates them  *)
(* with SIGTERM and SIGKILL, and only then releases its locks and exits.   *)
(*                                                                         *)
(* The kernel's process table is modelled by what the code relies on:      *)
(* zombies, reparenting to a subreaper, SIGCHLD (one pending bit, because  *)
(* it is a standard signal), parent-death signals and the reuse of a       *)
(* process ID once its zombie has been reaped.                             *)
(***************************************************************************)
EXTENDS Integers, FiniteSets

CONSTANTS
    Pids,       \* process IDs available to COMMAND and its descendants
    Manager,    \* the process running _srt_process_manager_run()
    InitPid,    \* process 1, which adopts orphans and reaps them at once
    NoPid,      \* no process: global_child_pid = 0
    Options,    \* the SrtProcessManagerOptions the environment may choose
    ExitCodes,  \* statuses that a process may pass to exit()
    MaxForks,   \* bound on fork() by COMMAND and its descendants
    MaxStops,   \* bound on processes being stopped (SIGSTOP, job control)
    MaxSignals  \* bound on signals that the manager receives

\* wait_usec and grace_usec only matter through their sign.
AllOptions ==
    { o \in [subreaper : BOOLEAN, exit_with_parent : BOOLEAN,
             wait : {0, 1}, grace : {-1, 0, 1}] :
        o.grace < 0 \/ o.subreaper }

ASSUME PidsAssumption ==
    /\ Manager \notin Pids /\ InitPid \notin Pids /\ NoPid \notin Pids
    /\ Manager # InitPid

ASSUME OptionsAssumption == Options \subseteq AllOptions

ASSUME BoundsAssumption ==
    /\ ExitCodes \subseteq 0..255
    /\ MaxForks \in Nat /\ MaxStops \in Nat /\ MaxSignals \in Nat

VARIABLES
    (* the kernel *)
    state,       \* [Pids -> ProcState]
    parent,      \* [Pids -> parent of the process]
    got,         \* [Pids -> fatal signals this process has been sent]
    wstatus,     \* [Pids -> wait status, once it is a zombie]
    sigchld,     \* SIGCHLD is pending for the manager, which blocks it
    command,     \* the process that is COMMAND, until it has been reaped
    cmd_phase,   \* how far COMMAND's process has come
    cmd_fate,    \* history: the wait status with which COMMAND ended
    forks, stops, signals,   \* what has been used of the bounds
    (* the manager *)
    opts,
    pc,
    after,             \* where termination_data_refresh() returns to
    global_child_pid,
    wait_status,       \* wait status of COMMAND, as seen by the manager
    exit_status,       \* -1 until it is known
    failed,            \* run() returns FALSE with an error set
    (* TerminationData *)
    sending_signal,
    sent_sigterm, sent_sigkill,
    wait_source, kill_source,   \* the timeout sources that are attached
    todo,              \* the processes that refresh has still to look at
    scan,              \* it looks at all of /proc, not at the children file
    finished

procVars == <<state, parent, got, wstatus>>
cmdVars  == <<command, cmd_phase, cmd_fate>>
boundVars == <<forks, stops, signals>>
runVars  == <<opts, global_child_pid, wait_status, exit_status>>
termVars == <<sending_signal, sent_sigterm, sent_sigkill, wait_source,
              kill_source, todo, scan, finished>>
vars == <<procVars, sigchld, cmdVars, boundVars, runVars, pc, after, failed,
          termVars>>

ProcState == {"gone", "running", "stopped", "zombie"}
Fatal     == {"SIGTERM", "SIGKILL"}
SigNum    == [s \in Fatal |-> IF s = "SIGTERM" THEN 15 ELSE 9]

LAUNCH_EX_FAILED        == 125
LAUNCH_EX_CANNOT_INVOKE == 126
LAUNCH_EX_NOT_FOUND     == 127

\* What wait() reports about a process that has terminated.
Exited   == [how : {"exited"}, value : 0..255]
Signaled == [how : {"signaled"}, value : {9, 15}]
NoStatus == [how |-> "none", value |-> -1]
WaitStatus == Exited \cup Signaled \cup {NoStatus}

\* Faulty variant: the raw wait status, as if WEXITSTATUS were forgotten.
RawStatus(ws) == 256 * ws.value

\* _srt_wait_status_to_exit_status()
ExitStatus(ws) == IF ws.how = "exited" THEN ws.value ELSE 128 + ws.value

Present     == { p \in Pids : state[p] # "gone" }
Alive       == { p \in Pids : state[p] \in {"running", "stopped"} }
ChildrenOf(m) == { p \in Present : parent[p] = m }
ManagerUp   == pc \notin {"exited", "killed"}

-----------------------------------------------------------------------------
Init ==
    /\ state   = [p \in Pids |-> "gone"]
    /\ parent  = [p \in Pids |-> InitPid]
    /\ got     = [p \in Pids |-> {}]
    /\ wstatus = [p \in Pids |-> NoStatus]
    /\ sigchld = FALSE
    /\ command = NoPid /\ cmd_phase = "none" /\ cmd_fate = NoStatus
    /\ forks = 0 /\ stops = 0 /\ signals = 0
    /\ opts \in Options
    /\ pc = "start" /\ after = "loop"
    /\ global_child_pid = NoPid
    /\ wait_status = NoStatus /\ exit_status = -1 /\ failed = FALSE
    /\ sending_signal = "none"
    /\ sent_sigterm = {} /\ sent_sigkill = {}
    /\ wait_source = FALSE /\ kill_source = FALSE
    /\ todo = {} /\ scan = FALSE /\ finished = FALSE

-----------------------------------------------------------------------------
(* The kernel: what happens to processes.                                  *)

\* A new process c, a child of m, replaces an unused process ID.
StartProcess(c, m) ==
    /\ state[c] = "gone"
    /\ state'   = [state EXCEPT ![c] = "running"]
    /\ parent'  = [parent EXCEPT ![c] = m]
    /\ UNCHANGED <<got, wstatus>>

\* A zombie is reaped and its process ID becomes available again.
Reap(p) ==
    /\ state'   = [state EXCEPT ![p] = "gone"]
    /\ parent'  = [parent EXCEPT ![p] = InitPid]
    /\ got'     = [got EXCEPT ![p] = {}]
    /\ wstatus' = [wstatus EXCEPT ![p] = NoStatus]
    /\ IF p = command THEN command' = NoPid ELSE UNCHANGED command
    /\ UNCHANGED <<cmd_phase, cmd_fate>>

\* Who adopts the children of a process that dies.
Reaper == IF opts.subreaper /\ ManagerUp THEN Manager ELSE InitPid

\* p dies: its parent gets a zombie and SIGCHLD, its children are adopted.
\* An adopted zombie notifies its new parent too; init reaps at once.
Die(p, ws) ==
    LET orphans == { q \in Present : parent[q] = p }
        reaped  == { q \in orphans : state[q] = "zombie" /\ Reaper = InitPid }
                     \cup (IF parent[p] = InitPid THEN {p} ELSE {})
    IN /\ state' = [q \in Pids |-> IF q \in reaped THEN "gone"
                                   ELSE IF q = p THEN "zombie" ELSE state[q]]
       /\ parent' = [q \in Pids |-> IF q \in reaped THEN InitPid
                                    ELSE IF q \in orphans THEN Reaper
                                    ELSE parent[q]]
       /\ got' = [q \in Pids |-> IF q \in reaped THEN {} ELSE got[q]]
       /\ wstatus' = [q \in Pids |-> IF q \in reaped THEN NoStatus
                                     ELSE IF q = p THEN ws ELSE wstatus[q]]
       /\ sigchld' = (sigchld \/ parent[p] = Manager
                              \/ (Reaper = Manager
                                  /\ \E q \in orphans : state[q] = "zombie"))
       /\ cmd_fate' = IF p = command THEN ws ELSE cmd_fate
       /\ command' = IF command \in reaped THEN NoPid ELSE command
       /\ UNCHANGED cmd_phase

\* The manager's process ends, normally or killed by a signal: init adopts
\* its children, and COMMAND gets the signal it asked for, if it did.
ManagerEnds ==
    LET reaped == { q \in ChildrenOf(Manager) : state[q] = "zombie" }
        warned(q) == /\ q = command /\ opts.exit_with_parent
                     /\ cmd_phase \in {"set_up", "execd"}
    IN /\ state' = [q \in Pids |-> IF q \in reaped THEN "gone" ELSE state[q]]
       /\ parent' = [q \in Pids |-> IF parent[q] = Manager THEN InitPid
                                    ELSE parent[q]]
       /\ got' = [q \in Pids |-> IF q \in reaped THEN {}
                                 ELSE IF warned(q) THEN got[q] \cup {"SIGTERM"}
                                 ELSE got[q]]
       /\ wstatus' = [q \in Pids |-> IF q \in reaped THEN NoStatus
                                     ELSE wstatus[q]]
       /\ command' = IF command \in reaped THEN NoPid ELSE command
       /\ sigchld' = FALSE
       /\ UNCHANGED <<cmd_phase, cmd_fate>>

managerOnly == <<boundVars, runVars, pc, after, failed, termVars>>

\* A process other than the manager forks.  Before COMMAND's process has
\* executed COMMAND, it runs only the child setup function.
Fork ==
    /\ forks < MaxForks /\ forks' = forks + 1
    /\ \E p, c \in Pids :
         /\ state[p] = "running"
         /\ p = command => cmd_phase = "execd"
         /\ StartProcess(c, p)
    /\ UNCHANGED <<sigchld, cmdVars, stops, signals, runVars, pc, after,
                   failed, termVars>>

\* A process exits of its own accord.
Exit(p) ==
    /\ state[p] = "running"
    /\ p = command => cmd_phase = "execd"
    /\ \E code \in ExitCodes : Die(p, [how |-> "exited", value |-> code])
    /\ UNCHANGED managerOnly

\* SIGTERM is fatal unless the process chooses otherwise, and waits until
\* the process is continued; SIGKILL is fatal to stopped processes too.
DieOfSigterm(p) ==
    /\ "SIGTERM" \in got[p] /\ state[p] = "running"
    /\ Die(p, [how |-> "signaled", value |-> SigNum["SIGTERM"]])
    /\ UNCHANGED managerOnly

DieOfSigkill(p) ==
    /\ "SIGKILL" \in got[p] /\ state[p] \in {"running", "stopped"}
    /\ Die(p, [how |-> "signaled", value |-> SigNum["SIGKILL"]])
    /\ UNCHANGED managerOnly

\* A process reaps one of its children.
ParentReaps ==
    /\ \E p \in Present :
         /\ state[p] = "zombie"
         /\ parent[p] \in Pids /\ state[parent[p]] = "running"
         /\ Reap(p)
    /\ UNCHANGED <<sigchld, managerOnly>>

\* Somebody stops or continues a process; either notifies its parent.
Stop ==
    /\ stops < MaxStops /\ stops' = stops + 1
    /\ \E p \in Pids :
         /\ state[p] = "running"
         /\ state' = [state EXCEPT ![p] = "stopped"]
         /\ sigchld' = (sigchld \/ parent[p] = Manager)
    /\ UNCHANGED <<parent, got, wstatus, cmdVars, forks, signals, runVars, pc,
                   after, failed, termVars>>

Continue ==
    /\ \E p \in Pids :
         /\ state[p] = "stopped"
         /\ state' = [state EXCEPT ![p] = "running"]
         /\ sigchld' = (sigchld \/ parent[p] = Manager)
    /\ UNCHANGED <<parent, got, wstatus, cmdVars, managerOnly>>

-----------------------------------------------------------------------------
(* _srt_process_manager_run(): starting COMMAND.  g_spawn_async() forks and *)
(* waits until the new process has executed COMMAND or failed to; only then *)
(* does it store the process ID in global_child_pid.                        *)

SpawnCommand ==
    /\ pc = "start" /\ pc' = "spawning"
    /\ \E c \in Pids : StartProcess(c, Manager) /\ command' = c
    /\ cmd_phase' = "forked"
    /\ UNCHANGED <<sigchld, cmd_fate, boundVars, runVars, after, failed,
                   termVars>>

\* _srt_process_manager_child_setup_cb() asks for a parent-death signal.
\* (File descriptors are not modelled here.)
ChildSetup ==
    /\ cmd_phase = "forked" /\ command # NoPid /\ state[command] = "running"
    /\ cmd_phase' = "set_up"
    /\ UNCHANGED <<procVars, sigchld, command, cmd_fate, managerOnly>>

\* An error in the setup function ends the process without telling GLib.
ChildSetupFails ==
    /\ cmd_phase = "forked" /\ command # NoPid /\ state[command] = "running"
    /\ Die(command, [how |-> "exited", value |-> LAUNCH_EX_FAILED])
    /\ UNCHANGED managerOnly

ExecCommand ==
    /\ cmd_phase = "set_up" /\ command # NoPid /\ state[command] = "running"
    /\ cmd_phase' = "execd"
    /\ UNCHANGED <<procVars, sigchld, command, cmd_fate, managerOnly>>

\* fork() fails, or execve() fails, in which case GLib reaps the process.
ForkFails ==
    /\ pc = "start" /\ pc' = "done"
    /\ exit_status' = LAUNCH_EX_CANNOT_INVOKE /\ failed' = TRUE
    /\ UNCHANGED <<procVars, sigchld, cmdVars, boundVars, opts,
                   global_child_pid, wait_status, after, termVars>>

ExecFails ==
    /\ pc = "spawning" /\ pc' = "done"
    /\ cmd_phase = "set_up" /\ command # NoPid /\ state[command] = "running"
    /\ Reap(command)
    /\ sigchld' = TRUE
    /\ exit_status' \in {LAUNCH_EX_CANNOT_INVOKE, LAUNCH_EX_NOT_FOUND}
    /\ failed' = TRUE
    /\ UNCHANGED <<boundVars, opts, global_child_pid, wait_status, after,
                   termVars>>

AssignChildPid ==
    /\ pc = "spawning" /\ pc' = "wait_main"
    /\ cmd_phase = "execd" \/ state[command] = "zombie"
    /\ global_child_pid' = command
    /\ UNCHANGED <<procVars, sigchld, cmdVars, boundVars, opts, wait_status,
                   exit_status, after, failed, termVars>>

-----------------------------------------------------------------------------
(* _srt_wait_for_child_processes(): wait() for any child.                  *)

\* Faulty variant: take whatever child exits first for COMMAND.
NoticeAny(p) == wait_status' = wstatus[p] /\ pc' = "main_reaped"

\* Has the main process been reaped?
Notice(p) ==
    IF p = global_child_pid
    THEN wait_status' = wstatus[p] /\ pc' = "main_reaped"
    ELSE UNCHANGED <<wait_status, pc>>

\* Reap children until COMMAND is the one that exited.
WaitForMain ==
    /\ pc = "wait_main"
    /\ \E p \in ChildrenOf(Manager) :
         state[p] = "zombie" /\ Reap(p) /\ Notice(p)
    /\ UNCHANGED <<sigchld, boundVars, opts, global_child_pid, exit_status,
                   after, failed, termVars>>

\* A separate step: a signal handler may run after wait() has freed the
\* process ID of COMMAND and before global_child_pid is reset.
ClearChildPid ==
    /\ pc = "main_reaped"
    /\ global_child_pid' = NoPid
    /\ exit_status' = ExitStatus(wait_status)
    /\ pc' = IF opts.grace >= 0 THEN "terminate" ELSE "drain"
    /\ UNCHANGED <<procVars, sigchld, cmdVars, boundVars, opts, wait_status,
                   after, failed, termVars>>

\* With no main process: reap children until there are none.
DrainChild ==
    /\ pc = "drain"
    /\ \E p \in ChildrenOf(Manager) : state[p] = "zombie" /\ Reap(p)
    /\ UNCHANGED <<sigchld, boundVars, runVars, pc, after, failed, termVars>>

\* Faulty variant: nothing to reap yet is taken for no children at all.
NoZombies == \A p \in ChildrenOf(Manager) : state[p] # "zombie"

\* wait() fails with ECHILD
NoChildren == ChildrenOf(Manager) = {}

DrainEnds ==
    /\ pc = "drain" /\ NoChildren
    /\ pc' = "done"
    /\ UNCHANGED <<procVars, sigchld, cmdVars, boundVars, runVars, after,
                   failed, termVars>>

-----------------------------------------------------------------------------
(* _srt_subreaper_terminate_all_child_processes()                          *)

Refresh(return) == pc' = "reap" /\ after' = return

\* Arm the wait timer, or start sending SIGTERM, or neither.
SetUpWait ==
    /\ pc = "terminate"
    /\ \/ /\ opts.grace > 0 /\ opts.wait > 0
          /\ wait_source' = TRUE /\ pc' = "setup_kill"
          /\ UNCHANGED <<after, sending_signal>>
       \/ /\ opts.grace > 0 /\ opts.wait = 0
          /\ sending_signal' = "SIGTERM" /\ Refresh("setup_kill")
          /\ UNCHANGED wait_source
       \/ /\ opts.grace = 0
          /\ pc' = "setup_kill"
          /\ UNCHANGED <<after, sending_signal, wait_source>>
    /\ UNCHANGED <<procVars, sigchld, cmdVars, boundVars, runVars, failed,
                   sent_sigterm, sent_sigkill, kill_source, todo, scan,
                   finished>>

\* Arm the kill timer, or start sending SIGKILL.
SetUpKill ==
    /\ pc = "setup_kill"
    /\ \/ /\ opts.wait + opts.grace > 0
          /\ kill_source' = TRUE /\ pc' = "setup_fd"
          /\ UNCHANGED <<after, sending_signal>>
       \/ /\ opts.wait + opts.grace = 0
          /\ sending_signal' = "SIGKILL" /\ Refresh("setup_fd")
          /\ UNCHANGED kill_source
    /\ UNCHANGED <<procVars, sigchld, cmdVars, boundVars, runVars, failed,
                   sent_sigterm, sent_sigkill, wait_source, todo, scan,
                   finished>>

\* Create the signalfd for SIGCHLD, which may fail, and look at the children.
SetUpSignalFd ==
    /\ pc = "setup_fd"
    /\ \/ Refresh("loop") /\ UNCHANGED failed
       \/ failed' = TRUE /\ pc' = "done" /\ UNCHANGED after
    /\ UNCHANGED <<procVars, sigchld, cmdVars, boundVars, runVars, termVars>>

(* termination_data_refresh(), first part: reap what has exited.           *)

\* Faulty variant: keep the record of a process that has gone.
KeepSent(p) == UNCHANGED <<sent_sigterm, sent_sigkill>>

\* If the process ID is reused, the same signals have to be sent again.
ForgetSent(p) ==
    /\ sent_sigterm' = sent_sigterm \ {p}
    /\ sent_sigkill' = sent_sigkill \ {p}

ReapChild ==
    /\ pc = "reap"
    /\ \E p \in ChildrenOf(Manager) :
         /\ state[p] = "zombie" /\ Reap(p) /\ ForgetSent(p)
    /\ UNCHANGED <<sigchld, boundVars, runVars, pc, after, failed,
                   sending_signal, wait_source, kill_source, todo, scan,
                   finished>>

ReapedAll ==
    /\ pc = "reap"
    /\ \A p \in ChildrenOf(Manager) : state[p] # "zombie"
    /\ finished' = NoChildren
    /\ pc' = IF finished' \/ sending_signal = "none" THEN after ELSE "list"
    /\ UNCHANGED <<procVars, sigchld, cmdVars, boundVars, runVars, after,
                   failed, sending_signal, sent_sigterm, sent_sigkill,
                   wait_source, kill_source, todo, scan>>

(* Second part: find the remaining children, one way or another.           *)

\* /proc/PID/task/PID/children.  The kernel may leave out children if one
\* exits during the read, which also makes SIGCHLD pending; proc(5).
ReadChildrenFile ==
    /\ pc = "list" /\ pc' = "signal"
    /\ scan' = FALSE
    /\ \E omitted \in SUBSET ChildrenOf(Manager) :
         /\ omitted # {} => sigchld
         /\ todo' = ChildrenOf(Manager) \ omitted
    /\ UNCHANGED <<procVars, sigchld, cmdVars, boundVars, runVars, after,
                   failed, sending_signal, sent_sigterm, sent_sigkill,
                   wait_source, kill_source, finished>>

\* Without that file, every process in /proc is a candidate.
OpenProc ==
    /\ pc = "list"
    /\ \/ scan' = TRUE /\ todo' = Pids /\ pc' = "signal" /\ UNCHANGED failed
       \/ failed' = TRUE /\ pc' = "done" /\ UNCHANGED <<scan, todo>>
    /\ UNCHANGED <<procVars, sigchld, cmdVars, boundVars, runVars, after,
                   sending_signal, sent_sigterm, sent_sigkill, wait_source,
                   kill_source, finished>>

\* Faulty variant: do not check the parent of what /proc lists.
AnyProcess(p) == state[p] # "gone"

\* In the scan of /proc, the candidate's PPid is read now.
IsCandidate(p) == ~scan \/ p \in ChildrenOf(Manager)

\* Faulty variant: do not send SIGCONT after the signal.
StillStopped(s) == s

Woken(s) == IF s = "stopped" THEN "running" ELSE s

\* termination_data_signal_child(): the signal, and SIGCONT to wake it up.
SignalChild(p) ==
    /\ IF sending_signal = "SIGKILL"
       THEN sent_sigkill' = sent_sigkill \cup {p} /\ UNCHANGED sent_sigterm
       ELSE sent_sigterm' = sent_sigterm \cup {p} /\ UNCHANGED sent_sigkill
    /\ got' = [got EXCEPT ![p] = @ \cup {sending_signal}]
    /\ state' = [state EXCEPT ![p] = Woken(@)]
    /\ sigchld' = (sigchld \/ (state[p] = "stopped" /\ parent[p] = Manager))

AlreadySent == IF sending_signal = "SIGKILL" THEN sent_sigkill ELSE sent_sigterm

VisitChild ==
    /\ pc = "signal"
    /\ \E p \in todo :
         /\ todo' = todo \ {p}
         /\ IF IsCandidate(p) /\ p \notin AlreadySent
            THEN SignalChild(p)
            ELSE UNCHANGED <<sent_sigterm, sent_sigkill, got, state, sigchld>>
    /\ UNCHANGED <<parent, wstatus, cmdVars, boundVars, runVars, pc, after,
                   failed, sending_signal, wait_source, kill_source, scan,
                   finished>>

\* Faulty variant: read from the signalfd after looking at the children.
ReadSignalFd == sigchld' = FALSE

AfterVisit == UNCHANGED sigchld

VisitedAll ==
    /\ pc = "signal" /\ todo = {}
    /\ pc' = after
    /\ AfterVisit
    /\ UNCHANGED <<procVars, cmdVars, boundVars, runVars, after,
                   failed, termVars>>

(* The main loop: whatever source is ready is dispatched.                  *)

\* start_sending_sigterm()
WaitTimer ==
    /\ pc = "loop" /\ ~finished
    /\ wait_source /\ wait_source' = FALSE
    /\ sending_signal' = IF sending_signal = "none" THEN "SIGTERM"
                         ELSE sending_signal
    /\ Refresh("loop")
    /\ UNCHANGED <<procVars, sigchld, cmdVars, boundVars, runVars, failed,
                   sent_sigterm, sent_sigkill, kill_source, todo, scan,
                   finished>>

\* start_sending_sigkill().  The wait timer was attached earlier, with a
\* shorter or equal delay, so GLib dispatches it first.
KillTimer ==
    /\ pc = "loop" /\ ~finished
    /\ ~wait_source
    /\ kill_source /\ kill_source' = FALSE
    /\ sending_signal' = "SIGKILL"
    /\ Refresh("loop")
    /\ UNCHANGED <<procVars, sigchld, cmdVars, boundVars, runVars, failed,
                   sent_sigterm, sent_sigkill, wait_source, todo, scan,
                   finished>>

\* sigchld_cb() consumes SIGCHLD before it looks at the children.
SigchldCb ==
    /\ pc = "loop" /\ ~finished
    /\ sigchld /\ sigchld' = FALSE
    /\ Refresh("loop")
    /\ UNCHANGED <<procVars, cmdVars, boundVars, runVars, failed, termVars>>

LoopEnds ==
    /\ pc = "loop" /\ finished
    /\ pc' = "done"
    /\ UNCHANGED <<procVars, sigchld, cmdVars, boundVars, runVars, after,
                   failed, termVars>>

-----------------------------------------------------------------------------
\* main() drops the SrtProcessManager, and with it the locks, and returns.
ManagerExits ==
    /\ pc = "done" /\ pc' = "exited"
    /\ ManagerEnds
    /\ UNCHANGED <<boundVars, runVars, after, failed, termVars>>

\* terminate_child_cb(): the manager receives a signal that it forwards
\* (SIGTERM stands for the six of them), or dies of it.  A signal to a
\* process ID that is free is lost.
ForwardSignal ==
    /\ ManagerUp /\ global_child_pid # NoPid
    /\ got' = [got EXCEPT ![global_child_pid] =
                  IF state[global_child_pid] = "gone" THEN @
                  ELSE @ \cup {"SIGTERM"}]
    /\ UNCHANGED <<state, parent, wstatus, sigchld, cmdVars, pc>>

DieOfForwardedSignal ==
    /\ ManagerUp /\ global_child_pid = NoPid
    /\ pc' = "killed"
    /\ ManagerEnds

SignalManager ==
    /\ signals < MaxSignals /\ signals' = signals + 1
    /\ ForwardSignal \/ DieOfForwardedSignal
    /\ UNCHANGED <<forks, stops, runVars, after, failed, termVars>>

\* The manager has gone, and so has every process: nothing more happens.
AllGone ==
    /\ ~ManagerUp /\ Present = {}
    /\ UNCHANGED vars

SpawnStep == \/ SpawnCommand \/ ChildSetup \/ ChildSetupFails \/ ExecCommand
             \/ ForkFails \/ ExecFails \/ AssignChildPid
WaitStep  == WaitForMain \/ ClearChildPid \/ DrainChild \/ DrainEnds
RefreshStep == \/ ReapChild \/ ReapedAll \/ ReadChildrenFile \/ OpenProc
               \/ VisitChild \/ VisitedAll
TerminateStep == \/ SetUpWait \/ SetUpKill \/ SetUpSignalFd \/ RefreshStep
                 \/ SigchldCb \/ LoopEnds
ManagerStep == SpawnStep \/ WaitStep \/ TerminateStep \/ ManagerExits

ProcessStep ==
    \/ Fork \/ ParentReaps \/ Stop \/ Continue
    \/ \E p \in Pids : Exit(p) \/ DieOfSigterm(p) \/ DieOfSigkill(p)

Next == \/ ManagerStep \/ WaitTimer \/ KillTimer \/ SignalManager
        \/ ProcessStep \/ AllGone

Spec == Init /\ [][Next]_vars

-----------------------------------------------------------------------------
(* Fairness: the manager runs, timers that are armed expire, and a process *)
(* that has been sent SIGKILL dies.  Nothing is assumed of processes that  *)
(* have not been sent it: they may run, or stay stopped, for ever.         *)
LiveSpec ==
    /\ Spec
    /\ WF_vars(ManagerStep) /\ WF_vars(WaitTimer) /\ WF_vars(KillTimer)
    /\ \A p \in Pids : WF_vars(DieOfSigkill(p))

\* A step of an environment without malice, and of a grace period that is
\* long enough: nobody stops a process once the manager has begun to terminate
\* them, and the kill timer does not expire.
PoliteStep ==
    /\ stops' # stops => pc = "wait_main"
    /\ kill_source => kill_source'

-----------------------------------------------------------------------------
(* Properties.                                                             *)

PCs == {"start", "spawning", "wait_main", "main_reaped", "drain", "terminate",
        "setup_kill", "setup_fd", "reap", "list", "signal", "loop", "done",
        "exited", "killed"}

ProcessTypeOK ==
    /\ state \in [Pids -> ProcState]
    /\ parent \in [Pids -> Pids \cup {Manager, InitPid}]
    /\ got \in [Pids -> SUBSET Fatal]
    /\ wstatus \in [Pids -> WaitStatus]
    /\ command \in Pids \cup {NoPid}
    /\ cmd_fate \in WaitStatus

BoundTypeOK ==
    forks \in 0..MaxForks /\ stops \in 0..MaxStops /\ signals \in 0..MaxSignals

RunTypeOK ==
    /\ opts \in Options
    /\ cmd_phase \in {"none", "forked", "set_up", "execd"}
    /\ pc \in PCs /\ after \in {"setup_kill", "setup_fd", "loop"}
    /\ global_child_pid \in Pids \cup {NoPid}
    /\ wait_status \in WaitStatus /\ exit_status \in -1..255

TermTypeOK ==
    /\ sending_signal \in Fatal \cup {"none"}
    /\ sent_sigterm \subseteq Pids /\ sent_sigkill \subseteq Pids
    /\ todo \subseteq Pids

FlagTypeOK ==
    /\ sigchld \in BOOLEAN /\ failed \in BOOLEAN
    /\ wait_source \in BOOLEAN /\ kill_source \in BOOLEAN
    /\ scan \in BOOLEAN /\ finished \in BOOLEAN

\* The type invariant of the module.
TypeOK == ProcessTypeOK /\ BoundTypeOK /\ RunTypeOK /\ TermTypeOK /\ FlagTypeOK

\* When a subreaper's run() has returned without an error, and so when it
\* releases its locks, no descendant of COMMAND is left anywhere, however
\* the processes forked, died and were reparented meanwhile.
ExitsAfterDescendants ==
    pc \in {"done", "exited"} /\ opts.subreaper /\ ~failed => Present = {}

\* The tables of processes that have been sent a signal speak of the
\* processes that have those IDs now, although process IDs are reused.
SentMeansSignalled ==
    ManagerUp =>
        /\ \A p \in sent_sigterm : state[p] # "gone" /\ "SIGTERM" \in got[p]
        /\ \A p \in sent_sigkill : state[p] # "gone" /\ "SIGKILL" \in got[p]

\* The main loop never blocks in poll() while nothing that it has arranged
\* would wake it up: SIGCHLD is pending, or some child that is alive has
\* been sent the current signal, and will raise SIGCHLD when it dies of it.
NoLostWakeup ==
    pc = "loop" /\ sending_signal # "none" /\ ~finished =>
        sigchld \/ \E p \in AlreadySent : p \in Alive /\ parent[p] = Manager

\* Neither way of listing processes ever makes the manager signal a process
\* that is not its own child at that moment.
SignalsOnlyChildren ==
    [][\A p \in Pids : VisitChild /\ got'[p] # got[p] => parent[p] = Manager]_vars

\* The status that is reported is COMMAND's, whichever children exit before
\* it, and whichever process has its ID afterwards.
ExitStatusIsCommands ==
    wait_status # NoStatus =>
        /\ wait_status = cmd_fate
        /\ exit_status \in {-1, ExitStatus(cmd_fate)}

\* With --terminate-timeout, once COMMAND has exited the manager exits too,
\* whatever the remaining processes do about SIGTERM or being stopped; and in
\* a polite environment without waiting for the end of the grace period,
\* stopped processes and orphans included.
Terminates == (pc = "terminate") ~> (pc = "exited")
=============================================================================
