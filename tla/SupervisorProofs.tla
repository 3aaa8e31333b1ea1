-------------------------- MODULE SupervisorProofs --------------------------
(***************************************************************************)
(* Proofs about the two parts of steam-runtime-supervisor, ProcessManager   *)
(* and FdSetup.                                                            *)
(*                                                                         *)
(* ProcessManager, for any set of process IDs and any bounds on forks,     *)
(* stops and signals.                                                      *)
(*                                                                         *)
(* FdSetup, for any number of file descriptors and options: FdsAsAsked.     *)
(* The invariant follows what a number means: until the supervisor lets go, *)
(* a number that it has not opened itself (own) is what it was at the       *)
(* beginning, except that 1 becomes 2; what it has opened is one of the two *)
(* copies that log.c has saved, or a lock file.  As nothing but a copy is   *)
(* both a source and opened by the supervisor, no assignment in the child   *)
(* destroys the source of a later one, and each number is either as it was  *)
(* before fork() or as its last assignment says.                           *)
(***************************************************************************)
EXTENDS ProcessManager, FdSetup, TLAPS

(* The parts of the inductive invariant.                                   *)

\* Children are adopted when their parent dies, so a parent is alive.
ParentsAlive ==
    \A p \in Present : parent[p] \in Pids => state[parent[p]] \in {"running", "stopped"}

\* Parenthood has no cycles: no set of processes is closed under it.
NoCycle ==
    \A S \in SUBSET Pids :
        (S # {} /\ \A p \in S : state[p] # "gone") => \E p \in S : parent[p] \notin S

\* Under a subreaper nothing is adopted by init.
NothingEscapes ==
    ManagerUp /\ opts.subreaper => \A p \in Present : parent[p] # InitPid

\* Before the termination phase its variables have their initial values.
EarlyPCs == {"start", "spawning", "wait_main", "main_reaped", "drain", "terminate"}

NotStarted ==
    pc \in EarlyPCs =>
        /\ sent_sigterm = {} /\ sent_sigkill = {}
        /\ ~finished /\ sending_signal = "none"

\* What the points of the termination phase know about each other.
PhaseOK ==
    /\ pc \in {"list", "signal"} => sending_signal # "none"
    /\ pc = "start" => Present = {}

\* Only the manager reaps its children, so what it has signalled, and what
\* it has listed, remains its child.
SentOK ==
    ManagerUp =>
        /\ \A p \in sent_sigterm :
              state[p] # "gone" /\ parent[p] = Manager /\ "SIGTERM" \in got[p]
        /\ \A p \in sent_sigkill :
              state[p] # "gone" /\ parent[p] = Manager /\ "SIGKILL" \in got[p]

TodoOK ==
    pc = "signal" /\ ~scan =>
        \A p \in todo : state[p] # "gone" /\ parent[p] = Manager

\* finished means that there is nothing left to wait for.
FinishedOK ==
    /\ finished /\ opts.subreaper => Present = {}
    /\ ExitsAfterDescendants

\* Some child in S is alive: its death will raise SIGCHLD.
LiveChildIn(S) ==
    \E p \in S : state[p] \in {"running", "stopped"} /\ parent[p] = Manager

WakeOK ==
    /\ pc = "list" => sigchld \/ LiveChildIn(Pids)
    /\ pc = "signal" => sigchld \/ LiveChildIn(AlreadySent \cup todo)
    /\ pc = "loop" /\ sending_signal # "none" /\ ~finished =>
           sigchld \/ LiveChildIn(AlreadySent)

\* COMMAND is the manager's child until it is reaped; its fate is then known.
CommandOK ==
    /\ ManagerUp /\ command # NoPid => state[command] # "gone" /\ parent[command] = Manager
    /\ command # NoPid /\ state[command] = "zombie" => wstatus[command] = cmd_fate
    /\ pc = "start" => command = NoPid
    /\ pc \in {"spawning", "wait_main"} => command # NoPid
    /\ pc = "wait_main" => global_child_pid = command
    /\ pc \in {"start", "spawning", "wait_main"} => wait_status = NoStatus
    /\ pc \in {"start", "spawning", "wait_main", "main_reaped"} => exit_status = -1
    /\ wait_status # NoStatus => command = NoPid
    /\ command # NoPid /\ cmd_phase # "execd" => \A q \in Present : parent[q] # command

IInv ==
    /\ TypeOK /\ PhaseOK /\ NotStarted
    /\ ParentsAlive /\ NoCycle /\ NothingEscapes
    /\ SentOK /\ TodoOK /\ FinishedOK /\ WakeOK
    /\ CommandOK /\ ExitStatusIsCommands

-----------------------------------------------------------------------------
(* Type correctness.  The kernel's part is shared by many actions.         *)

\* Every value that stands for a wait status is one, and the exit status
\* that _srt_wait_status_to_exit_status() computes from it fits its type.
LEMMA StatusValues ==
    /\ NoStatus \in WaitStatus
    /\ \A c \in 0..255 : [how |-> "exited", value |-> c] \in WaitStatus
    /\ \A f \in Fatal : [how |-> "signaled", value |-> SigNum[f]] \in WaitStatus
    /\ \A ws \in WaitStatus : ExitStatus(ws) \in -1..255
<1>1. NoStatus \in WaitStatus
  BY DEF WaitStatus
<1>2. \A c \in 0..255 : [how |-> "exited", value |-> c] \in WaitStatus
  BY DEF WaitStatus, Exited
<1>3. \A f \in Fatal : [how |-> "signaled", value |-> SigNum[f]] \in WaitStatus
  BY DEF WaitStatus, Signaled, Fatal, SigNum
<1>4. \A ws \in WaitStatus : ExitStatus(ws) \in -1..255
  BY DEF WaitStatus, Exited, Signaled, NoStatus, ExitStatus
<1> QED BY <1>1, <1>2, <1>3, <1>4

\* A process that dies leaves the process table well-typed.
LEMMA DieType ==
    ASSUME ProcessTypeOK, NEW p \in Pids, NEW ws \in WaitStatus, Die(p, ws)
    PROVE  ProcessTypeOK'
<1>1. state' \in [Pids -> ProcState]
  BY DEF ProcessTypeOK, Die, ProcState
<1>2. parent' \in [Pids -> Pids \cup {Manager, InitPid}]
  BY DEF ProcessTypeOK, Die, Reaper
<1>3. got' \in [Pids -> SUBSET Fatal] /\ wstatus' \in [Pids -> WaitStatus]
  BY StatusValues DEF ProcessTypeOK, Die
<1>4. command' \in Pids \cup {NoPid} /\ cmd_fate' \in WaitStatus
  BY Zenon DEF ProcessTypeOK, Die
<1> QED BY <1>1, <1>2, <1>3, <1>4 DEF ProcessTypeOK

\* So does reaping a zombie with wait().
LEMMA ReapType ==
    ASSUME ProcessTypeOK, NEW p \in Pids, Reap(p)
    PROVE  ProcessTypeOK'
BY StatusValues DEF ProcessTypeOK, Reap, ProcState

\* So does the end of the manager's own process.
LEMMA ManagerEndsType ==
    ASSUME ProcessTypeOK, ManagerEnds
    PROVE  ProcessTypeOK'
BY StatusValues DEF ProcessTypeOK, ManagerEnds, ProcState, Fatal

\* Every step of a process that ends is a Die step.
LEMMA EndsByDying ==
    ASSUME NEW p \in Pids, Exit(p) \/ DieOfSigterm(p) \/ DieOfSigkill(p)
    PROVE  /\ \E ws \in WaitStatus : Die(p, ws)
           /\ state[p] \in {"running", "stopped"}
           /\ UNCHANGED <<cmd_phase, managerOnly>>
<1>1. CASE Exit(p)
  BY <1>1, StatusValues, BoundsAssumption DEF Exit, Die
<1>2. CASE DieOfSigterm(p)
  BY <1>2, StatusValues DEF DieOfSigterm, Fatal, Die
<1>3. CASE DieOfSigkill(p)
  BY <1>3, StatusValues DEF DieOfSigkill, Fatal, Die
<1> QED BY <1>1, <1>2, <1>3

-----------------------------------------------------------------------------
(* Type correctness, one group of variables at a time.                     *)

\* The initial state is well-typed.
LEMMA TypeInit == Init => TypeOK
<1> SUFFICES ASSUME Init PROVE TypeOK
  OBVIOUS
<1>1. ProcessTypeOK /\ RunTypeOK /\ TermTypeOK
  BY StatusValues DEF Init, ProcessTypeOK, RunTypeOK, TermTypeOK, ProcState, Fatal, PCs
<1>2. BoundTypeOK
  BY BoundsAssumption DEF Init, BoundTypeOK
<1>3. FlagTypeOK
  BY Zenon DEF Init, FlagTypeOK
<1> QED BY <1>1, <1>2, <1>3 DEF TypeOK

\* Every step keeps the process table well-typed; SignalChild needs
\* sending_signal to be a real signal wherever children are signalled.
LEMMA ProcessTypeNext ==
    ASSUME TypeOK, PhaseOK, Next
    PROVE  ProcessTypeOK'
<1> USE DEF TypeOK
<1>1. CASE Fork
  BY <1>1 DEF ProcessTypeOK, Fork, StartProcess, ProcState, cmdVars
<1>2. ASSUME NEW p \in Pids, Exit(p) \/ DieOfSigterm(p) \/ DieOfSigkill(p)
      PROVE  ProcessTypeOK'
  BY <1>2, EndsByDying, DieType
<1>3. CASE ParentReaps
  BY <1>3, ReapType DEF ParentReaps, Present
<1>4. CASE Stop \/ Continue
  BY <1>4 DEF ProcessTypeOK, Stop, Continue, ProcState, cmdVars
<1>5. CASE SpawnCommand \/ ChildSetup \/ ExecCommand \/ ForkFails \/ AssignChildPid
  BY <1>5 DEF ProcessTypeOK, SpawnCommand, ChildSetup, ExecCommand, ForkFails, AssignChildPid,
     StartProcess, ProcState, procVars, cmdVars
<1>6. CASE ChildSetupFails
  BY <1>6, DieType, StatusValues DEF ChildSetupFails, ProcessTypeOK, LAUNCH_EX_FAILED
<1>7. CASE ExecFails
  BY <1>7, ReapType DEF ExecFails, ProcessTypeOK
<1>8. CASE WaitForMain \/ DrainChild \/ ReapChild
  BY <1>8, ReapType DEF WaitForMain, DrainChild, ReapChild, ChildrenOf, Present
<1>9. CASE VisitChild
  BY <1>9 DEF VisitChild, SignalChild, Woken, PhaseOK, ProcessTypeOK, TermTypeOK, ProcState, cmdVars
<1>10. CASE ManagerExits \/ DieOfForwardedSignal
  BY <1>10, ManagerEndsType DEF ManagerExits, DieOfForwardedSignal
<1>11. CASE ForwardSignal
  BY <1>11 DEF ForwardSignal, ProcessTypeOK, RunTypeOK, Fatal, cmdVars
<1>12. CASE UNCHANGED <<procVars, cmdVars>>
  BY <1>12 DEF ProcessTypeOK, procVars, cmdVars
<1>13. CASE \/ ClearChildPid \/ DrainEnds \/ SetUpWait \/ SetUpKill \/ SetUpSignalFd \/ ReapedAll
           \/ ReadChildrenFile \/ OpenProc \/ VisitedAll \/ WaitTimer \/ KillTimer \/ SigchldCb
           \/ LoopEnds \/ AllGone
  BY <1>12, <1>13 DEF ClearChildPid, DrainEnds, SetUpWait, SetUpKill, SetUpSignalFd, ReapedAll,
     ReadChildrenFile, OpenProc, VisitedAll, WaitTimer, KillTimer, SigchldCb, LoopEnds, AllGone, vars
<1> QED
  BY <1>1, <1>2, <1>3, <1>4, <1>5, <1>6, <1>7, <1>8, <1>9, <1>10, <1>11, <1>13
  DEF Next, ManagerStep, SpawnStep, WaitStep, TerminateStep, RefreshStep, ProcessStep, SignalManager

\* What process steps, and the kernel's, leave alone.
LEMMA ProcessStepFrame ==
    ASSUME ProcessStep
    PROVE  UNCHANGED <<signals, cmd_phase, runVars, pc, after, failed, termVars>>
<1>1. CASE Fork \/ ParentReaps \/ Stop \/ Continue
  BY <1>1 DEF Fork, ParentReaps, Reap, Stop, Continue, managerOnly, boundVars, cmdVars
<1>2. ASSUME NEW p \in Pids, Exit(p) \/ DieOfSigterm(p) \/ DieOfSigkill(p)
      PROVE  UNCHANGED <<signals, cmd_phase, runVars, pc, after, failed, termVars>>
  BY <1>2, EndsByDying DEF managerOnly, boundVars
<1> QED BY <1>1, <1>2 DEF ProcessStep

\* No step exceeds the bounds on forks, stops and signals.
LEMMA BoundTypeNext ==
    ASSUME TypeOK, Next
    PROVE  BoundTypeOK'
<1> USE DEF TypeOK, BoundTypeOK
<1>1. CASE UNCHANGED boundVars
  BY <1>1 DEF boundVars
<1>2. CASE SpawnStep \/ WaitStep \/ ManagerExits \/ AllGone
  BY <1>1, <1>2 DEF SpawnStep, SpawnCommand, ChildSetup, ChildSetupFails, ExecCommand, ForkFails,
     ExecFails, AssignChildPid, WaitStep, WaitForMain, ClearChildPid, DrainChild, DrainEnds,
     ManagerExits, AllGone, managerOnly, vars
<1>7. CASE TerminateStep \/ WaitTimer \/ KillTimer
  BY <1>1, <1>7 DEF TerminateStep, RefreshStep, SetUpWait, SetUpKill, SetUpSignalFd, ReapChild,
     ReapedAll, ReadChildrenFile, OpenProc, VisitChild, VisitedAll, WaitTimer, KillTimer,
     SigchldCb, LoopEnds
<1>3. CASE SignalManager
  BY <1>3, BoundsAssumption DEF SignalManager
<1>4. CASE Fork \/ Stop
  BY <1>4, BoundsAssumption DEF Fork, Stop
<1>5. CASE ParentReaps \/ Continue
  BY <1>1, <1>5 DEF ParentReaps, Continue, managerOnly
<1>6. ASSUME NEW p \in Pids, Exit(p) \/ DieOfSigterm(p) \/ DieOfSigkill(p)
      PROVE  BoundTypeOK'
  BY <1>1, <1>6, EndsByDying DEF managerOnly
<1> QED BY <1>2, <1>3, <1>4, <1>5, <1>6, <1>7 DEF Next, ManagerStep, ProcessStep

\* Every step of _srt_process_manager_run() keeps its variables typed.
LEMMA RunTypeNext ==
    ASSUME TypeOK, Next
    PROVE  RunTypeOK'
<1> USE DEF TypeOK, RunTypeOK, PCs, runVars
<1>1. CASE ProcessStep
  BY <1>1, ProcessStepFrame
<1>2. CASE SpawnStep
  BY <1>2 DEF SpawnStep, SpawnCommand, ChildSetup, ChildSetupFails, Die, Reap, ExecCommand, ForkFails,
     ExecFails, AssignChildPid, managerOnly, cmdVars, ProcessTypeOK,
     LAUNCH_EX_CANNOT_INVOKE, LAUNCH_EX_NOT_FOUND
<1>3. CASE WaitForMain
  BY <1>3 DEF WaitForMain, Notice, Reap, ProcessTypeOK, ChildrenOf, Present
<1>4. CASE ClearChildPid
  <2>1. ExitStatus(wait_status) \in -1..255
    BY StatusValues
  <2> QED BY <1>4, <2>1 DEF ClearChildPid, cmdVars
<1>8. CASE DrainChild \/ DrainEnds
  BY <1>8 DEF DrainChild, DrainEnds, Reap, cmdVars
<1>5. CASE SetUpWait \/ SetUpKill \/ SetUpSignalFd \/ WaitTimer \/ KillTimer \/ SigchldCb \/ LoopEnds
  BY <1>5 DEF SetUpWait, SetUpKill, SetUpSignalFd, WaitTimer, KillTimer, SigchldCb, LoopEnds,
     Refresh, cmdVars
<1>6. CASE RefreshStep
  BY <1>6 DEF RefreshStep, ReapChild, Reap, ReapedAll, ReadChildrenFile, OpenProc, VisitChild,
     VisitedAll, cmdVars
<1>7. CASE ManagerExits \/ SignalManager \/ AllGone
  BY <1>7 DEF ManagerExits, SignalManager, ForwardSignal, DieOfForwardedSignal, ManagerEnds, AllGone,
     vars, cmdVars
<1> QED
  BY <1>1, <1>2, <1>3, <1>4, <1>5, <1>6, <1>7, <1>8 DEF Next, ManagerStep, WaitStep, TerminateStep

\* Every step keeps the signal, its two tables and the work list typed.
LEMMA TermTypeNext ==
    ASSUME TypeOK, Next
    PROVE  TermTypeOK'
<1> USE DEF TypeOK, TermTypeOK, termVars
<1>1. CASE ProcessStep
  BY <1>1, ProcessStepFrame
<1>2. CASE SpawnStep \/ WaitStep \/ ManagerExits \/ SignalManager \/ AllGone
  BY <1>2 DEF SpawnStep, SpawnCommand, ChildSetup, ChildSetupFails, ExecCommand, ForkFails, ExecFails,
     AssignChildPid, WaitStep, WaitForMain, ClearChildPid, DrainChild, DrainEnds, ManagerExits,
     SignalManager, AllGone, managerOnly, vars
<1>3. CASE SetUpWait \/ SetUpKill \/ SetUpSignalFd \/ WaitTimer \/ KillTimer \/ SigchldCb \/ LoopEnds
  BY <1>3 DEF SetUpWait, SetUpKill, SetUpSignalFd, WaitTimer, KillTimer, SigchldCb, LoopEnds, Fatal
<1>4. CASE RefreshStep
  BY <1>4 DEF RefreshStep, ReapChild, ForgetSent, ReapedAll, ReadChildrenFile, OpenProc, VisitChild,
     SignalChild, VisitedAll, ChildrenOf, Present
<1> QED BY <1>1, <1>2, <1>3, <1>4 DEF Next, ManagerStep, TerminateStep

\* Every step keeps the flags Boolean.
LEMMA FlagTypeNext ==
    ASSUME TypeOK, Next
    PROVE  FlagTypeOK'
<1> USE DEF TypeOK, FlagTypeOK, termVars
<1>1. CASE ProcessStep
  <2>1. sigchld' \in BOOLEAN
    <3>1. CASE Fork \/ ParentReaps \/ Stop \/ Continue
      BY <1>1, <3>1, Zenon DEF Fork, ParentReaps, Stop, Continue
    <3>2. ASSUME NEW p \in Pids, Exit(p) \/ DieOfSigterm(p) \/ DieOfSigkill(p)
          PROVE  sigchld' \in BOOLEAN
      BY <3>2, EndsByDying, Zenon DEF Die
    <3> QED BY <1>1, <3>1, <3>2 DEF ProcessStep
  <2> QED BY <1>1, <2>1, ProcessStepFrame, Zenon
<1>2. CASE SpawnStep
  BY <1>2, Zenon DEF SpawnStep, SpawnCommand, ChildSetup, ChildSetupFails, ExecCommand, ForkFails, ExecFails,
     AssignChildPid, Die, managerOnly
<1>3. CASE WaitStep
  BY <1>3, Zenon DEF WaitStep, WaitForMain, ClearChildPid, DrainChild, DrainEnds
<1>4. CASE SetUpWait \/ SetUpKill \/ SetUpSignalFd
  BY <1>4, Zenon DEF SetUpWait, SetUpKill, SetUpSignalFd
<1>5. CASE WaitTimer \/ KillTimer \/ SigchldCb \/ LoopEnds
  BY <1>5, Zenon DEF WaitTimer, KillTimer, SigchldCb, LoopEnds
<1>6. CASE RefreshStep
  BY <1>6, Zenon DEF RefreshStep, ReapChild, ReapedAll, ReadChildrenFile, OpenProc, VisitChild,
     SignalChild, VisitedAll, AfterVisit, NoChildren
<1>7. CASE ManagerExits \/ SignalManager
  BY <1>7, Zenon DEF ManagerExits, SignalManager, ForwardSignal, DieOfForwardedSignal, ManagerEnds
<1>8. CASE AllGone
  BY <1>8, Zenon DEF AllGone, vars
<1> QED BY <1>1, <1>2, <1>3, <1>4, <1>5, <1>6, <1>7, <1>8 DEF Next, ManagerStep, TerminateStep

\* The type invariant is inductive, relative to PhaseOK.
LEMMA TypeNext ==
    ASSUME TypeOK, PhaseOK, Next
    PROVE  TypeOK'
BY ProcessTypeNext, BoundTypeNext, RunTypeNext, TermTypeNext, FlagTypeNext DEF TypeOK

-----------------------------------------------------------------------------
(* The shape of the process tree under each kind of change.                *)

TreeOK == ParentsAlive /\ NoCycle

\* A process without children that is started under a live parent cannot
\* close a cycle of parenthood.
LEMMA TreeStart ==
    ASSUME ProcessTypeOK, TreeOK, NEW c \in Pids, NEW m \in Pids \cup {Manager},
           m \in Pids => state[m] = "running", StartProcess(c, m)
    PROVE  TreeOK'
<1>1. ParentsAlive'
  BY DEF TreeOK, ParentsAlive, Present, StartProcess, ProcessTypeOK
<1>2. NoCycle'
  <2> SUFFICES ASSUME NEW S \in SUBSET Pids, S # {}, \A p \in S : state'[p] # "gone"
               PROVE  \E p \in S : parent'[p] \notin S
    BY DEF NoCycle
  <2>1. m # c /\ parent'[c] = m /\ \A p \in Pids \ {c} : parent'[p] = parent[p] /\ state'[p] = state[p]
    BY DEF StartProcess, ProcessTypeOK
  <2>2. CASE S \ {c} = {}
    BY <2>1, <2>2
  <2>3. CASE S \ {c} # {}
    <3>1. PICK p \in S \ {c} : parent[p] \notin S \ {c}
      BY <2>1, <2>3 DEF TreeOK, NoCycle
    <3>2. parent[p] # c
      BY <2>1, <3>1 DEF TreeOK, ParentsAlive, Present, StartProcess
    <3> QED BY <2>1, <3>1, <3>2
  <2> QED BY <2>2, <2>3
<1> QED BY <1>1, <1>2 DEF TreeOK

\* Reaping a process that has no children keeps the tree of processes.
LEMMA TreeReap ==
    ASSUME ProcessTypeOK, TreeOK, NEW p \in Pids, Reap(p),
           \A q \in Present : parent[q] # p
    PROVE  TreeOK'
<1>1. \A q \in Pids : state'[q] # "gone" => q # p /\ state'[q] = state[q] /\ parent'[q] = parent[q]
  BY DEF Reap, ProcessTypeOK
<1>2. ParentsAlive'
  <2> SUFFICES ASSUME NEW q \in Pids, state'[q] # "gone", parent'[q] \in Pids
               PROVE  state'[parent'[q]] \in {"running", "stopped"}
    BY DEF ParentsAlive, Present
  <2>1. state[parent[q]] \in {"running", "stopped"} /\ parent[q] # p
    BY <1>1 DEF TreeOK, ParentsAlive, Present
  <2> QED BY <1>1, <2>1 DEF Reap, ProcessTypeOK
<1>3. NoCycle'
  BY <1>1 DEF TreeOK, NoCycle
<1> QED BY <1>2, <1>3 DEF TreeOK

\* A zombie has no children.
LEMMA ZombieHasNoChildren ==
    ASSUME ParentsAlive, NEW p \in Pids, state[p] = "zombie"
    PROVE  \A q \in Present : parent[q] # p
BY DEF ParentsAlive

\* The kernel's reparenting keeps the tree of processes when one dies.
LEMMA TreeDie ==
    ASSUME ProcessTypeOK, TreeOK, NEW p \in Pids, NEW ws, Die(p, ws),
           state[p] \in {"running", "stopped"}
    PROVE  TreeOK'
<1>1. ASSUME NEW q \in Pids, state'[q] # "gone"
      PROVE  /\ state[q] # "gone"
             /\ parent[q] = p => parent'[q] \notin Pids
             /\ parent[q] # p => parent'[q] = parent[q]
             /\ q # p => state'[q] = state[q]
  BY <1>1, PidsAssumption DEF Die, ProcessTypeOK, Present, Reaper
<1>2. ParentsAlive'
  <2> SUFFICES ASSUME NEW q \in Pids, state'[q] # "gone", parent'[q] \in Pids
               PROVE  state'[parent'[q]] \in {"running", "stopped"}
    BY DEF ParentsAlive, Present
  <2>1. parent'[q] = parent[q] /\ parent[q] # p /\ parent[q] \in Pids
    BY <1>1
  <2>2. state[parent[q]] \in {"running", "stopped"}
    BY <1>1, <2>1 DEF TreeOK, ParentsAlive, Present
  <2>3. state'[parent[q]] = state[parent[q]]
    BY <2>1, <2>2 DEF Die, ProcessTypeOK
  <2> QED BY <2>1, <2>2, <2>3
<1>3. NoCycle'
  <2> SUFFICES ASSUME NEW S \in SUBSET Pids, S # {}, \A q \in S : state'[q] # "gone"
               PROVE  \E q \in S : parent'[q] \notin S
    BY DEF NoCycle
  <2>1. PICK q \in S : parent[q] \notin S
    BY <1>1 DEF TreeOK, NoCycle
  <2> QED BY <1>1, <2>1
<1> QED BY <1>2, <1>3 DEF TreeOK

\* It keeps the tree when the manager itself ends.
LEMMA TreeManagerEnds ==
    ASSUME ProcessTypeOK, TreeOK, ManagerEnds
    PROVE  TreeOK'
<1>1. ASSUME NEW q \in Pids, state'[q] # "gone"
      PROVE  /\ state[q] = state'[q]
             /\ parent'[q] \in Pids => parent'[q] = parent[q]
             /\ parent[q] \in Pids => parent'[q] = parent[q]
  BY <1>1, PidsAssumption DEF ManagerEnds, ProcessTypeOK
<1>2. ParentsAlive'
  <2> SUFFICES ASSUME NEW q \in Pids, state'[q] # "gone", parent'[q] \in Pids
               PROVE  state'[parent'[q]] \in {"running", "stopped"}
    BY DEF ParentsAlive, Present
  <2>1. parent'[q] = parent[q] /\ state[parent[q]] \in {"running", "stopped"}
    BY <1>1 DEF TreeOK, ParentsAlive, Present
  <2> QED BY <2>1 DEF ManagerEnds, ProcessTypeOK, ChildrenOf, Present
<1>3. NoCycle'
  <2> SUFFICES ASSUME NEW S \in SUBSET Pids, S # {}, \A q \in S : state'[q] # "gone"
               PROVE  \E q \in S : parent'[q] \notin S
    BY DEF NoCycle
  <2>1. PICK q \in S : parent[q] \notin S
    BY <1>1 DEF TreeOK, NoCycle
  <2> QED BY <1>1, <2>1
<1> QED BY <1>2, <1>3 DEF TreeOK

\* Stopping and continuing processes does not touch the tree.
SameTree ==
    /\ parent' = parent
    /\ \A p \in Pids : state'[p] = "gone" <=> state[p] = "gone"
    /\ \A p \in Pids : state'[p] \in {"running", "stopped"} <=> state[p] \in {"running", "stopped"}

\* A step that changes neither parents nor who is alive keeps the tree.
LEMMA TreeSame ==
    ASSUME TreeOK, SameTree
    PROVE  TreeOK'
BY DEF TreeOK, SameTree, ParentsAlive, NoCycle, Present

\* The steps of the manager and the timers that leave every process alone.
QuietStep ==
    \/ ChildSetup \/ ExecCommand \/ ForkFails \/ AssignChildPid \/ ClearChildPid \/ DrainEnds
    \/ SetUpWait \/ SetUpKill \/ SetUpSignalFd \/ ReapedAll \/ ReadChildrenFile \/ OpenProc
    \/ VisitedAll \/ WaitTimer \/ KillTimer \/ SigchldCb \/ LoopEnds \/ AllGone

\* Such a step leaves the process table as it is.
LEMMA QuietFrame ==
    ASSUME QuietStep
    PROVE  UNCHANGED <<procVars, command, cmd_fate, signals>>
BY DEF QuietStep, ChildSetup, ExecCommand, ForkFails, AssignChildPid, ClearChildPid, DrainEnds,
   SetUpWait, SetUpKill, SetUpSignalFd, ReapedAll, ReadChildrenFile, OpenProc, VisitedAll,
   WaitTimer, KillTimer, SigchldCb, LoopEnds, AllGone, managerOnly, cmdVars, boundVars, vars

\* Every step, by what it does to the processes.
LEMMA StepKinds ==
    ASSUME Next
    PROVE  \/ QuietStep
           \/ Fork \/ SpawnCommand
           \/ \E p \in Pids : Exit(p) \/ DieOfSigterm(p) \/ DieOfSigkill(p)
           \/ ChildSetupFails
           \/ ParentReaps \/ ExecFails \/ WaitForMain \/ DrainChild \/ ReapChild
           \/ Stop \/ Continue \/ VisitChild
           \/ SignalManager \/ ManagerExits
BY DEF Next, ManagerStep, SpawnStep, WaitStep, TerminateStep, RefreshStep, ProcessStep, QuietStep

\* Parents are alive and parenthood has no cycles, after every step.
LEMMA TreeNext ==
    ASSUME TypeOK, TreeOK, CommandOK, Next
    PROVE  TreeOK'
<1> USE DEF TypeOK
<1>0. ASSUME SameTree PROVE TreeOK'
  BY <1>0, TreeSame
<1>1. CASE QuietStep
  BY <1>0, <1>1, QuietFrame DEF SameTree, procVars
<1>2. CASE Fork
  <2>1. PICK p, c \in Pids : state[p] = "running" /\ StartProcess(c, p)
    BY <1>2 DEF Fork
  <2> QED BY <2>1, TreeStart
<1>3. CASE SpawnCommand
  BY <1>3, TreeStart, PidsAssumption DEF SpawnCommand
<1>4. ASSUME NEW p \in Pids, Exit(p) \/ DieOfSigterm(p) \/ DieOfSigkill(p)
      PROVE  TreeOK'
  BY <1>4, EndsByDying, TreeDie
<1>5. CASE ChildSetupFails
  BY <1>5, TreeDie DEF ChildSetupFails, ProcessTypeOK
<1>6. CASE ExecFails
  BY <1>6, TreeReap DEF ExecFails, ProcessTypeOK, CommandOK
<1>7. CASE ParentReaps \/ WaitForMain \/ DrainChild \/ ReapChild
  <2>1. PICK p \in Pids : state[p] = "zombie" /\ Reap(p)
    BY <1>7 DEF ParentReaps, WaitForMain, DrainChild, ReapChild, ChildrenOf, Present
  <2> QED BY <2>1, TreeReap, ZombieHasNoChildren DEF TreeOK
<1>8. CASE Stop \/ Continue
  BY <1>0, <1>8 DEF Stop, Continue, SameTree, ProcessTypeOK, cmdVars
<1>9. CASE VisitChild
  BY <1>0, <1>9 DEF VisitChild, SignalChild, Woken, SameTree, ProcessTypeOK
<1>10. CASE SignalManager \/ ManagerExits
  <2>1. CASE ForwardSignal
    BY <1>0, <2>1 DEF ForwardSignal, SameTree
  <2>2. CASE ManagerEnds
    BY <2>2, TreeManagerEnds
  <2> QED BY <1>10, <2>1, <2>2 DEF SignalManager, DieOfForwardedSignal, ManagerExits
<1> QED
  BY <1>1, <1>2, <1>3, <1>4, <1>5, <1>6, <1>7, <1>8, <1>9, <1>10, StepKinds

-----------------------------------------------------------------------------
(* What a step of the others does to the manager and to its children.      *)

\* The options never change once the manager runs.
LEMMA OptsConstant ==
    ASSUME Next
    PROVE  opts' = opts
<1>1. CASE ProcessStep
  BY <1>1, ProcessStepFrame DEF runVars
<1>2. CASE SpawnStep \/ WaitStep \/ ManagerExits \/ SignalManager \/ AllGone
  BY <1>2 DEF SpawnStep, SpawnCommand, ChildSetup, ChildSetupFails, ExecCommand, ForkFails, ExecFails,
     AssignChildPid, WaitStep, WaitForMain, ClearChildPid, DrainChild, DrainEnds, ManagerExits,
     SignalManager, AllGone, managerOnly, vars, runVars
<1>3. CASE TerminateStep \/ WaitTimer \/ KillTimer
  BY <1>3 DEF TerminateStep, RefreshStep, SetUpWait, SetUpKill, SetUpSignalFd, ReapChild, ReapedAll,
     ReadChildrenFile, OpenProc, VisitChild, VisitedAll, WaitTimer, KillTimer, SigchldCb, LoopEnds,
     runVars
<1> QED BY <1>1, <1>2, <1>3 DEF Next, ManagerStep

\* A manager that has exited or been killed does not come back.
LEMMA NoResurrection ==
    ASSUME Next, ManagerUp'
    PROVE  ManagerUp
<1> USE DEF ManagerUp
<1>1. CASE ProcessStep
  BY <1>1, ProcessStepFrame
<1>2. CASE SpawnStep \/ WaitStep \/ ManagerExits \/ SignalManager \/ AllGone
  BY <1>2 DEF SpawnStep, SpawnCommand, ChildSetup, ChildSetupFails, ExecCommand, ForkFails, ExecFails,
     AssignChildPid, WaitStep, WaitForMain, ClearChildPid, DrainChild, DrainEnds, ManagerExits,
     SignalManager, ForwardSignal, DieOfForwardedSignal, AllGone, managerOnly, vars
<1>3. CASE TerminateStep \/ WaitTimer \/ KillTimer
  BY <1>3 DEF TerminateStep, RefreshStep, SetUpWait, SetUpKill, SetUpSignalFd, ReapChild, ReapedAll,
     ReadChildrenFile, OpenProc, VisitChild, VisitedAll, WaitTimer, KillTimer, SigchldCb, LoopEnds
<1> QED BY <1>1, <1>2, <1>3 DEF Next, ManagerStep

ManagerReaps == ExecFails \/ WaitForMain \/ DrainChild \/ ReapChild

\* A child of the manager stays its child until the manager reaps it.
LEMMA ChildrenStay ==
    ASSUME TypeOK, Next, ManagerUp', NEW q \in Pids,
           state[q] # "gone", parent[q] = Manager,
           state'[q] # "gone" \/ ~ManagerReaps
    PROVE  state'[q] # "gone" /\ parent'[q] = Manager /\ got[q] \subseteq got'[q]
<1> USE DEF TypeOK, ProcessTypeOK
<1>1. CASE QuietStep
  BY <1>1, QuietFrame DEF procVars
<1>2. CASE Fork \/ SpawnCommand
  BY <1>2 DEF Fork, SpawnCommand, StartProcess
<1>3. ASSUME NEW p \in Pids, NEW ws, Die(p, ws)
      PROVE  state'[q] # "gone" /\ parent'[q] = Manager /\ got[q] \subseteq got'[q]
  BY <1>3, PidsAssumption DEF Die, Present
<1>4. ASSUME NEW p \in Pids, Exit(p) \/ DieOfSigterm(p) \/ DieOfSigkill(p)
      PROVE  state'[q] # "gone" /\ parent'[q] = Manager /\ got[q] \subseteq got'[q]
  BY <1>3, <1>4, EndsByDying
<1>5. CASE ChildSetupFails
  BY <1>3, <1>5 DEF ChildSetupFails
<1>6. CASE ParentReaps
  BY <1>6, PidsAssumption DEF ParentReaps, Reap
<1>8. CASE ManagerReaps
  BY <1>8 DEF ManagerReaps, ExecFails, WaitForMain, DrainChild, ReapChild, Reap, ChildrenOf, Present
<1>9. CASE Stop \/ Continue
  BY <1>9 DEF Stop, Continue
<1>10. CASE VisitChild
  BY <1>10 DEF VisitChild, SignalChild, Woken
<1>11. CASE SignalManager \/ ManagerExits
  BY <1>11 DEF SignalManager, ForwardSignal, DieOfForwardedSignal, ManagerExits, ManagerUp
<1> QED
  BY <1>1, <1>2, <1>4, <1>5, <1>6, <1>8, <1>9, <1>10, <1>11, StepKinds DEF ManagerReaps

\* No step lets a subreaper lose a descendant to init while it is up.
LEMMA EscapeNext ==
    ASSUME TypeOK, NothingEscapes, Next
    PROVE  NothingEscapes'
<1> SUFFICES ASSUME ManagerUp', opts.subreaper, NEW q \in Pids, state'[q] # "gone"
             PROVE  parent'[q] # InitPid
  BY OptsConstant DEF NothingEscapes, Present
<1> USE DEF TypeOK, ProcessTypeOK
<1>0. ManagerUp /\ (state[q] # "gone" => parent[q] # InitPid)
  BY NoResurrection DEF NothingEscapes, Present
<1>1. CASE QuietStep
  BY <1>0, <1>1, QuietFrame DEF procVars
<1>2. CASE Fork \/ SpawnCommand
  BY <1>0, <1>2, PidsAssumption DEF Fork, SpawnCommand, StartProcess
<1>3. ASSUME NEW p \in Pids, NEW ws, Die(p, ws), state[p] # "gone"
      PROVE  parent'[q] # InitPid
  BY <1>0, <1>3, PidsAssumption DEF Die, Present, Reaper
<1>4. ASSUME NEW p \in Pids, Exit(p) \/ DieOfSigterm(p) \/ DieOfSigkill(p)
      PROVE  parent'[q] # InitPid
  BY <1>3, <1>4, EndsByDying
<1>5. CASE ChildSetupFails
  BY <1>3, <1>5 DEF ChildSetupFails
<1>6. CASE ParentReaps \/ ExecFails \/ WaitForMain \/ DrainChild \/ ReapChild
  BY <1>0, <1>6 DEF ParentReaps, ExecFails, WaitForMain, DrainChild, ReapChild, Reap, ChildrenOf, Present
<1>7. CASE Stop \/ Continue \/ VisitChild
  BY <1>0, <1>7 DEF Stop, Continue, VisitChild, SignalChild, Woken
<1>8. CASE SignalManager \/ ManagerExits
  BY <1>0, <1>8 DEF SignalManager, ForwardSignal, DieOfForwardedSignal, ManagerExits, ManagerUp
<1> QED
  BY <1>1, <1>2, <1>4, <1>5, <1>6, <1>7, <1>8, StepKinds

-----------------------------------------------------------------------------
(* The phases of the manager.                                              *)

\* Nothing is signalled, and no signal is chosen, before COMMAND has exited
\* and _srt_subreaper_terminate_all_child_processes() has begun.
LEMMA NotStartedNext ==
    ASSUME TypeOK, NotStarted, Next
    PROVE  NotStarted'
<1> USE DEF NotStarted, EarlyPCs, termVars
<1>1. CASE ProcessStep
  BY <1>1, ProcessStepFrame
<1>2. CASE SpawnStep \/ WaitStep \/ ManagerExits \/ SignalManager \/ AllGone
  BY <1>2 DEF SpawnStep, SpawnCommand, ChildSetup, ChildSetupFails, ExecCommand, ForkFails, ExecFails,
     AssignChildPid, WaitStep, WaitForMain, ClearChildPid, DrainChild, DrainEnds, ManagerExits,
     SignalManager, ForwardSignal, DieOfForwardedSignal, AllGone, managerOnly, vars
<1>3. CASE TerminateStep \/ WaitTimer \/ KillTimer
  BY <1>3 DEF TerminateStep, RefreshStep, SetUpWait, SetUpKill, SetUpSignalFd, ReapChild, ReapedAll,
     ReadChildrenFile, OpenProc, VisitChild, VisitedAll, WaitTimer, KillTimer, SigchldCb, LoopEnds,
     Refresh, TypeOK, RunTypeOK
<1> QED BY <1>1, <1>2, <1>3 DEF Next, ManagerStep

\* Once there are no processes, and COMMAND has been started, there will
\* never be any: only existing processes can fork.
LEMMA NobodyStays ==
    ASSUME TypeOK, Present = {}, Next, pc # "start"
    PROVE  Present' = {}
<1> USE DEF TypeOK, ProcessTypeOK, Present
<1>1. CASE QuietStep
  BY <1>1, QuietFrame DEF procVars
<1>2. CASE Fork \/ SpawnCommand \/ ChildSetupFails \/ Stop \/ Continue \/ ParentReaps \/ ExecFails
  BY <1>2 DEF Fork, SpawnCommand, ChildSetupFails, Stop, Continue, ParentReaps, ExecFails
<1>3. ASSUME NEW p \in Pids, Exit(p) \/ DieOfSigterm(p) \/ DieOfSigkill(p)
      PROVE  Present' = {}
  BY <1>3, EndsByDying
<1>4. CASE WaitForMain \/ DrainChild \/ ReapChild
  BY <1>4 DEF WaitForMain, DrainChild, ReapChild, ChildrenOf
<1>5. CASE VisitChild
  BY <1>5 DEF VisitChild, SignalChild, Woken
<1>6. CASE SignalManager \/ ManagerExits
  BY <1>6 DEF SignalManager, ForwardSignal, DieOfForwardedSignal, ManagerExits, ManagerEnds
<1> QED
  BY <1>1, <1>2, <1>3, <1>4, <1>5, <1>6, StepKinds

\* termination_data_refresh() lists children only while it has a signal to
\* send them.
LEMMA PhaseNext ==
    ASSUME TypeOK, PhaseOK, Next
    PROVE  PhaseOK'
<1>1. pc' = "start" => pc = "start" /\ Present' = {}
  <2>1. CASE ProcessStep
    <3>1. pc = "start" /\ Present = {} => FALSE
      BY <2>1, EndsByDying DEF ProcessStep, Fork, ParentReaps, Stop, Continue, Present
    <3> QED BY <2>1, <3>1, ProcessStepFrame DEF PhaseOK
  <2>2. CASE SpawnStep \/ WaitStep \/ ManagerExits \/ SignalManager \/ AllGone
    BY <2>2 DEF SpawnStep, SpawnCommand, ChildSetup, ChildSetupFails, ExecCommand, ForkFails, ExecFails,
       AssignChildPid, WaitStep, WaitForMain, Notice, ClearChildPid, DrainChild, DrainEnds, ManagerExits,
       SignalManager, ForwardSignal, DieOfForwardedSignal, AllGone, managerOnly, vars, ManagerUp,
       PhaseOK, Present, TypeOK, ProcessTypeOK, procVars
  <2>3. CASE TerminateStep \/ WaitTimer \/ KillTimer
    BY <2>3 DEF TerminateStep, RefreshStep, SetUpWait, SetUpKill, SetUpSignalFd, ReapChild, ReapedAll,
       ReadChildrenFile, OpenProc, VisitChild, VisitedAll, WaitTimer, KillTimer, SigchldCb, LoopEnds,
       Refresh, TypeOK, RunTypeOK
  <2> QED BY <2>1, <2>2, <2>3 DEF Next, ManagerStep
<1>2. pc' \in {"list", "signal"} => sending_signal' # "none"
  <2> USE DEF PhaseOK, termVars
  <2>1. CASE ProcessStep
    BY <2>1, ProcessStepFrame
  <2>2. CASE SpawnStep \/ WaitStep \/ ManagerExits \/ SignalManager \/ AllGone
    BY <2>2 DEF SpawnStep, SpawnCommand, ChildSetup, ChildSetupFails, ExecCommand, ForkFails, ExecFails,
       AssignChildPid, WaitStep, WaitForMain, Notice, ClearChildPid, DrainChild, DrainEnds, ManagerExits,
       SignalManager, ForwardSignal, DieOfForwardedSignal, AllGone, managerOnly, vars
  <2>3. CASE TerminateStep \/ WaitTimer \/ KillTimer
    BY <2>3 DEF TerminateStep, RefreshStep, SetUpWait, SetUpKill, SetUpSignalFd, ReapChild, ReapedAll,
       ReadChildrenFile, OpenProc, VisitChild, VisitedAll, WaitTimer, KillTimer, SigchldCb, LoopEnds,
       Refresh, TypeOK, RunTypeOK
  <2> QED BY <2>1, <2>2, <2>3 DEF Next, ManagerStep
<1> QED BY <1>1, <1>2 DEF PhaseOK

-----------------------------------------------------------------------------
(* What run() waits for.                                                   *)

\* wait() says ECHILD to a subreaper only if no descendant is left: the top
\* of any remaining family would be a child of the manager.
LEMMA NoChildrenNobody ==
    ASSUME ProcessTypeOK, TreeOK, NothingEscapes, ManagerUp, opts.subreaper, NoChildren
    PROVE  Present = {}
<1> SUFFICES ASSUME Present # {} PROVE FALSE
  OBVIOUS
<1>1. PICK p \in Present : parent[p] \notin Present
  BY DEF TreeOK, NoCycle, Present
<1>2. parent[p] \notin Pids
  BY <1>1 DEF TreeOK, ParentsAlive, Present
<1>3. parent[p] = Manager
  BY <1>1, <1>2 DEF NothingEscapes, ProcessTypeOK, Present
<1> QED BY <1>1, <1>3 DEF NoChildren, ChildrenOf

\* run() comes to its end without an error, and a termination is finished,
\* only when no process is left, if the manager is a subreaper.
LEMMA FinishedNext ==
    ASSUME TypeOK, TreeOK, NothingEscapes, NotStarted, PhaseOK, FinishedOK, Next
    PROVE  FinishedOK'
<1> USE DEF TypeOK
<1>o. opts' = opts
  BY OptsConstant
<1>1. finished /\ opts.subreaper => Present' = {}
  BY NobodyStays DEF FinishedOK, NotStarted, EarlyPCs
<1>2. pc \in {"done", "exited"} /\ opts.subreaper /\ ~failed => Present' = {}
  BY NobodyStays DEF FinishedOK, ExitsAfterDescendants
<1>3. CASE ProcessStep
  BY <1>1, <1>2, <1>3, <1>o, ProcessStepFrame DEF FinishedOK, ExitsAfterDescendants, termVars
<1>4. CASE SpawnStep \/ SignalManager \/ AllGone \/ ManagerExits
  BY <1>1, <1>2, <1>4, <1>o DEF FinishedOK, ExitsAfterDescendants, termVars, SpawnStep, SpawnCommand,
     ChildSetup, ChildSetupFails, ExecCommand, ForkFails, ExecFails, AssignChildPid, SignalManager,
     ForwardSignal, DieOfForwardedSignal, AllGone, ManagerExits, managerOnly, vars
<1>5. CASE DrainEnds
  <2>1. opts.subreaper => Present' = {}
    BY <1>5, NoChildrenNobody DEF DrainEnds, ManagerUp, procVars, Present
  <2> QED BY <1>o, <2>1 DEF FinishedOK, ExitsAfterDescendants
<1>6. CASE ReapedAll
  <2>1. opts.subreaper /\ NoChildren => Present' = {}
    BY <1>6, NoChildrenNobody DEF ReapedAll, ManagerUp, procVars, Present
  <2> QED BY <1>6, <1>o, <2>1 DEF ReapedAll, FinishedOK, ExitsAfterDescendants, RunTypeOK
<1>7. CASE WaitForMain \/ ClearChildPid \/ DrainChild
  BY <1>1, <1>7, <1>o DEF FinishedOK, ExitsAfterDescendants, termVars, WaitForMain, Notice,
     ClearChildPid, DrainChild
<1>8. CASE \/ SetUpWait \/ SetUpKill \/ SetUpSignalFd \/ ReapChild \/ ReadChildrenFile \/ OpenProc
          \/ VisitChild \/ VisitedAll \/ WaitTimer \/ KillTimer \/ SigchldCb \/ LoopEnds
  BY <1>1, <1>8, <1>o DEF FinishedOK, ExitsAfterDescendants, termVars, SetUpWait, SetUpKill,
     SetUpSignalFd, ReapChild, ReadChildrenFile, OpenProc, VisitChild, VisitedAll, WaitTimer,
     KillTimer, SigchldCb, LoopEnds, Refresh, RunTypeOK
<1> QED
  BY <1>3, <1>4, <1>5, <1>6, <1>7, <1>8 DEF Next, ManagerStep, WaitStep, TerminateStep, RefreshStep

-----------------------------------------------------------------------------
(* The records of what has been sent.                                      *)

\* Only reaping and signalling children touch the tables of what was sent.
LEMMA SentFrame ==
    ASSUME Next, ~ReapChild, ~VisitChild
    PROVE  UNCHANGED <<sent_sigterm, sent_sigkill>>
<1> USE DEF termVars
<1>1. CASE ProcessStep
  BY <1>1, ProcessStepFrame
<1>2. CASE SpawnStep \/ WaitStep \/ ManagerExits \/ SignalManager \/ AllGone
  BY <1>2 DEF SpawnStep, SpawnCommand, ChildSetup, ChildSetupFails, ExecCommand, ForkFails, ExecFails,
     AssignChildPid, WaitStep, WaitForMain, ClearChildPid, DrainChild, DrainEnds, ManagerExits,
     SignalManager, AllGone, managerOnly, vars
<1>3. CASE TerminateStep \/ WaitTimer \/ KillTimer
  BY <1>3 DEF TerminateStep, RefreshStep, SetUpWait, SetUpKill, SetUpSignalFd, ReapedAll,
     ReadChildrenFile, OpenProc, VisitedAll, WaitTimer, KillTimer, SigchldCb, LoopEnds
<1> QED BY <1>1, <1>2, <1>3 DEF Next, ManagerStep

\* The tables speak of children of the manager that have indeed been sent
\* the signal; ReapChild removes a process ID before it can be reused.
LEMMA SentNext ==
    ASSUME TypeOK, NotStarted, PhaseOK, TodoOK, SentOK, Next
    PROVE  SentOK'
<1> SUFFICES ASSUME ManagerUp' PROVE SentOK'
  BY DEF SentOK
<1> USE DEF TypeOK
<1>u. ManagerUp
  BY NoResurrection
<1>1. CASE ~ManagerReaps /\ ~VisitChild
  BY <1>u, <1>1, ChildrenStay, SentFrame DEF SentOK, TermTypeOK, ManagerReaps
<1>2. CASE ExecFails \/ WaitForMain \/ DrainChild
  <2>1. sent_sigterm = {} /\ sent_sigkill = {}
    BY <1>2 DEF ExecFails, WaitForMain, DrainChild, NotStarted, EarlyPCs
  <2> QED BY <1>2, <2>1 DEF ExecFails, WaitForMain, DrainChild, SentOK, termVars
<1>3. CASE ReapChild
  <2>1. PICK p \in Pids : Reap(p) /\ ForgetSent(p)
    BY <1>3 DEF ReapChild, ChildrenOf, Present
  <2>2. \A q \in Pids \ {p} : state'[q] = state[q]
    BY <2>1 DEF Reap, ProcessTypeOK
  <2> QED BY <1>u, <2>1, <2>2, ChildrenStay DEF ForgetSent, SentOK, TermTypeOK
<1>4. CASE VisitChild
  <2>1. \A q \in Pids : state[q] # "gone" /\ parent[q] = Manager =>
            state'[q] # "gone" /\ parent'[q] = Manager /\ got[q] \subseteq got'[q]
    BY <1>4, ChildrenStay DEF ManagerReaps, VisitChild, ExecFails, WaitForMain, DrainChild, ReapChild
  <2>2. PICK p \in todo :
            IF IsCandidate(p) /\ p \notin AlreadySent
            THEN SignalChild(p)
            ELSE UNCHANGED <<sent_sigterm, sent_sigkill, got, state, sigchld>>
    BY <1>4 DEF VisitChild
  <2>3. CASE UNCHANGED <<sent_sigterm, sent_sigkill>>
    BY <1>u, <2>1, <2>3 DEF SentOK, TermTypeOK
  <2>4. CASE IsCandidate(p) /\ SignalChild(p)
    <3>1. p \in Pids /\ state[p] # "gone" /\ parent[p] = Manager
      BY <1>4, <2>4 DEF IsCandidate, TodoOK, VisitChild, TermTypeOK, ChildrenOf, Present
    <3>2. sending_signal \in {"SIGTERM", "SIGKILL"} /\ sending_signal \in got'[p]
      BY <1>4, <2>4, <3>1 DEF VisitChild, SignalChild, PhaseOK, TermTypeOK, Fatal, ProcessTypeOK
    <3>3. state'[p] # "gone" /\ parent'[p] = Manager
      BY <2>1, <3>1
    <3>4. CASE sending_signal = "SIGKILL"
      BY <1>u, <2>1, <2>4, <3>2, <3>3, <3>4 DEF SignalChild, SentOK, TermTypeOK
    <3>5. CASE sending_signal = "SIGTERM"
      BY <1>u, <2>1, <2>4, <3>2, <3>3, <3>5 DEF SignalChild, SentOK, TermTypeOK
    <3> QED BY <3>2, <3>4, <3>5
  <2> QED BY <2>2, <2>3, <2>4
<1> QED BY <1>1, <1>2, <1>3, <1>4 DEF ManagerReaps

\* What was read from the children file are children until it is worked off.
LEMMA TodoNext ==
    ASSUME TypeOK, TodoOK, Next
    PROVE  TodoOK'
<1> SUFFICES ASSUME pc' = "signal", ~scan' PROVE TodoOK'
  BY DEF TodoOK
<1> USE DEF TypeOK
<1>u. ManagerUp'
  BY DEF ManagerUp
<1>1. ReadChildrenFile \/ (pc = "signal" /\ scan' = scan /\ todo' \subseteq todo /\ ~ManagerReaps)
  <2>1. CASE ProcessStep
    BY <2>1, ProcessStepFrame DEF termVars, ManagerReaps, ExecFails, WaitForMain, DrainChild, ReapChild
  <2>2. CASE SpawnStep \/ WaitStep \/ ManagerExits \/ SignalManager \/ AllGone
    BY <2>2 DEF SpawnStep, SpawnCommand, ChildSetup, ChildSetupFails, ExecCommand, ForkFails, ExecFails,
       AssignChildPid, WaitStep, WaitForMain, Notice, ClearChildPid, DrainChild, DrainEnds, ManagerExits,
       SignalManager, ForwardSignal, DieOfForwardedSignal, AllGone, managerOnly, vars, termVars,
       ManagerReaps, ReapChild
  <2>3. CASE TerminateStep \/ WaitTimer \/ KillTimer
    BY <2>3 DEF TerminateStep, RefreshStep, SetUpWait, SetUpKill, SetUpSignalFd, ReapChild, ReapedAll,
       ReadChildrenFile, OpenProc, VisitChild, VisitedAll, WaitTimer, KillTimer, SigchldCb, LoopEnds,
       Refresh, RunTypeOK, ManagerReaps, ExecFails, WaitForMain, DrainChild
  <2> QED BY <2>1, <2>2, <2>3 DEF Next, ManagerStep
<1>2. CASE ReadChildrenFile
  BY <1>2 DEF ReadChildrenFile, TodoOK, ChildrenOf, Present, procVars
<1>3. CASE pc = "signal" /\ scan' = scan /\ todo' \subseteq todo /\ ~ManagerReaps
  BY <1>u, <1>3, ChildrenStay DEF TodoOK, TermTypeOK
<1> QED BY <1>1, <1>2, <1>3

-----------------------------------------------------------------------------
(* Waking up.                                                              *)

LiveChild(q) == state[q] \in {"running", "stopped"} /\ parent[q] = Manager

\* The steps that the manager does not take itself.
Bystander == ProcessStep \/ SignalManager \/ ChildSetup \/ ChildSetupFails \/ ExecCommand

\* Steps of the other processes, and of signal handlers, leave the variables
\* of termination_data_refresh() alone.
LEMMA BystanderFrame ==
    ASSUME Bystander, ManagerUp'
    PROVE  UNCHANGED <<pc, termVars>>
BY ProcessStepFrame DEF Bystander, SignalManager, ForwardSignal, DieOfForwardedSignal, ManagerUp,
   ChildSetup, ChildSetupFails, ExecCommand, managerOnly

\* Others cannot take away both SIGCHLD and the child that would raise it.
LEMMA WakeStays ==
    ASSUME TypeOK, Next, Bystander, ManagerUp'
    PROVE  /\ sigchld => sigchld'
           /\ \A q \in Pids : LiveChild(q) => sigchld' \/ LiveChild(q)'
<1> USE DEF TypeOK, ProcessTypeOK, LiveChild
<1>1. CASE Fork
  BY <1>1 DEF Fork, StartProcess
<1>2. ASSUME NEW p \in Pids, NEW ws, Die(p, ws)
      PROVE  /\ sigchld => sigchld'
             /\ \A q \in Pids : LiveChild(q) => sigchld' \/ LiveChild(q)'
  BY <1>2, PidsAssumption DEF Die, Present
<1>3. ASSUME NEW p \in Pids, Exit(p) \/ DieOfSigterm(p) \/ DieOfSigkill(p)
      PROVE  /\ sigchld => sigchld'
             /\ \A q \in Pids : LiveChild(q) => sigchld' \/ LiveChild(q)'
  BY <1>2, <1>3, EndsByDying
<1>4. CASE ParentReaps
  BY <1>4 DEF ParentReaps, Reap
<1>5. CASE Stop \/ Continue
  BY <1>5 DEF Stop, Continue
<1>6. CASE SignalManager
  BY <1>6 DEF SignalManager, ForwardSignal, DieOfForwardedSignal, ManagerUp
<1>7. CASE ChildSetup \/ ChildSetupFails \/ ExecCommand
  BY <1>2, <1>7 DEF ChildSetup, ChildSetupFails, ExecCommand, procVars
<1> QED BY <1>1, <1>3, <1>4, <1>5, <1>6, <1>7 DEF Bystander, ProcessStep

\* In every step of listing and signalling children, either SIGCHLD is
\* pending or a live child has been signalled or is about to be.
LEMMA WakeNext ==
    ASSUME TypeOK, PhaseOK, WakeOK, Next
    PROVE  WakeOK'
<1> USE DEF TypeOK
<1> SUFFICES ASSUME pc' \in {"list", "signal", "loop"} PROVE WakeOK'
  BY DEF WakeOK
<1>u. ManagerUp'
  BY DEF ManagerUp
<1>1. CASE Bystander
  <2>1. UNCHANGED <<pc, termVars>>
    BY <1>1, <1>u, BystanderFrame
  <2>2. AlreadySent' = AlreadySent /\ AlreadySent \subseteq Pids
    BY <2>1 DEF AlreadySent, termVars, TermTypeOK
  <2>3. ASSUME NEW S \in SUBSET Pids, sigchld \/ \E q \in S : LiveChild(q)
        PROVE  sigchld' \/ \E q \in S : LiveChild(q)'
    BY <1>1, <1>u, <2>3, WakeStays
  <2>4. pc = "list" => sigchld' \/ \E q \in Pids : LiveChild(q)'
    BY <2>3 DEF WakeOK, LiveChildIn, LiveChild
  <2>5. pc = "signal" => sigchld' \/ \E q \in AlreadySent \cup todo : LiveChild(q)'
    BY <2>2, <2>3 DEF WakeOK, LiveChildIn, LiveChild, TermTypeOK
  <2>6. pc = "loop" /\ sending_signal # "none" /\ ~finished =>
            sigchld' \/ \E q \in AlreadySent : LiveChild(q)'
    BY <2>2, <2>3 DEF WakeOK, LiveChildIn, LiveChild
  <2> QED BY <2>1, <2>2, <2>4, <2>5, <2>6 DEF WakeOK, LiveChildIn, LiveChild, termVars
<1>2. CASE ReapedAll
  <2>1. CASE NoChildren \/ sending_signal = "none"
    BY <1>2, <2>1 DEF ReapedAll, WakeOK, RunTypeOK
  <2>2. CASE ~NoChildren
    <3>1. PICK q \in Pids : LiveChild(q)
      BY <1>2, <2>2 DEF ReapedAll, NoChildren, ChildrenOf, Present, LiveChild, ProcessTypeOK, ProcState
    <3> QED
      BY <1>2, <2>1, <2>2, <3>1 DEF ReapedAll, WakeOK, LiveChildIn, LiveChild, procVars, RunTypeOK
  <2> QED BY <2>1, <2>2
<1>3. CASE ReadChildrenFile
  <2>1. pc' = "signal" /\ UNCHANGED <<sigchld, state, parent>> /\ AlreadySent' = AlreadySent
    BY <1>3 DEF ReadChildrenFile, procVars, AlreadySent
  <2>2. CASE sigchld
    BY <2>1, <2>2 DEF WakeOK
  <2>3. CASE ~sigchld
    <3>1. todo' = ChildrenOf(Manager)
      BY <1>3, <2>3 DEF ReadChildrenFile
    <3>2. PICK q \in Pids : LiveChild(q)
      BY <1>3, <2>3 DEF ReadChildrenFile, WakeOK, LiveChildIn, LiveChild
    <3> QED BY <2>1, <3>1, <3>2 DEF WakeOK, LiveChildIn, LiveChild, ChildrenOf, Present
  <2> QED BY <2>2, <2>3
<1>4. CASE OpenProc
  BY <1>4 DEF OpenProc, WakeOK, LiveChildIn, procVars
<1>5. CASE VisitChild
  <2>1. PICK p \in todo :
            /\ todo' = todo \ {p}
            /\ IF IsCandidate(p) /\ p \notin AlreadySent
               THEN SignalChild(p)
               ELSE UNCHANGED <<sent_sigterm, sent_sigkill, got, state, sigchld>>
    BY <1>5 DEF VisitChild
  <2>2. pc' = "signal" /\ pc = "signal" /\ parent' = parent /\ sending_signal' = sending_signal
    BY <1>5 DEF VisitChild
  <2>3. sigchld => sigchld'
    BY <2>1 DEF SignalChild
  <2>4. \A q \in Pids : LiveChild(q) => LiveChild(q)'
    BY <2>1, <2>2 DEF SignalChild, Woken, LiveChild, ProcessTypeOK
  <2>5. AlreadySent \subseteq AlreadySent' /\ AlreadySent \subseteq Pids
    BY <2>1, <2>2 DEF SignalChild, AlreadySent, TermTypeOK
  <2>6. ASSUME NEW q \in AlreadySent \cup todo, LiveChild(q)
        PROVE  q \in AlreadySent' \cup todo'
    <3>1. CASE q # p \/ q \in AlreadySent
      BY <2>1, <2>5, <3>1
    <3>2. CASE q = p /\ q \notin AlreadySent
      <4>1. SignalChild(p)
        BY <2>1, <2>6, <3>2 DEF IsCandidate, LiveChild, ChildrenOf, Present, TermTypeOK
      <4> QED BY <2>2, <3>2, <4>1 DEF SignalChild, AlreadySent
    <3> QED BY <3>1, <3>2
  <2> QED BY <2>2, <2>3, <2>4, <2>5, <2>6 DEF WakeOK, LiveChildIn, LiveChild, TermTypeOK
<1>6. CASE VisitedAll
  BY <1>6 DEF VisitedAll, AfterVisit, WakeOK, LiveChildIn, AlreadySent, termVars, procVars, RunTypeOK
<1>7. CASE \/ SpawnCommand \/ ForkFails \/ ExecFails \/ AssignChildPid \/ WaitStep \/ ManagerExits
          \/ SetUpWait \/ SetUpKill \/ SetUpSignalFd \/ ReapChild \/ WaitTimer \/ KillTimer
          \/ SigchldCb \/ LoopEnds \/ AllGone
  <2>1. pc' \notin {"list", "signal", "loop"}
    BY <1>7, <1>u DEF SpawnCommand, ForkFails, ExecFails, AssignChildPid, WaitStep, WaitForMain, Notice,
       ClearChildPid, DrainChild, DrainEnds, ManagerExits, SetUpWait, SetUpKill, SetUpSignalFd, ReapChild,
       WaitTimer, KillTimer, SigchldCb, LoopEnds, AllGone, vars, ManagerUp, Refresh
  <2> QED BY <2>1
<1> QED
  BY <1>1, <1>2, <1>3, <1>4, <1>5, <1>6, <1>7
  DEF Next, Bystander, ManagerStep, SpawnStep, TerminateStep, RefreshStep

-----------------------------------------------------------------------------
(* COMMAND and its exit status.                                            *)

\* Only the steps around wait() in run() touch the status and COMMAND's ID.
LEMMA StatusFrame ==
    ASSUME Next, ~WaitForMain, ~ClearChildPid, ~ForkFails, ~ExecFails, ~AssignChildPid
    PROVE  UNCHANGED <<wait_status, exit_status, global_child_pid>>
<1> USE DEF runVars
<1>1. CASE ProcessStep
  BY <1>1, ProcessStepFrame
<1>2. CASE SpawnStep \/ WaitStep \/ ManagerExits \/ SignalManager \/ AllGone
  BY <1>2 DEF SpawnStep, SpawnCommand, ChildSetup, ChildSetupFails, ExecCommand, WaitStep, DrainChild,
     DrainEnds, ManagerExits, SignalManager, AllGone, managerOnly, vars
<1>3. CASE TerminateStep \/ WaitTimer \/ KillTimer
  BY <1>3 DEF TerminateStep, RefreshStep, SetUpWait, SetUpKill, SetUpSignalFd, ReapChild, ReapedAll,
     ReadChildrenFile, OpenProc, VisitChild, VisitedAll, WaitTimer, KillTimer, SigchldCb, LoopEnds
<1> QED BY <1>1, <1>2, <1>3 DEF Next, ManagerStep

\* Which steps enter the early states of the manager.
LEMMA EarlyMoves ==
    ASSUME TypeOK, Next
    PROVE  /\ pc' = "start" => pc = "start" /\ ~SpawnCommand /\ ~ForkFails
           /\ pc' = "spawning" => SpawnCommand \/ (pc = "spawning" /\ ~ExecFails /\ ~AssignChildPid)
           /\ pc' = "wait_main" => AssignChildPid \/ pc = "wait_main"
           /\ pc' = "main_reaped" => WaitForMain \/ pc = "main_reaped"
<1>1. CASE ProcessStep
  BY <1>1, ProcessStepFrame DEF SpawnCommand, ForkFails, ExecFails, AssignChildPid
<1>2. CASE SpawnStep \/ WaitStep \/ ManagerExits \/ SignalManager \/ AllGone
  BY <1>2 DEF SpawnStep, SpawnCommand, ChildSetup, ChildSetupFails, ExecCommand, ForkFails, ExecFails,
     AssignChildPid, WaitStep, WaitForMain, Notice, ClearChildPid, DrainChild, DrainEnds, ManagerExits,
     SignalManager, ForwardSignal, DieOfForwardedSignal, AllGone, managerOnly, vars
<1>3. CASE TerminateStep \/ WaitTimer \/ KillTimer
  BY <1>3 DEF TerminateStep, RefreshStep, SetUpWait, SetUpKill, SetUpSignalFd, ReapChild, ReapedAll,
     ReadChildrenFile, OpenProc, VisitChild, VisitedAll, WaitTimer, KillTimer, SigchldCb, LoopEnds,
     Refresh, TypeOK, RunTypeOK, SpawnCommand, ForkFails, ExecFails, AssignChildPid
<1> QED BY <1>1, <1>2, <1>3 DEF Next, ManagerStep

\* Only its parent reaps COMMAND, and its fate is settled when it dies.
CommandProcessOK ==
    /\ ManagerUp /\ command # NoPid => state[command] # "gone" /\ parent[command] = Manager
    /\ command # NoPid /\ state[command] = "zombie" => wstatus[command] = cmd_fate
    /\ command # NoPid /\ cmd_phase # "execd" => \A q \in Present : parent[q] # command

\* COMMAND stays the manager's child with its fate recorded, until it is
\* reaped, whoever else forks, dies or is reaped.
LEMMA CommandProcessNext ==
    ASSUME TypeOK, TreeOK, CommandOK, Next
    PROVE  CommandProcessOK'
<1> USE DEF TypeOK, ProcessTypeOK, CommandProcessOK, CommandOK, Present
<1>u. ManagerUp' => ManagerUp
  BY NoResurrection
<1>1. CASE QuietStep
  <2>1. cmd_phase' # "execd" => cmd_phase # "execd"
    BY <1>1 DEF QuietStep, ChildSetup, ExecCommand, ForkFails, AssignChildPid, ClearChildPid, DrainEnds,
       SetUpWait, SetUpKill, SetUpSignalFd, ReapedAll, ReadChildrenFile, OpenProc, VisitedAll,
       WaitTimer, KillTimer, SigchldCb, LoopEnds, AllGone, cmdVars, vars
  <2> QED BY <1>u, <1>1, <2>1, QuietFrame DEF procVars
<1>2. CASE Fork
  BY <1>u, <1>2 DEF Fork, StartProcess, cmdVars
<1>3. CASE SpawnCommand
  BY <1>3, PidsAssumption DEF SpawnCommand, StartProcess, PhaseOK, TreeOK, ParentsAlive
<1>4. ASSUME NEW p \in Pids, NEW ws, Die(p, ws), cmd_phase' = cmd_phase,
             state[p] \in {"running", "stopped"}
      PROVE  CommandProcessOK'
  <2>1. command' # NoPid => command' = command
    BY <1>4 DEF Die
  <2>2. ManagerUp' /\ command' # NoPid => state'[command] # "gone" /\ parent'[command] = Manager
    BY <1>u, <1>4, <2>1, PidsAssumption DEF Die
  <2>3. command' # NoPid /\ state'[command] = "zombie" => wstatus'[command] = cmd_fate'
    BY <1>4, <2>1 DEF Die
  <2>4. command' # NoPid /\ cmd_phase # "execd" =>
            \A q \in Pids : state'[q] # "gone" => parent'[q] # command
    BY <1>4, <2>1, PidsAssumption DEF Die, Reaper
  <2> QED BY <1>4, <2>1, <2>2, <2>3, <2>4
<1>5. ASSUME NEW p \in Pids, Exit(p) \/ DieOfSigterm(p) \/ DieOfSigkill(p)
      PROVE  CommandProcessOK'
  BY <1>4, <1>5, EndsByDying
<1>6. CASE ChildSetupFails
  BY <1>4, <1>6 DEF ChildSetupFails, Die
<1>7. CASE ParentReaps \/ ExecFails \/ WaitForMain \/ DrainChild \/ ReapChild
  BY <1>u, <1>7 DEF ParentReaps, ExecFails, WaitForMain, DrainChild, ReapChild, ChildrenOf, Reap
<1>8. CASE Stop \/ Continue
  BY <1>u, <1>8 DEF Stop, Continue, cmdVars
<1>9. CASE VisitChild
  BY <1>u, <1>9 DEF VisitChild, SignalChild, Woken, cmdVars
<1>10. CASE SignalManager \/ ManagerExits
  <2>1. CASE ForwardSignal
    BY <1>u, <2>1 DEF ForwardSignal, cmdVars
  <2>2. CASE ManagerEnds /\ ~ManagerUp'
    BY <2>2, PidsAssumption DEF ManagerEnds
  <2> QED BY <1>10, <2>1, <2>2 DEF SignalManager, DieOfForwardedSignal, ManagerExits, ManagerUp
<1> QED
  BY <1>1, <1>2, <1>3, <1>5, <1>6, <1>7, <1>8, <1>9, <1>10, StepKinds

\* Until COMMAND has been reaped by the wait loop it remains COMMAND.
LEMMA CommandStays ==
    ASSUME TypeOK, CommandOK, Next, ManagerUp', ~ManagerReaps, ~SpawnCommand
    PROVE  command' = command
<1> USE DEF TypeOK, ProcessTypeOK, ManagerReaps
<1>u. ManagerUp
  BY NoResurrection
<1>1. CASE QuietStep \/ Fork \/ Stop \/ Continue \/ VisitChild
  BY <1>1, QuietFrame DEF Fork, Stop, Continue, VisitChild, cmdVars
<1>2. ASSUME NEW p \in Pids, NEW ws, Die(p, ws)
      PROVE  command' = command
  BY <1>u, <1>2, PidsAssumption DEF Die, CommandOK, Present
<1>3. ASSUME NEW p \in Pids, Exit(p) \/ DieOfSigterm(p) \/ DieOfSigkill(p)
      PROVE  command' = command
  BY <1>2, <1>3, EndsByDying
<1>4. CASE ChildSetupFails
  BY <1>2, <1>4 DEF ChildSetupFails
<1>5. CASE ParentReaps
  BY <1>u, <1>5, PidsAssumption DEF ParentReaps, Reap, CommandOK
<1>6. CASE SignalManager \/ ManagerExits
  BY <1>6 DEF SignalManager, ForwardSignal, DieOfForwardedSignal, ManagerExits, ManagerUp, cmdVars
<1> QED BY <1>1, <1>3, <1>4, <1>5, <1>6, StepKinds

\* No process can become COMMAND, or end as it, once its fate is reported.
LEMMA FateStays ==
    ASSUME TypeOK, Next, command = NoPid, ~SpawnCommand
    PROVE  command' = NoPid /\ cmd_fate' = cmd_fate
<1> USE DEF TypeOK, ProcessTypeOK
<1>1. CASE QuietStep \/ Fork \/ Stop \/ Continue \/ VisitChild
  BY <1>1, QuietFrame DEF Fork, Stop, Continue, VisitChild, cmdVars
<1>2. ASSUME NEW p \in Pids, Exit(p) \/ DieOfSigterm(p) \/ DieOfSigkill(p)
      PROVE  command' = NoPid /\ cmd_fate' = cmd_fate
  BY <1>2, EndsByDying, PidsAssumption DEF Die
<1>3. CASE ChildSetupFails
  BY <1>3 DEF ChildSetupFails
<1>4. CASE ParentReaps \/ ExecFails \/ WaitForMain \/ DrainChild \/ ReapChild
  BY <1>4 DEF ParentReaps, ExecFails, WaitForMain, DrainChild, ReapChild, Reap
<1>5. CASE SignalManager \/ ManagerExits
  BY <1>5 DEF SignalManager, ForwardSignal, DieOfForwardedSignal, ManagerExits, ManagerEnds, cmdVars
<1> QED BY <1>1, <1>2, <1>3, <1>4, <1>5, StepKinds

\* What run() knows of COMMAND, and the status it reports, stay right.
LEMMA CommandNext ==
    ASSUME TypeOK, TreeOK, CommandOK, ExitStatusIsCommands, Next
    PROVE  CommandOK' /\ ExitStatusIsCommands'
<1> USE DEF TypeOK, ProcessTypeOK
<1>1. CommandProcessOK'
  BY CommandProcessNext
<1>2. CASE SpawnCommand
  BY <1>1, <1>2, PidsAssumption DEF SpawnCommand, CommandOK, CommandProcessOK, ExitStatusIsCommands, runVars
<1>3. CASE AssignChildPid
  BY <1>1, <1>3 DEF AssignChildPid, CommandOK, CommandProcessOK, ExitStatusIsCommands, cmdVars
<1>4. CASE ForkFails
  BY <1>1, <1>4 DEF ForkFails, CommandOK, CommandProcessOK, ExitStatusIsCommands, cmdVars
<1>5. CASE ExecFails
  BY <1>1, <1>5 DEF ExecFails, CommandOK, CommandProcessOK, ExitStatusIsCommands, Reap
<1>6. CASE WaitForMain
  <2>1. PICK p \in Pids : state[p] = "zombie" /\ Reap(p) /\ Notice(p)
    BY <1>6 DEF WaitForMain, ChildrenOf, Present
  <2>2. global_child_pid = command /\ command # NoPid /\ pc = "wait_main"
    BY <1>6 DEF WaitForMain, CommandOK
  <2>3. exit_status' = exit_status /\ exit_status = -1 /\ wait_status = NoStatus /\ cmd_fate' = cmd_fate
    BY <1>6, <2>1, <2>2 DEF WaitForMain, CommandOK, Reap
  <2>4. CASE p = command
    BY <1>1, <2>1, <2>2, <2>3, <2>4 DEF Notice, Reap, CommandOK, CommandProcessOK, ExitStatusIsCommands
  <2>5. CASE p # command
    BY <1>1, <1>6, <2>1, <2>2, <2>3, <2>5
    DEF WaitForMain, Notice, Reap, CommandOK, CommandProcessOK, ExitStatusIsCommands
  <2> QED BY <2>4, <2>5
<1>7. CASE ClearChildPid
  BY <1>1, <1>7 DEF ClearChildPid, CommandOK, CommandProcessOK, ExitStatusIsCommands, cmdVars
<1>8. CASE ~SpawnCommand /\ ~AssignChildPid /\ ~ForkFails /\ ~ExecFails /\ ~WaitForMain /\ ~ClearChildPid
  <2>1. UNCHANGED <<wait_status, exit_status, global_child_pid>>
    BY <1>8, StatusFrame
  <2>2. pc' \in {"start", "spawning", "wait_main", "main_reaped"} => pc' = pc
    BY <1>8, EarlyMoves
  <2>3. command = NoPid => command' = NoPid /\ cmd_fate' = cmd_fate
    BY <1>8, FateStays
  <2>4. pc' \in {"spawning", "wait_main"} => command' = command
    <3> SUFFICES ASSUME pc' \in {"spawning", "wait_main"} PROVE command' = command
      OBVIOUS
    <3>1. ManagerUp' /\ ~DrainChild /\ ~ReapChild
      BY <2>2 DEF ManagerUp, DrainChild, ReapChild
    <3> QED BY <1>8, <3>1, CommandStays DEF ManagerReaps
  <2>5. CommandOK'
    BY <1>1, <2>1, <2>2, <2>3, <2>4 DEF CommandOK, CommandProcessOK
  <2>6. ExitStatusIsCommands'
    BY <2>1, <2>3 DEF CommandOK, ExitStatusIsCommands
  <2> QED BY <2>5, <2>6
<1> QED BY <1>2, <1>3, <1>4, <1>5, <1>6, <1>7, <1>8

-----------------------------------------------------------------------------
(* The inductive invariant, and the theorems.                              *)

\* The inductive invariant holds initially.
LEMMA IInvInit == Init => IInv
<1> SUFFICES ASSUME Init PROVE IInv
  OBVIOUS
<1>1. TypeOK
  BY TypeInit
<1>2. Present = {}
  BY DEF Init, Present
<1>3. PhaseOK /\ NotStarted /\ ParentsAlive /\ NoCycle /\ NothingEscapes
  BY <1>2 DEF Init, PhaseOK, NotStarted, EarlyPCs, ParentsAlive, NoCycle, NothingEscapes
<1>4. SentOK /\ TodoOK /\ FinishedOK /\ WakeOK
  BY <1>2 DEF Init, SentOK, TodoOK, FinishedOK, ExitsAfterDescendants, WakeOK
<1>5. CommandOK /\ ExitStatusIsCommands
  BY DEF Init, CommandOK, ExitStatusIsCommands
<1> QED BY <1>1, <1>3, <1>4, <1>5 DEF IInv

\* The inductive invariant is preserved by every step.
LEMMA IInvNext == IInv /\ [Next]_vars => IInv'
<1> SUFFICES ASSUME IInv, [Next]_vars PROVE IInv'
  OBVIOUS
<1>1. CASE Next
  <2> USE <1>1 DEF IInv, TreeOK
  <2>1. TypeOK' /\ PhaseOK' /\ NotStarted'
    BY TypeNext, PhaseNext, NotStartedNext
  <2>2. ParentsAlive' /\ NoCycle' /\ NothingEscapes'
    BY TreeNext, EscapeNext
  <2>3. SentOK' /\ TodoOK'
    BY SentNext, TodoNext
  <2>4. FinishedOK' /\ WakeOK'
    BY FinishedNext, WakeNext
  <2>5. CommandOK' /\ ExitStatusIsCommands'
    BY CommandNext
  <2> QED BY <2>1, <2>2, <2>3, <2>4, <2>5
<1>2. CASE UNCHANGED vars
  <2> USE <1>2 DEF vars, procVars, cmdVars, boundVars, runVars, termVars, IInv
  <2>1. TypeOK'
    BY DEF TypeOK, ProcessTypeOK, BoundTypeOK, RunTypeOK, TermTypeOK, FlagTypeOK
  <2>2. PhaseOK' /\ NotStarted' /\ ParentsAlive' /\ NoCycle' /\ NothingEscapes'
    BY DEF PhaseOK, NotStarted, ParentsAlive, NoCycle, NothingEscapes, Present, ManagerUp
  <2>3. SentOK' /\ TodoOK' /\ FinishedOK' /\ WakeOK'
    BY DEF SentOK, TodoOK, FinishedOK, ExitsAfterDescendants, WakeOK, LiveChildIn, AlreadySent,
       Present, ManagerUp
  <2>4. CommandOK' /\ ExitStatusIsCommands'
    BY DEF CommandOK, ExitStatusIsCommands, Present, ManagerUp
  <2> QED BY <2>1, <2>2, <2>3, <2>4
<1> QED BY <1>1, <1>2

\* The inductive invariant holds in every reachable state of the manager and
\* its processes, for every set of process IDs and all bounds.
THEOREM Invariance == Spec => []IInv
BY IInvInit, IInvNext, PTL DEF Spec

\* The variables of the manager and of the process table keep their types.
THEOREM TypeCorrect == Spec => []TypeOK
<1>1. IInv => TypeOK
  BY DEF IInv
<1> QED BY <1>1, Invariance, PTL

\* A subreaper that returns without error has outlived every descendant of
\* COMMAND, so that its locks protected all of them.
THEOREM OutlivesDescendants == Spec => []ExitsAfterDescendants
<1>1. IInv => ExitsAfterDescendants
  BY DEF IInv, FinishedOK
<1> QED BY <1>1, Invariance, PTL

\* What the tables of TerminationData say is true of the processes that have
\* those process IDs now.
THEOREM TablesAreTrue == Spec => []SentMeansSignalled
<1>1. IInv => SentMeansSignalled
  BY DEF IInv, SentOK, SentMeansSignalled
<1> QED BY <1>1, Invariance, PTL

\* The main loop cannot sleep through the death of the last child.
THEOREM WakesUp == Spec => []NoLostWakeup
<1>1. IInv => NoLostWakeup
  BY DEF IInv, WakeOK, LiveChildIn, NoLostWakeup, Alive, AlreadySent, TypeOK, TermTypeOK
<1> QED BY <1>1, Invariance, PTL

\* The reported exit status is COMMAND's.
THEOREM ReportsCommand == Spec => []ExitStatusIsCommands
<1>1. IInv => ExitStatusIsCommands
  BY DEF IInv
<1> QED BY <1>1, Invariance, PTL

\* Termination signals go to the manager's own children only.
THEOREM SparesStrangers == Spec => SignalsOnlyChildren
<1>1. ASSUME IInv, [Next]_vars
      PROVE  [\A p \in Pids : VisitChild /\ got'[p] # got[p] => parent[p] = Manager]_vars
  <2> SUFFICES ASSUME NEW p \in Pids, VisitChild, got'[p] # got[p]
               PROVE  parent[p] = Manager
    OBVIOUS
  <2>1. PICK q \in todo : IF IsCandidate(q) /\ q \notin AlreadySent
                          THEN SignalChild(q)
                          ELSE UNCHANGED <<sent_sigterm, sent_sigkill, got, state, sigchld>>
    BY DEF VisitChild
  <2>2. IsCandidate(q) /\ SignalChild(q)
    BY <2>1
  <2>3. q = p
    BY <2>2 DEF SignalChild, IInv, TypeOK, ProcessTypeOK
  <2>4. CASE p \in ChildrenOf(Manager)
    BY <2>4 DEF ChildrenOf
  <2>5. CASE ~scan
    <3>1. pc = "signal" /\ p \in todo
      BY <2>3 DEF VisitChild
    <3> QED BY <1>1, <2>5, <3>1, Zenon DEF IInv, TodoOK
  <2> QED BY <2>2, <2>3, <2>4, <2>5 DEF IsCandidate
<1> QED BY <1>1, Invariance, PTL DEF Spec, SignalsOnlyChildren

-----------------------------------------------------------------------------
(* File descriptors.                                                       *)

Std   == {0, 1, 2} \subseteq start
Early == {"stdin", "stdout", "stderr", "divert", "options"}
Late  == {"spawn", "close", "pass", "assign", "let_go"}

Saves == {saved[1], saved[2]}

-----------------------------------------------------------------------------
(* The parts of the invariant.                                             *)

\* What the numbers of the supervisor mean.
Numbers ==
    /\ open_fds[0] = 0 /\ open_fds[2] = 2
    /\ open_fds[1] = IF phase \in {"stdin", "stdout", "stderr", "divert"} THEN 1 ELSE 2
    /\ \A f \in 3..MaxFd \ own : open_fds[f] = IF f \in start THEN f ELSE Closed
    /\ own \subseteq 3..MaxFd /\ own \cap start = {}
    /\ \A f \in own : f \in Saves \/ (f \in locks /\ open_fds[f] = LockFile)

\* Locks and copies are not for COMMAND.
Kept ==
    /\ cloexec \subseteq own \cup locks
    /\ \A f \in locks : f \in Saves \/ (f \in cloexec /\ open_fds[f] # Closed)

\* Where the originals of stdout and stderr are.
Copies ==
    /\ \A f \in {1, 2} : saved[f] # Closed => saved[f] \in own
    /\ saved[1] # Closed => saved[1] # saved[2]
    /\ saved[1] = Closed <=> phase \in {"stdin", "stdout"}
    /\ saved[2] = Closed <=> phase \in {"stdin", "stdout", "stderr"}
    /\ \A f \in {1, 2} : saved[f] # Closed =>
          IF phase \in Late /\ f \in AskedTargets THEN open_fds[saved[f]] = Closed
          ELSE open_fds[saved[f]] = f /\ saved[f] \in cloexec

\* What an option named was open then.
Usable(f) == f \in own \/ open_fds[f] # Closed
Named ==
    /\ \A f \in pass_fds : Usable(f)
    /\ phase \in Early => \A i \in DOMAIN assign_fds : Usable(assign_fds[i][2])
    /\ phase \in Late => \A i \in DOMAIN asked : Usable(asked[i][2])

Tables == Numbers /\ Kept /\ Copies /\ Named

\* The copies come after what was asked for.
Copy(f) == <<f, saved[f]>>
TargetsOf(a) == {a[i][1] : i \in DOMAIN a}

\* s is a, then the copies of those in F that are not targets already.
CopiesAfter(a, s, F) ==
    /\ Len(a) <= Len(s)
    /\ \A i \in DOMAIN a : s[i] = a[i]
    /\ \A i \in DOMAIN s : i > Len(a) => \E f \in F \ TargetsOf(a) : s[i] = Copy(f)
    /\ \A f \in F \ TargetsOf(a) :
          \E i \in DOMAIN s : s[i] = Copy(f) /\ \A j \in DOMAIN s : s[j][1] = f => j = i

Ordered == CopiesAfter(asked, assign_fds, {1, 2})

\* The child, assignment after assignment.
Withheld == (cloexec \cup IF close_fds THEN 3..MaxFd ELSE {}) \ pass_fds
Done     == 1 .. step - 1

Assigned ==
    /\ \A f \in Fds : (\A i \in Done : assign_fds[i][1] # f) => child[f] = open_fds[f]
    /\ \A i \in Done :
          (\A j \in Done : assign_fds[j][1] = assign_fds[i][1] => j <= i)
             => child[assign_fds[i][1]] = open_fds[assign_fds[i][2]]
    /\ child_cloexec = Withheld \ {assign_fds[i][1] : i \in Done}

ChildOK ==
    /\ phase = "close" => child = open_fds /\ child_cloexec = cloexec
    /\ phase = "pass" =>
          /\ child = open_fds
          /\ child_cloexec = cloexec \cup IF close_fds THEN 3..MaxFd ELSE {}
    /\ phase \in Early \cup {"spawn", "close", "pass"} => step = 1
    /\ phase = "assign" /\ Plain => Assigned
    /\ phase \in {"let_go", "running"} /\ Plain => ChildAsAsked

FdsInv ==
    /\ FdsTypeOK
    /\ Std /\ phase \in Early \cup Late => Tables
    /\ Std /\ phase \in Late => Ordered
    /\ ChildOK
    /\ phase = "running" /\ Plain => SupervisorAsAsked

-----------------------------------------------------------------------------
(* Types.                                                                  *)

LEMMA FdsTypeInit == ASSUME Parameters, FdsInit PROVE FdsTypeOK
<1>1. start \subseteq Fds /\ options \in 0 .. MaxOptions
  BY DEF Parameters, FdsInit
<1>2. open_fds \in [Fds -> Contents] /\ child \in [Fds -> Contents]
  BY DEF FdsInit, Contents
<1>3. saved \in [{1, 2} -> Fds \cup {Closed}]
  BY DEF FdsInit
<1>4. /\ assign_fds \in Seq(Fds \X Fds) /\ asked \in Seq(Fds \X Fds)
      /\ step \in 1 .. Len(assign_fds) + 1
  BY DEF FdsInit
<1> QED  BY <1>1, <1>2, <1>3, <1>4 DEF FdsInit, FdsTypeOK

LEMMA TypeLog ==
    ASSUME Parameters, FdsTypeOK,
           EnsureStdin \/ SetUpStdout \/ SetUpStderr \/ DivertStdout
    PROVE  FdsTypeOK'
<1> USE DEF Parameters, FdsTypeOK, Contents, Fds, Closed
<1>1. CASE EnsureStdin
  BY <1>1 DEF EnsureStdin, Ensured, optionVars, childVars
<1>2. ASSUME NEW f \in {1, 2}, NEW next \in {"stderr", "divert"}, SetUpOutput(f, next)
      PROVE  FdsTypeOK'
  <2> USE DEF optionVars, childVars, tableVars
  <2>1. CASE open_fds[f] = Closed
    BY <1>2, <2>1 DEF SetUpOutput, Ensured
  <2>2. CASE \E copy \in Fds : phase' = next /\ Lowest(3, copy) /\ Duplicate(f, copy)
    <3>1. PICK copy \in Fds : Lowest(3, copy) /\ Duplicate(f, copy)
      BY <2>2
    <3>2. /\ open_fds' = [open_fds EXCEPT ![copy] = open_fds[f]] /\ saved' = [saved EXCEPT ![f] = copy]
          /\ cloexec' = cloexec \cup {copy} /\ own' = own \cup {copy}
      BY <3>1 DEF Duplicate
    <3>3. UNCHANGED <<start, optionVars, asked, childVars>> /\ phase' = next
      BY <1>2, <2>2 DEF SetUpOutput
    <3>4. f \in Fds /\ open_fds[f] \in Contents
      OBVIOUS
    <3> QED  BY <3>2, <3>3, <3>4
  <2>3. CASE phase' = "failed" /\ UNCHANGED <<tableVars, saved, own>>
    BY <1>2, <2>3 DEF SetUpOutput
  <2> QED  BY <1>2, <2>1, <2>2, <2>3 DEF SetUpOutput
<1>3. CASE DivertStdout
  BY <1>3 DEF DivertStdout, optionVars, childVars
<1> QED  BY <1>1, <1>2, <1>3 DEF SetUpStdout, SetUpStderr

LEMMA TypeOptions ==
    ASSUME Parameters, FdsTypeOK, NEW target \in Nameable, NEW f \in Nameable,
           AssignFd(target, f) \/ PassFd(f) \/ LockFd(f)
    PROVE  FdsTypeOK'
<1> USE DEF Parameters, FdsTypeOK, Option, Contents, childVars, tableVars
<1>1. CASE AssignFd(target, f)
  <2>1. Append(assign_fds, <<target, f>>) \in Seq(Fds \X Fds)
    OBVIOUS
  <2>2. Len(Append(assign_fds, <<target, f>>)) = Len(assign_fds) + 1
    OBVIOUS
  <2>3. /\ assign_fds' \in Seq(Fds \X Fds) /\ Len(assign_fds) \in Nat
        /\ Len(assign_fds') \in Nat /\ Len(assign_fds) <= Len(assign_fds')
    <3>1. CASE open_fds[f] = Closed
      BY <1>1, <3>1 DEF AssignFd
    <3>2. CASE open_fds[f] # Closed
      <4>1. assign_fds' = Append(assign_fds, <<target, f>>)
        BY <1>1, <3>2 DEF AssignFd
      <4>2. Len(assign_fds) \in Nat
        OBVIOUS
      <4> QED  BY <4>1, <4>2, <2>1, <2>2
    <3> QED  BY <3>1, <3>2
  <2>4. step' \in 1 .. Len(assign_fds') + 1
    BY <1>1, <2>3 DEF AssignFd
  <2> QED  BY <1>1, <2>3, <2>4 DEF AssignFd
<1>2. CASE PassFd(f)
  BY <1>2 DEF PassFd
<1>3. CASE LockFd(f)
  BY <1>3 DEF LockFd
<1> QED  BY <1>1, <1>2, <1>3

LEMMA TypeMore ==
    ASSUME Parameters, FdsTypeOK, OpenLockFile \/ CloseFds
    PROVE  FdsTypeOK'
<1> USE DEF Parameters, FdsTypeOK, Option, Contents, childVars, tableVars
<1>1. CASE OpenLockFile
  BY <1>1 DEF OpenLockFile
<1>2. CASE CloseFds
  BY <1>2 DEF CloseFds
<1> QED  BY <1>1, <1>2

\* What is appended to assign_fds.
LEMMA Originals ==
    ASSUME Parameters, FdsTypeOK
    PROVE  /\ Original(1) \in Seq(Fds \X Fds) /\ Original(2) \in Seq(Fds \X Fds)
           /\ assign_fds \o Original(1) \o Original(2) \in Seq(Fds \X Fds)
           /\ Len(assign_fds \o Original(1) \o Original(2)) >= Len(assign_fds)
<1>1. ASSUME NEW f \in {1, 2} PROVE Original(f) \in Seq(Fds \X Fds)
  <2>1. CASE Taken(f)
    <3>1. saved[f] \in Fds /\ f \in Fds
      BY <2>1 DEF Taken, FdsTypeOK, Fds, Parameters
    <3> QED  BY <2>1, <3>1 DEF Original
  <2> QED  BY <2>1 DEF Original
<1> QED  BY <1>1 DEF FdsTypeOK

LEMMA TypeChild ==
    ASSUME Parameters, FdsTypeOK,
           \/ TakeOriginalStdoutStderr \/ Spawn \/ ChildCloses \/ ChildPasses
           \/ ChildAssigns \/ ChildExecs \/ LetGo
    PROVE  FdsTypeOK'
<1> USE DEF Parameters, FdsTypeOK, Contents, Fds, Closed
<1>1. CASE TakeOriginalStdoutStderr
  <2> DEFINE new == assign_fds \o Original(1) \o Original(2)
  <2>1. /\ assign_fds' = new /\ new \in Seq(Fds \X Fds) /\ Len(assign_fds) \in Nat
        /\ Len(new) \in Nat /\ Len(new) >= Len(assign_fds)
    <3>1. new \in Seq(Fds \X Fds) /\ Len(new) >= Len(assign_fds)
      BY Originals
    <3>2. assign_fds' = new
      BY <1>1 DEF TakeOriginalStdoutStderr
    <3> HIDE DEF new
    <3> QED  BY <3>1, <3>2
  <2> HIDE DEF new
  <2>2. step' \in 1 .. Len(assign_fds') + 1
    BY <1>1, <2>1 DEF TakeOriginalStdoutStderr, childVars
  <2>3. cloexec' \subseteq Fds /\ open_fds' \in [Fds -> Contents]
    BY <1>1 DEF TakeOriginalStdoutStderr
  <2> QED  BY <1>1, <2>1, <2>2, <2>3 DEF TakeOriginalStdoutStderr, childVars
<1>2. CASE Spawn
  BY <1>2 DEF Spawn, tableVars, optionVars
<1> USE DEF ChildStep, tableVars, optionVars, childVars
<1>3. CASE ChildCloses
  <2>1. child_cloexec' \subseteq Fds
    BY <1>3 DEF ChildCloses
  <2> QED  BY <1>3, <2>1 DEF ChildCloses
<1>4. CASE ChildPasses
  BY <1>4 DEF ChildPasses
<1>5. CASE ChildAssigns
  <2> DEFINE target == assign_fds[step][1]
             source == assign_fds[step][2]
  <2>1. /\ step \in DOMAIN assign_fds /\ step \in Nat /\ Len(assign_fds) \in Nat
        /\ target \in Fds /\ source \in Fds
    BY <1>5 DEF ChildAssigns
  <2> HIDE DEF target, source
  <2>2. child' \in [Fds -> Contents] /\ child_cloexec' \subseteq Fds
    <3>1. child' = [child EXCEPT ![target] = child[source]]
      BY <1>5 DEF ChildAssigns, target, source
    <3>2. child_cloexec' \subseteq child_cloexec
      BY <1>5 DEF ChildAssigns
    <3> QED  BY <2>1, <3>1, <3>2
  <2>3. step' \in 1 .. Len(assign_fds') + 1
    BY <1>5, <2>1 DEF ChildAssigns
  <2> QED  BY <1>5, <2>2, <2>3 DEF ChildAssigns
<1>6. CASE ChildExecs
  BY <1>6 DEF ChildExecs
<1>7. CASE LetGo
  BY <1>7 DEF LetGo
<1> QED  BY <1>1, <1>2, <1>3, <1>4, <1>5, <1>6, <1>7

LEMMA TypeStep == ASSUME Parameters, FdsTypeOK, [FdsNext]_fdsVars PROVE FdsTypeOK'
<1>1. CASE UNCHANGED fdsVars
  BY <1>1 DEF fdsVars, tableVars, optionVars, childVars, FdsTypeOK, Fds, Contents
<1>2. CASE \E f \in Nameable : PassFd(f) \/ LockFd(f)
  BY <1>2, TypeOptions
<1>3. CASE \E target, source \in Nameable : AssignFd(target, source)
  BY <1>3, TypeOptions
<1>4. CASE EnsureStdin \/ SetUpStdout \/ SetUpStderr \/ DivertStdout
  BY <1>4, TypeLog
<1>5. CASE OpenLockFile \/ CloseFds
  BY <1>5, TypeMore
<1>6. CASE \/ TakeOriginalStdoutStderr \/ Spawn \/ ChildCloses \/ ChildPasses
           \/ ChildAssigns \/ ChildExecs \/ LetGo
  BY <1>6, TypeChild
<1> QED  BY <1>1, <1>2, <1>3, <1>4, <1>5, <1>6 DEF FdsNext

-----------------------------------------------------------------------------
(* Until fork().                                                           *)

\* A number that is free is neither one of the supervisor's own nor one that was
\* open at the beginning.
LEMMA FreeNumber ==
    ASSUME Parameters, FdsTypeOK, Std, Tables, phase \in Early,
           NEW c \in Fds, open_fds[c] = Closed
    PROVE  c \in 3..MaxFd /\ c \notin own /\ c \notin start
<1> USE DEF Parameters, Fds, Closed
<1>1. c \in 3..MaxFd
  BY DEF Tables, Numbers
<1>2. c \notin own
  <2>1. CASE c \in Saves
    <3>1. PICK f \in {1, 2} : saved[f] = c
      BY <2>1 DEF Saves
    <3>2. open_fds[c] = f
      BY <3>1 DEF Tables, Copies, Early, Late
    <3> QED  BY <3>2
  <2>2. CASE c \notin Saves
    BY <2>2 DEF Tables, Numbers, LockFile
  <2> QED  BY <2>1, <2>2
<1> QED  BY <1>1, <1>2 DEF Tables, Numbers

\* Opening one keeps what the others mean.
LEMMA OpenedNumber ==
    ASSUME Parameters, FdsTypeOK, FdsTypeOK', Std, Tables, phase \in Early,
           NEW c \in Fds, open_fds[c] = Closed, NEW file \in Contents \ {Closed},
           open_fds' = [open_fds EXCEPT ![c] = file], cloexec' = cloexec \cup {c},
           own' = own \cup {c}, start' = start,
           UNCHANGED <<pass_fds, assign_fds>>
    PROVE  /\ \A f \in Fds : f # c => open_fds'[f] = open_fds[f]
           /\ open_fds'[c] = file
           /\ \A f \in 3..MaxFd \ own' : open_fds'[f] = IF f \in start' THEN f ELSE Closed
           /\ own' \subseteq 3..MaxFd /\ own' \cap start' = {}
           /\ open_fds'[0] = 0 /\ open_fds'[1] = open_fds[1] /\ open_fds'[2] = 2
           /\ \A f \in Fds : Usable(f) => Usable(f)'
<1>1. c \in 3..MaxFd /\ c \notin own /\ c \notin start
  BY FreeNumber
<1>2. open_fds \in [Fds -> Contents]
  BY DEF FdsTypeOK
<1>3. (\A f \in Fds : f # c => open_fds'[f] = open_fds[f]) /\ open_fds'[c] = file
  BY <1>2
<1>4. 3..MaxFd \subseteq Fds /\ {0, 1, 2} \subseteq Fds
  BY DEF Fds, Parameters
<1>5. open_fds'[0] = 0 /\ open_fds'[1] = open_fds[1] /\ open_fds'[2] = 2
  BY <1>1, <1>3, <1>4 DEF Tables, Numbers
<1>6. \A f \in 3..MaxFd \ own' : open_fds'[f] = IF f \in start' THEN f ELSE Closed
  BY <1>1, <1>3, <1>4 DEF Tables, Numbers
<1>7. \A f \in Fds : Usable(f) => Usable(f)'
  BY <1>3 DEF Usable
<1> QED  BY <1>1, <1>3, <1>5, <1>6, <1>7 DEF Tables, Numbers

LEMMA InitTables == ASSUME Parameters, FdsInit, Std PROVE Tables
<1> USE DEF Parameters, FdsInit, Std, Fds
<1>1. Numbers
  BY DEF Numbers
<1>2. Kept
  BY DEF Kept
<1>3. Copies
  BY DEF Copies
<1>4. Named
  BY DEF Named
<1> QED  BY <1>1, <1>2, <1>3, <1>4 DEF Tables

LEMMA EnsureTables ==
    ASSUME Parameters, FdsTypeOK, FdsTypeOK', Std, Tables, EnsureStdin
    PROVE  Tables'
<1>1. open_fds' = open_fds
  <2>1. open_fds \in [Fds -> Contents] /\ open_fds[0] # Closed /\ 0 \in Fds
    BY DEF FdsTypeOK, Tables, Numbers, Closed, Fds, Parameters
  <2> QED  BY <2>1 DEF EnsureStdin, Ensured
<1>2. UNCHANGED <<start, cloexec, saved, own, assign_fds, pass_fds, locks, asked>>
  BY DEF EnsureStdin, optionVars
<1> USE DEF EnsureStdin
<1>3. Numbers'
  BY <1>1, <1>2 DEF Tables, Numbers, Saves
<1>4. Kept'
  BY <1>1, <1>2 DEF Tables, Kept, Saves
<1>5. Copies'
  BY <1>1, <1>2 DEF Tables, Copies, Late
<1>6. Named'
  BY <1>1, <1>2 DEF Tables, Named, Usable, Early, Late
<1> QED  BY <1>3, <1>4, <1>5, <1>6 DEF Tables

LEMMA SetUpTables ==
    ASSUME Parameters, FdsTypeOK, FdsTypeOK', Std, Tables, phase' # "failed",
           SetUpStdout \/ SetUpStderr
    PROVE  Tables'
<1>1. PICK f \in {1, 2}, next \in {"stderr", "divert"} :
         /\ phase = (IF f = 1 THEN "stdout" ELSE "stderr") /\ SetUpOutput(f, next)
         /\ next = (IF f = 1 THEN "stderr" ELSE "divert")
  BY DEF SetUpStdout, SetUpStderr
<1>2. open_fds[f] = f /\ f # Closed /\ f \in Contents /\ f \in Fds
  BY <1>1 DEF Tables, Numbers, Closed, Contents, Fds, Parameters
<1>3. PICK copy \in Fds : Lowest(3, copy) /\ Duplicate(f, copy) /\ phase' = next
  BY <1>1, <1>2 DEF SetUpOutput
<1>4. UNCHANGED <<start, assign_fds, pass_fds, locks, asked>>
  BY <1>1 DEF SetUpOutput, optionVars
<1>5. /\ open_fds[copy] = Closed /\ open_fds' = [open_fds EXCEPT ![copy] = f]
      /\ cloexec' = cloexec \cup {copy} /\ own' = own \cup {copy}
      /\ saved' = [saved EXCEPT ![f] = copy]
  BY <1>2, <1>3 DEF Lowest, Duplicate
<1>6. phase \in Early
  BY <1>1 DEF Early
<1>7. copy \in 3..MaxFd /\ copy \notin own /\ copy \notin start
  BY <1>5, <1>6, FreeNumber
<1>8. /\ \A g \in Fds : g # copy => open_fds'[g] = open_fds[g]
      /\ open_fds'[copy] = f
      /\ \A g \in 3..MaxFd \ own' : open_fds'[g] = IF g \in start' THEN g ELSE Closed
      /\ own' \subseteq 3..MaxFd /\ own' \cap start' = {}
      /\ open_fds'[0] = 0 /\ open_fds'[1] = open_fds[1] /\ open_fds'[2] = 2
      /\ \A g \in Fds : Usable(g) => Usable(g)'
  BY <1>2, <1>4, <1>5, <1>6, OpenedNumber
<1>9. saved'[f] = copy /\ \A g \in {1, 2} : g # f => saved'[g] = saved[g]
  BY <1>5 DEF FdsTypeOK
<1>10. saved[f] = Closed
  BY <1>1 DEF Tables, Copies
<1>11. \A g \in Fds : g \in Saves => g \in Saves'
  BY <1>9, <1>10 DEF Saves, Fds, Closed
<1>12. Numbers'
  <2>1. open_fds'[1] = 1 /\ phase' \in {"stdin", "stdout", "stderr", "divert"}
    BY <1>1, <1>3, <1>8 DEF Tables, Numbers
  <2>2. ASSUME NEW g \in own' PROVE g \in Saves' \/ (g \in locks' /\ open_fds'[g] = LockFile)
    <3>1. CASE g = copy
      BY <3>1, <1>9 DEF Saves
    <3>2. CASE g \in own /\ g # copy
      <4>1. g \in Fds
        BY <3>2 DEF FdsTypeOK
      <4> QED  BY <3>2, <4>1, <1>4, <1>8, <1>11 DEF Tables, Numbers
    <3> QED  BY <1>5, <3>1, <3>2
  <2> QED  BY <1>8, <2>1, <2>2 DEF Numbers
<1>13. Kept'
  <2>1. ASSUME NEW g \in locks' PROVE g \in Saves' \/ (g \in cloexec' /\ open_fds'[g] # Closed)
    <3>1. g \in Fds /\ g \in locks
      BY <1>4 DEF FdsTypeOK
    <3> QED  BY <3>1, <1>2, <1>5, <1>8, <1>11 DEF Tables, Kept
  <2> QED  BY <2>1, <1>4, <1>5 DEF Tables, Kept
<1>14. Copies'
  <2>1. \A g \in {1, 2} : saved'[g] # Closed => saved'[g] \in own'
    BY <1>5, <1>9 DEF Tables, Copies
  <2>2. saved'[1] # Closed => saved'[1] # saved'[2]
    <3>1. CASE f = 1
      BY <3>1, <1>1, <1>7, <1>9 DEF Tables, Copies, Closed
    <3>2. CASE f = 2
      BY <3>2, <1>1, <1>7, <1>9 DEF Tables, Copies
    <3> QED  BY <3>1, <3>2
  <2>3. /\ saved'[1] = Closed <=> phase' \in {"stdin", "stdout"}
        /\ saved'[2] = Closed <=> phase' \in {"stdin", "stdout", "stderr"}
    BY <1>1, <1>3, <1>7, <1>9 DEF Tables, Copies, Closed
  <2>4. ASSUME NEW g \in {1, 2}, saved'[g] # Closed
        PROVE  open_fds'[saved'[g]] = g /\ saved'[g] \in cloexec'
    <3>1. CASE g = f
      BY <3>1, <1>5, <1>8, <1>9
    <3>2. CASE g # f
      <4>1. saved[g] # Closed /\ saved'[g] = saved[g]
        BY <2>4, <3>2, <1>9
      <4>2. saved[g] \in own /\ open_fds[saved[g]] = g /\ saved[g] \in cloexec
        BY <4>1, <1>1 DEF Tables, Copies, Late
      <4>3. saved[g] # copy /\ saved[g] \in Fds
        BY <4>2, <1>7 DEF FdsTypeOK
      <4> QED  BY <4>1, <4>2, <4>3, <1>5, <1>8
    <3> QED  BY <3>1, <3>2
  <2>5. phase' \notin Late
    BY <1>1, <1>3 DEF Late
  <2> QED  BY <2>1, <2>2, <2>3, <2>4, <2>5 DEF Copies
<1>15. Named'
  <2>1. \A g \in pass_fds : Usable(g)'
    BY <1>8 DEF Tables, Named, FdsTypeOK
  <2>2. ASSUME NEW i \in DOMAIN assign_fds PROVE Usable(assign_fds[i][2])'
    <3>1. assign_fds[i][2] \in Fds
      BY DEF FdsTypeOK
    <3>2. Usable(assign_fds[i][2])
      BY <1>6 DEF Tables, Named
    <3>3. \A g \in Fds : Usable(g) => (g \in own' \/ open_fds'[g] # Closed)
      BY <1>8 DEF Usable
    <3>4. assign_fds[i][2] \in own' \/ open_fds'[assign_fds[i][2]] # Closed
      BY <3>1, <3>2, <3>3
    <3> QED  BY <3>4, <1>4 DEF Usable
  <2>3. phase' \notin Late
    BY <1>1, <1>3 DEF Late
  <2> QED  BY <2>1, <2>2, <2>3, <1>4 DEF Named, Usable
<1> QED  BY <1>12, <1>13, <1>14, <1>15 DEF Tables

LEMMA DivertTables ==
    ASSUME Parameters, FdsTypeOK, FdsTypeOK', Std, Tables, DivertStdout
    PROVE  Tables'
<1>1. UNCHANGED <<start, cloexec, saved, own, assign_fds, pass_fds, locks, asked>>
  BY DEF DivertStdout, optionVars
<1>2. /\ open_fds \in [Fds -> Contents] /\ {0, 1, 2} \subseteq Fds /\ 3..MaxFd \subseteq Fds
      /\ open_fds[1] = 1 /\ open_fds[2] = 2 /\ open_fds' = [open_fds EXCEPT ![1] = open_fds[2]]
  BY DEF DivertStdout, Tables, Numbers, FdsTypeOK, Fds, Parameters
<1>3. /\ open_fds'[1] = 2 /\ \A f \in Fds : f # 1 => open_fds'[f] = open_fds[f]
      /\ \A f \in Fds : open_fds[f] # Closed => open_fds'[f] # Closed
  BY <1>2 DEF Closed
<1>4. phase = "divert" /\ phase' = "options"
  BY DEF DivertStdout
<1>5. 1 \notin own /\ own \subseteq Fds
  BY DEF Tables, Numbers, FdsTypeOK
<1>6. Numbers'
  BY <1>1, <1>2, <1>3, <1>4, <1>5 DEF Tables, Numbers, Saves
<1>7. Kept'
  BY <1>1, <1>3 DEF Tables, Kept, Saves, FdsTypeOK
<1>8. Copies'
  <2>1. \A f \in {1, 2} : saved[f] \in own /\ open_fds[saved[f]] = f /\ saved[f] \in cloexec
    BY <1>4 DEF Tables, Copies, Late
  <2>2. \A f \in {1, 2} : open_fds'[saved[f]] = f
    BY <2>1, <1>3, <1>5
  <2> QED  BY <1>1, <1>4, <2>1, <2>2 DEF Tables, Copies, Late
<1>9. Named'
  <2>1. \A f \in Fds : f \in own \/ open_fds[f] # Closed => f \in own \/ open_fds'[f] # Closed
    BY <1>3
  <2>2. \A i \in DOMAIN assign_fds : assign_fds[i][2] \in Fds
    BY DEF FdsTypeOK
  <2>3. pass_fds \subseteq Fds
    BY DEF FdsTypeOK
  <2> QED  BY <1>1, <1>4, <2>1, <2>2, <2>3 DEF Tables, Named, Usable, Early, Late
<1> QED  BY <1>6, <1>7, <1>8, <1>9 DEF Tables

LEMMA NamingTables ==
    ASSUME Parameters, FdsTypeOK, FdsTypeOK', Std, Tables, phase' # "failed",
           NEW target \in Nameable, NEW f \in Nameable,
           AssignFd(target, f) \/ PassFd(f) \/ LockFd(f)
    PROVE  Tables'
<1>1. /\ phase = "options" /\ phase' = "options"
      /\ UNCHANGED <<start, saved, asked, open_fds, own>>
  BY DEF Option, AssignFd, PassFd, LockFd, tableVars
<1>2. f \in Fds /\ open_fds[f] # Closed
  BY DEF Parameters, AssignFd, PassFd, LockFd
<1>3. CASE AssignFd(target, f)
  <2>1. UNCHANGED <<cloexec, pass_fds, locks>> /\ assign_fds' = Append(assign_fds, <<target, f>>)
    BY <1>2, <1>3 DEF AssignFd, tableVars
  <2>2. \A i \in DOMAIN assign_fds' :
            \/ i \in DOMAIN assign_fds /\ assign_fds'[i] = assign_fds[i]
            \/ assign_fds'[i][2] = f
    BY <2>1 DEF FdsTypeOK
  <2>3. Numbers' /\ Kept'
    BY <1>1, <2>1 DEF Tables, Numbers, Kept, Saves
  <2>4. Copies'
    BY <1>1, <2>1 DEF Tables, Copies, Late
  <2>5. Named'
    BY <1>1, <1>2, <2>1, <2>2 DEF Tables, Named, Usable, Early, Late
  <2> QED  BY <2>3, <2>4, <2>5 DEF Tables
<1>4. CASE PassFd(f)
  <2>1. UNCHANGED <<cloexec, assign_fds, locks>> /\ pass_fds' = pass_fds \cup {f}
    BY <1>2, <1>4 DEF PassFd, tableVars
  <2>3. Numbers' /\ Kept'
    BY <1>1, <2>1 DEF Tables, Numbers, Kept, Saves
  <2>4. Copies'
    BY <1>1, <2>1 DEF Tables, Copies, Late
  <2>5. Named'
    BY <1>1, <1>2, <2>1 DEF Tables, Named, Usable, Early, Late
  <2> QED  BY <2>3, <2>4, <2>5 DEF Tables
<1>5. CASE LockFd(f)
  <2>1. /\ UNCHANGED <<pass_fds, assign_fds>>
        /\ cloexec' = cloexec \cup {f} /\ locks' = locks \cup {f}
    BY <1>2, <1>5 DEF LockFd
  <2>3. Numbers' /\ Kept'
    BY <1>1, <1>2, <2>1 DEF Tables, Numbers, Kept, Saves
  <2>4. Copies'
    BY <1>1, <2>1 DEF Tables, Copies, Late
  <2>5. Named'
    BY <1>1, <2>1 DEF Tables, Named, Usable, Early, Late
  <2> QED  BY <2>3, <2>4, <2>5 DEF Tables
<1> QED  BY <1>3, <1>4, <1>5

LEMMA LockFileTables ==
    ASSUME Parameters, FdsTypeOK, FdsTypeOK', Std, Tables, phase' # "failed", OpenLockFile
    PROVE  Tables'
<1>1. /\ phase = "options" /\ phase' = "options"
      /\ UNCHANGED <<start, saved, asked, assign_fds, pass_fds>>
  BY DEF Option, OpenLockFile
<1>2. PICK c \in Fds : /\ open_fds[c] = Closed /\ open_fds' = [open_fds EXCEPT ![c] = LockFile]
                       /\ cloexec' = cloexec \cup {c} /\ locks' = locks \cup {c}
                       /\ own' = own \cup {c}
  BY DEF OpenLockFile, Lowest
<1>3. LockFile \in Contents \ {Closed} /\ phase \in Early
  BY <1>1 DEF LockFile, Contents, Closed, Early, Parameters
<1>4. c \in 3..MaxFd /\ c \notin own /\ c \notin start
  BY <1>2, <1>3, FreeNumber
<1>5. /\ \A g \in Fds : g # c => open_fds'[g] = open_fds[g]
      /\ open_fds'[c] = LockFile
      /\ \A g \in 3..MaxFd \ own' : open_fds'[g] = IF g \in start' THEN g ELSE Closed
      /\ own' \subseteq 3..MaxFd /\ own' \cap start' = {}
      /\ open_fds'[0] = 0 /\ open_fds'[1] = open_fds[1] /\ open_fds'[2] = 2
      /\ \A g \in Fds : Usable(g) => Usable(g)'
  BY <1>1, <1>2, <1>3, OpenedNumber
<1>6. own \subseteq Fds /\ locks \subseteq Fds /\ pass_fds \subseteq Fds
  BY DEF FdsTypeOK
<1>7. Numbers'
  BY <1>1, <1>2, <1>5, <1>6 DEF Tables, Numbers, Saves
<1>8. Kept'
  BY <1>1, <1>2, <1>3, <1>5, <1>6 DEF Tables, Kept, Saves
<1>9. Copies'
  <2>1. \A g \in {1, 2} : saved[g] \in own /\ open_fds[saved[g]] = g /\ saved[g] \in cloexec
    BY <1>1 DEF Tables, Copies, Late
  <2>2. \A g \in {1, 2} : open_fds'[saved[g]] = g
    BY <2>1, <1>4, <1>5, <1>6
  <2> QED  BY <1>1, <1>2, <2>1, <2>2 DEF Tables, Copies, Late
<1>10. Named'
  <2>1. \A g \in Fds : (g \in own \/ open_fds[g] # Closed) => (g \in own' \/ open_fds'[g] # Closed)
    BY <1>5 DEF Usable
  <2>2. \A i \in DOMAIN assign_fds : assign_fds[i][2] \in Fds
    BY DEF FdsTypeOK
  <2> QED  BY <1>1, <1>6, <2>1, <2>2 DEF Tables, Named, Usable, Early, Late
<1> QED  BY <1>7, <1>8, <1>9, <1>10 DEF Tables

LEMMA CloseFdsTables ==
    ASSUME FdsTypeOK, Std, Tables, CloseFds
    PROVE  Tables'
<1> USE DEF CloseFds, tableVars
<1>1. Numbers' /\ Kept'
  BY DEF Tables, Numbers, Kept, Saves
<1>2. Copies'
  BY DEF Tables, Copies, Late
<1>3. Named'
  BY DEF Tables, Named, Usable, Early, Late
<1> QED  BY <1>1, <1>2, <1>3 DEF Tables

-----------------------------------------------------------------------------
(* The originals of stdout and stderr are assigned after the rest.         *)

\* If a target is not one yet, a copy is appended, otherwise nothing.
LEMMA AppendedCopy ==
    ASSUME NEW a \in Seq(Fds \X Fds), NEW s \in Seq(Fds \X Fds),
           NEW F \in SUBSET {1, 2}, NEW f \in {1, 2} \ F,
           CopiesAfter(a, s, F), Copy(f) \in Fds \X Fds
    PROVE  /\ f \in TargetsOf(a) => CopiesAfter(a, s, F \cup {f})
           /\ f \notin TargetsOf(a) => CopiesAfter(a, s \o <<Copy(f)>>, F \cup {f})
<1>1. CASE f \in TargetsOf(a)
  <2>1. (F \cup {f}) \ TargetsOf(a) = F \ TargetsOf(a)
    BY <1>1
  <2> QED  BY <1>1, <2>1 DEF CopiesAfter
<1>2. CASE f \notin TargetsOf(a)
  <2> DEFINE t == s \o <<Copy(f)>>
  <2>1. Len(s) \in Nat /\ Len(a) \in Nat /\ DOMAIN s = 1..Len(s) /\ DOMAIN a = 1..Len(a)
    OBVIOUS
  <2>2. /\ t \in Seq(Fds \X Fds) /\ Len(t) = Len(s) + 1 /\ DOMAIN t = 1 .. Len(s) + 1
        /\ t[Len(s) + 1] = Copy(f)
        /\ \A i \in 1..Len(s) : t[i] = s[i]
    OBVIOUS
  <2> HIDE DEF t
  <2>3. Len(a) <= Len(t) /\ \A i \in DOMAIN a : t[i] = a[i]
    BY <2>1, <2>2 DEF CopiesAfter
  <2>4. ASSUME NEW i \in DOMAIN t, i > Len(a)
        PROVE  \E g \in (F \cup {f}) \ TargetsOf(a) : t[i] = Copy(g)
    <3>1. CASE i = Len(s) + 1
      BY <3>1, <1>2, <2>2
    <3>2. CASE i \in DOMAIN s
      BY <3>2, <2>1, <2>2, <2>4 DEF CopiesAfter
    <3> QED  BY <2>1, <2>2, <3>1, <3>2
  <2>5. ASSUME NEW j \in DOMAIN t, t[j][1] = f PROVE j = Len(s) + 1
    <3>1. SUFFICES ASSUME j \in DOMAIN s PROVE FALSE
      BY <2>1, <2>2
    <3>2. CASE j <= Len(a)
      BY <3>1, <3>2, <1>2, <2>1, <2>2, <2>3, <2>5 DEF TargetsOf
    <3>3. CASE j > Len(a)
      <4>1. PICK g \in F \ TargetsOf(a) : s[j] = Copy(g)
        BY <3>1, <3>3, <2>1 DEF CopiesAfter
      <4> QED  BY <4>1, <3>1, <2>1, <2>2, <2>5 DEF Copy
    <3> QED  BY <3>2, <3>3, <2>1, <3>1
  <2>6. ASSUME NEW g \in (F \cup {f}) \ TargetsOf(a)
        PROVE  \E i \in DOMAIN t : t[i] = Copy(g) /\ \A j \in DOMAIN t : t[j][1] = g => j = i
    <3>1. CASE g = f
      <4>1. Len(s) + 1 \in DOMAIN t
        BY <2>1, <2>2
      <4> QED  BY <3>1, <4>1, <2>2, <2>5
    <3>2. CASE g # f
      <4>1. PICK i \in DOMAIN s : s[i] = Copy(g) /\ \A j \in DOMAIN s : s[j][1] = g => j = i
        BY <3>2 DEF CopiesAfter
      <4>2. i \in DOMAIN t /\ t[i] = Copy(g)
        BY <4>1, <2>1, <2>2
      <4>3. ASSUME NEW j \in DOMAIN t, t[j][1] = g PROVE j = i
        <5>1. j # Len(s) + 1
          <6>1. SUFFICES ASSUME j = Len(s) + 1 PROVE FALSE
            OBVIOUS
          <6>2. t[j] = Copy(f)
            BY <6>1, <2>2
          <6>3. t[j][1] = f
            BY <6>2 DEF Copy
          <6> QED  BY <4>3, <3>2, <6>3
        <5>2. j \in DOMAIN s /\ t[j] = s[j]
          BY <5>1, <2>1, <2>2
        <5>3. s[j][1] = g
          BY <5>2, <4>3
        <5> QED  BY <5>2, <5>3, <4>1
      <4> QED  BY <4>2, <4>3
    <3> QED  BY <3>1, <3>2
  <2>7. CopiesAfter(a, t, F \cup {f})
    BY <2>3, <2>4, <2>6 DEF CopiesAfter
  <2> QED  BY <1>2, <2>7 DEF t
<1> QED  BY <1>1, <1>2

LEMMA TakeOrdered ==
    ASSUME Parameters, FdsTypeOK, Std, Tables, TakeOriginalStdoutStderr
    PROVE  Ordered'
<1>1. /\ phase = "options" /\ asked' = assign_fds /\ saved' = saved
      /\ assign_fds' = assign_fds \o Original(1) \o Original(2)
  BY DEF TakeOriginalStdoutStderr
<1>2. \A f \in {1, 2} : saved[f] # Closed /\ Copy(f) \in Fds \X Fds
  BY <1>1 DEF Tables, Copies, FdsTypeOK, Copy, Fds, Parameters
<1>3. assign_fds \in Seq(Fds \X Fds)
  BY DEF FdsTypeOK
<1>4. CopiesAfter(assign_fds, assign_fds, {})
  <2>1. DOMAIN assign_fds = 1..Len(assign_fds) /\ Len(assign_fds) \in Nat
    BY <1>3
  <2> QED  BY <2>1 DEF CopiesAfter
<1>5. ASSUME NEW f \in {1, 2}
      PROVE  Original(f) = IF f \in TargetsOf(assign_fds) THEN <<>> ELSE <<Copy(f)>>
  BY <1>2 DEF Original, Taken, Targets, TargetsOf, Copy
<1>6. \A s \in Seq(Fds \X Fds) : s \o <<>> = s
  OBVIOUS
<1>7. CopiesAfter(assign_fds, assign_fds \o Original(1), {} \cup {1})
  BY <1>2, <1>3, <1>4, <1>5, <1>6, AppendedCopy
<1>8. assign_fds \o Original(1) \in Seq(Fds \X Fds)
  BY <1>3, Originals
<1>9. CopiesAfter(assign_fds, (assign_fds \o Original(1)) \o Original(2), {1} \cup {2})
  <2> DEFINE s == assign_fds \o Original(1)
  <2>1. s \in Seq(Fds \X Fds) /\ s \o <<>> = s /\ CopiesAfter(assign_fds, s, {1})
    BY <1>6, <1>7, <1>8
  <2> HIDE DEF s
  <2>2. {1} \in SUBSET {1, 2} /\ 2 \in {1, 2} \ {1} /\ Copy(2) \in Fds \X Fds
    BY <1>2
  <2>3. /\ 2 \in TargetsOf(assign_fds) => CopiesAfter(assign_fds, s, {1} \cup {2})
        /\ 2 \notin TargetsOf(assign_fds) =>
              CopiesAfter(assign_fds, s \o <<Copy(2)>>, {1} \cup {2})
    BY <1>3, <2>1, <2>2, AppendedCopy
  <2>4. CopiesAfter(assign_fds, s \o Original(2), {1} \cup {2})
    BY <1>5, <2>1, <2>3
  <2> QED  BY <2>4 DEF s
<1>10. {1} \cup {2} = {1, 2}
  OBVIOUS
<1>11. CopiesAfter(asked', assign_fds', {1, 2})
  BY <1>1, <1>9, <1>10
<1> QED  BY <1>1, <1>11 DEF Ordered, CopiesAfter, Copy

LEMMA TakeTables ==
    ASSUME Parameters, FdsTypeOK, FdsTypeOK', Std, Tables, TakeOriginalStdoutStderr
    PROVE  Tables'
<1> DEFINE unused == {saved[g] : g \in {h \in {1, 2} : ~Taken(h)}}
<1>1. /\ phase = "options" /\ phase' = "spawn" /\ asked' = assign_fds
      /\ UNCHANGED <<start, saved, own, pass_fds, locks>>
      /\ open_fds' = [f \in Fds |-> IF f \in unused THEN Closed ELSE open_fds[f]]
      /\ cloexec' = cloexec \ unused
  BY DEF TakeOriginalStdoutStderr
<1>2. \A g \in {1, 2} : /\ saved[g] # Closed /\ saved[g] \in own
                        /\ open_fds[saved[g]] = g /\ saved[g] \in cloexec
  BY <1>1 DEF Tables, Copies, Late
<1>3. \A g \in {1, 2} : Taken(g) <=> g \notin AskedTargets'
  BY <1>1, <1>2 DEF Taken, Targets, AskedTargets
<1>4. unused \subseteq own /\ unused \subseteq Saves
  BY <1>2 DEF Saves
<1>5. \A g \in {1, 2} : saved[g] \in unused <=> g \in AskedTargets'
  <2>1. saved[1] # saved[2]
    BY <1>2 DEF Tables, Copies
  <2> QED  BY <2>1, <1>3
<1> HIDE DEF unused
<1>6. own \subseteq 3..MaxFd /\ own \subseteq Fds /\ locks \subseteq Fds /\ pass_fds \subseteq Fds
  BY DEF Tables, Numbers, FdsTypeOK
<1>7. \A f \in Fds : f \notin unused => open_fds'[f] = open_fds[f]
  BY <1>1
<1>8. {0, 1, 2} \subseteq Fds /\ 3..MaxFd \subseteq Fds /\ {0, 1, 2} \cap 3..MaxFd = {}
  BY DEF Fds, Parameters
<1>9. Numbers'
  <2>1. open_fds'[0] = 0 /\ open_fds'[1] = 2 /\ open_fds'[2] = 2
    BY <1>1, <1>4, <1>6, <1>7, <1>8 DEF Tables, Numbers
  <2>2. \A f \in 3..MaxFd \ own : open_fds'[f] = IF f \in start THEN f ELSE Closed
    BY <1>4, <1>7, <1>8 DEF Tables, Numbers
  <2>3. \A f \in own : f \in Saves \/ (f \in locks /\ open_fds'[f] = LockFile)
    BY <1>4, <1>6, <1>7 DEF Tables, Numbers
  <2> QED  BY <1>1, <2>1, <2>2, <2>3 DEF Tables, Numbers, Saves
<1>10. Kept'
  <2>1. \A f \in locks : f \in Saves \/ (f \in cloexec' /\ open_fds'[f] # Closed)
    BY <1>1, <1>4, <1>6, <1>7 DEF Tables, Kept
  <2> QED  BY <1>1, <2>1 DEF Tables, Kept, Saves
<1>11. Copies'
  <2>1. ASSUME NEW f \in {1, 2}
        PROVE  IF f \in AskedTargets' THEN open_fds'[saved[f]] = Closed
               ELSE open_fds'[saved[f]] = f /\ saved[f] \in cloexec'
    <3>1. saved[f] \in Fds
      BY <1>2, <1>6
    <3> QED  BY <3>1, <1>1, <1>2, <1>5
  <2>2. saved[1] # saved[2]
    BY <1>2 DEF Tables, Copies
  <2> QED  BY <1>1, <1>2, <2>1, <2>2 DEF Copies, Late
<1>12. Named'
  <2>1. \A f \in Fds : (f \in own \/ open_fds[f] # Closed) => (f \in own \/ open_fds'[f] # Closed)
    BY <1>4, <1>7
  <2>2. \A i \in DOMAIN assign_fds : assign_fds[i][2] \in Fds
    BY DEF FdsTypeOK
  <2> QED  BY <1>1, <1>6, <2>1, <2>2 DEF Tables, Named, Usable, Early, Late
<1> QED  BY <1>9, <1>10, <1>11, <1>12 DEF Tables

-----------------------------------------------------------------------------
(* The child.                                                              *)
supervisorVars == <<start, tableVars, saved, own, optionVars, asked>>

\* Nothing that it does is seen by the supervisor.
LEMMA ChildFrame ==
    ASSUME FdsTypeOK, Std, Tables, Ordered, phase \in Late, phase' \in Late,
           UNCHANGED supervisorVars
    PROVE  Tables' /\ Ordered' /\ (Plain' <=> Plain)
<1> USE DEF supervisorVars, tableVars, optionVars
<1>1. Numbers' /\ Kept'
  BY DEF Tables, Numbers, Kept, Saves, Late
<1>2. Copies'
  BY DEF Tables, Copies, Late, AskedTargets
<1>3. Named'
  BY DEF Tables, Named, Usable, Early, Late
<1>4. Ordered'
  BY DEF Ordered, CopiesAfter, Copy, TargetsOf
<1>5. Plain' <=> Plain
  BY DEF Plain, AskedSources, AskedTargets
<1> QED  BY <1>1, <1>2, <1>3, <1>4, <1>5 DEF Tables

\* What the command line named is where it was at the beginning.
LEMMA NamedFile ==
    ASSUME Parameters, FdsTypeOK, Std, Tables, phase \in Late, Plain
    PROVE  /\ \A f \in pass_fds : f # 1 => open_fds[f] = f
           /\ \A i \in DOMAIN asked : open_fds[asked[i][2]] = asked[i][2]
<1>1. ASSUME NEW f \in Fds, f \notin own, f # 1, open_fds[f] # Closed
      PROVE  open_fds[f] = f
  <2>1. f \in {0, 2} \/ f \in 3..MaxFd
    BY <1>1 DEF Fds, Parameters
  <2> QED  BY <1>1, <2>1 DEF Tables, Numbers
<1>2. ASSUME NEW f \in pass_fds, f # 1 PROVE open_fds[f] = f
  BY <1>1, <1>2 DEF Plain, Tables, Named, Usable, FdsTypeOK
<1>3. ASSUME NEW i \in DOMAIN asked PROVE open_fds[asked[i][2]] = asked[i][2]
  <2>1. asked[i][2] \in Fds /\ asked[i][2] \in AskedSources
    BY DEF FdsTypeOK, AskedSources
  <2>2. asked[i][2] \notin own /\ asked[i][2] # 1
    BY <2>1 DEF Plain
  <2>3. open_fds[asked[i][2]] # Closed
    BY <2>2 DEF Tables, Named, Usable
  <2> QED  BY <1>1, <2>1, <2>2, <2>3
<1> QED  BY <1>2, <1>3

\* No assignment destroys the source of a later one.
LEMMA NoClobber ==
    ASSUME Parameters, FdsTypeOK, Std, Tables, Ordered, phase \in Late, Plain,
           NEW i \in DOMAIN assign_fds, NEW j \in DOMAIN assign_fds, j <= i
    PROVE  assign_fds[j][1] # assign_fds[i][2]
<1> USE DEF FdsTypeOK
<1>1. Len(asked) \in Nat /\ Len(assign_fds) \in Nat
  OBVIOUS
<1>2. \A k \in DOMAIN assign_fds : k <= Len(asked) =>
         k \in DOMAIN asked /\ assign_fds[k] = asked[k]
  BY <1>1 DEF Ordered, CopiesAfter
<1>3. \A k \in DOMAIN assign_fds : k > Len(asked) =>
         assign_fds[k][1] \in {1, 2} /\ assign_fds[k][2] \in own
  BY DEF Ordered, CopiesAfter, Copy, Tables, Copies, Late
<1>4. own \cap {1, 2} = {}
  BY DEF Tables, Numbers
<1>5. /\ AskedSources \cap AskedTargets = {} /\ own \cap AskedTargets = {}
      /\ 1 \notin AskedSources
  BY DEF Plain
<1>6. CASE i <= Len(asked)
  <2>1. assign_fds[i][2] \in AskedSources
    BY <1>2, <1>6 DEF AskedSources
  <2>2. assign_fds[j][1] \in AskedTargets
    <3>1. j \in Nat /\ i \in Nat /\ j <= Len(asked)
      BY <1>1, <1>6
    <3> QED  BY <1>2, <3>1 DEF AskedTargets
  <2> QED  BY <2>1, <2>2, <1>5
<1>7. CASE i > Len(asked)
  <2>1. assign_fds[i][2] \in own
    BY <1>3, <1>7
  <2>2. CASE j <= Len(asked)
    <3>1. assign_fds[j][1] \in AskedTargets
      BY <1>2, <2>2 DEF AskedTargets
    <3> QED  BY <2>1, <3>1, <1>5
  <2>3. CASE j > Len(asked)
    BY <1>3, <1>4, <2>1, <2>3
  <2> QED  BY <1>1, <2>2, <2>3
<1> QED  BY <1>1, <1>6, <1>7

LEMMA AssignsKeeps ==
    ASSUME Parameters, FdsTypeOK, FdsTypeOK', Std, Tables, Ordered, Plain, Assigned,
           phase' = "assign", ChildAssigns
    PROVE  Assigned'
<1> DEFINE target == assign_fds[step][1]
           source == assign_fds[step][2]
<1>1. /\ phase = "assign" /\ UNCHANGED supervisorVars
      /\ child' = [child EXCEPT ![target] = child[source]]
      /\ child_cloexec' = IF target = source THEN child_cloexec
                           ELSE child_cloexec \ {target}
      /\ step' = step + 1 /\ step <= Len(assign_fds)
  BY DEF ChildAssigns, ChildStep, supervisorVars
<1>2. /\ step \in DOMAIN assign_fds /\ step \in Nat /\ Len(assign_fds) \in Nat
      /\ Done \subseteq DOMAIN assign_fds
      /\ target \in Fds /\ source \in Fds /\ child \in [Fds -> Contents]
      /\ \A i \in Done : i < step
  BY <1>1 DEF FdsTypeOK, Done
<1>3. (\A i \in Done : assign_fds[i][1] # source) /\ target # source
  BY <1>1, <1>2, NoClobber DEF Late
<1>4. Done' = Done \cup {step} /\ step \notin Done
  BY <1>1, <1>2 DEF Done
<1> HIDE DEF target, source
<1>5. child[source] = open_fds[source]
  BY <1>2, <1>3 DEF Assigned
<1>6. open_fds' = open_fds /\ assign_fds' = assign_fds /\ Withheld' = Withheld
  BY <1>1 DEF supervisorVars, tableVars, optionVars, Withheld
<1>7. child'[target] = open_fds[source] /\ \A f \in Fds : f # target => child'[f] = child[f]
  BY <1>1, <1>2, <1>5
<1>8. ASSUME NEW f \in Fds, \A i \in Done' : assign_fds[i][1] # f PROVE child'[f] = open_fds[f]
  BY <1>4, <1>7, <1>8 DEF Assigned, target
<1>9. ASSUME NEW i \in Done', \A j \in Done' : assign_fds[j][1] = assign_fds[i][1] => j <= i
      PROVE  child'[assign_fds[i][1]] = open_fds[assign_fds[i][2]]
  <2>1. CASE i = step
    BY <2>1, <1>7 DEF target, source
  <2>2. CASE i \in Done
    <3>1. assign_fds[i][1] # target
      BY <2>2, <1>2, <1>4, <1>9 DEF target
    <3>2. assign_fds[i][1] \in Fds
      BY <2>2, <1>2 DEF FdsTypeOK
    <3>3. child[assign_fds[i][1]] = open_fds[assign_fds[i][2]]
      BY <2>2, <1>4, <1>9 DEF Assigned
    <3> QED  BY <3>1, <3>2, <3>3, <1>7
  <2> QED  BY <2>1, <2>2, <1>4
<1>10. child_cloexec' = Withheld \ {assign_fds[i][1] : i \in Done'}
  <2>1. child_cloexec' = child_cloexec \ {target}
    BY <1>1, <1>3
  <2>2. {assign_fds[i][1] : i \in Done'} = {assign_fds[i][1] : i \in Done} \cup {target}
    BY <1>4 DEF target
  <2> QED  BY <2>1, <2>2 DEF Assigned
<1> QED  BY <1>6, <1>8, <1>9, <1>10 DEF Assigned

\* What becomes of a number that nothing has been assigned to.
LEMMA Untouched ==
    ASSUME Parameters, FdsTypeOK, Std, Tables, phase \in Late, Plain,
           NEW f \in 3..MaxFd
    PROVE  Wanted(f) = IF f \in Withheld THEN Closed ELSE open_fds[f]
<1>1. f \in Fds /\ f \notin 0..2 /\ f # 1
  BY DEF Fds, Parameters
<1>2. CASE f \in pass_fds
  <2>1. open_fds[f] = f /\ f \notin Withheld
    BY <1>1, <1>2, NamedFile DEF Withheld
  <2>2. Wanted(f) = f
    BY <1>1, <1>2 DEF Wanted
  <2> QED  BY <2>1, <2>2
<1>3. CASE f \notin pass_fds
  <2>1. Wanted(f) = IF f \in start /\ f \notin locks /\ ~close_fds THEN f ELSE Closed
    BY <1>1, <1>3 DEF Wanted
  <2>2. f \in Withheld <=> f \in cloexec \/ close_fds
    BY <1>3 DEF Withheld
  <2>3. f \in locks => f \in cloexec
    BY DEF Plain, Saves, Tables, Kept
  <2>4. f \in own => f \notin start /\ (f \in cloexec \/ open_fds[f] = Closed)
    <3>1. SUFFICES ASSUME f \in own PROVE f \notin start /\ (f \in cloexec \/ open_fds[f] = Closed)
      OBVIOUS
    <3>2. f \notin start
      BY <3>1 DEF Tables, Numbers
    <3>3. CASE f \in Saves
      <4>1. PICK g \in {1, 2} : f = saved[g]
        BY <3>3 DEF Saves
      <4>2. saved[g] # Closed
        BY <4>1, <1>1 DEF Closed, Fds, Parameters
      <4> QED  BY <3>2, <4>1, <4>2 DEF Tables, Copies
    <3>4. CASE f \in locks
      BY <3>2, <3>4, <2>3
    <3> QED  BY <3>1, <3>3, <3>4 DEF Tables, Numbers
  <2>5. f \notin own => (f \in cloexec => f \in locks) /\ open_fds[f] = IF f \in start THEN f ELSE Closed
    BY DEF Tables, Kept, Numbers
  <2> QED  BY <2>1, <2>2, <2>3, <2>4, <2>5
<1> QED  BY <1>2, <1>3

LEMMA ExecAsAsked ==
    ASSUME Parameters, FdsTypeOK, FdsTypeOK', Std, Tables, Ordered, Plain, Assigned, ChildExecs
    PROVE  ChildAsAsked'
<1>1. /\ phase = "assign" /\ UNCHANGED supervisorVars
      /\ child' = [f \in Fds |-> IF f \in child_cloexec THEN Closed ELSE child[f]]
      /\ step > Len(assign_fds) /\ phase \in Late
  BY DEF ChildExecs, ChildStep, supervisorVars, Late
<1>2. /\ Done = DOMAIN assign_fds /\ Len(assign_fds) \in Nat /\ Len(asked) \in Nat
      /\ DOMAIN asked = 1..Len(asked) /\ DOMAIN assign_fds = 1..Len(assign_fds)
  BY <1>1 DEF FdsTypeOK, Done
<1>3. \A i \in DOMAIN asked : i \in DOMAIN assign_fds /\ assign_fds[i] = asked[i]
  BY <1>2 DEF Ordered, CopiesAfter
<1>4. TargetsOf(asked) = AskedTargets
  BY DEF TargetsOf, AskedTargets
<1>5. \A i \in DOMAIN assign_fds \ DOMAIN asked :
         \E g \in {1, 2} \ AskedTargets : assign_fds[i] = Copy(g)
  BY <1>2, <1>4 DEF Ordered, CopiesAfter
<1>6. ASSUME NEW i \in DOMAIN asked, Counts(i) PROVE child'[asked[i][1]] = asked[i][2]
  <2>1. asked[i][1] \in Fds /\ asked[i][1] \in AskedTargets
    BY DEF FdsTypeOK, AskedTargets
  <2>2. ASSUME NEW j \in DOMAIN assign_fds, assign_fds[j][1] = assign_fds[i][1]
        PROVE  j <= i
    <3>1. j \in DOMAIN asked
      <4>1. SUFFICES ASSUME j \notin DOMAIN asked PROVE FALSE
        OBVIOUS
      <4>2. PICK g \in {1, 2} \ AskedTargets : assign_fds[j] = Copy(g)
        BY <4>1, <1>5
      <4> QED  BY <4>2, <2>1, <2>2, <1>3 DEF Copy
    <3> QED  BY <3>1, <1>3, <1>6, <2>2 DEF Counts
  <2>3. child[asked[i][1]] = open_fds[asked[i][2]]
    BY <2>2, <1>2, <1>3 DEF Assigned
  <2>4. asked[i][1] \notin child_cloexec
    BY <1>2, <1>3 DEF Assigned
  <2> QED  BY <1>1, <2>1, <2>3, <2>4, NamedFile
<1>7. ASSUME NEW f \in Fds \ AskedTargets PROVE child'[f] = Wanted(f)
  <2>1. \A i \in DOMAIN asked : assign_fds[i][1] # f
    BY <1>3 DEF AskedTargets
  <2>2. CASE f \in {1, 2}
    <3>1. PICK i \in DOMAIN assign_fds :
             assign_fds[i] = Copy(f) /\ \A j \in DOMAIN assign_fds : assign_fds[j][1] = f => j = i
      BY <2>2, <1>4 DEF Ordered, CopiesAfter
    <3>2. assign_fds[i][1] = f /\ assign_fds[i][2] = saved[f]
      BY <3>1 DEF Copy
    <3>3. child[f] = open_fds[saved[f]]
      <4>1. \A j \in Done : assign_fds[j][1] = assign_fds[i][1] => j <= i
        BY <3>1, <3>2, <1>2
      <4> QED  BY <3>2, <4>1, <1>2 DEF Assigned
    <3>4. f \notin child_cloexec
      BY <3>2, <1>2 DEF Assigned
    <3>5. open_fds[saved[f]] = f
      BY <2>2, <1>1, <1>7 DEF Tables, Copies, Late
    <3>6. Wanted(f) = f
      BY <2>2 DEF Wanted
    <3> QED  BY <3>3, <3>4, <3>5, <3>6, <1>1
  <2>3. CASE f \notin {1, 2}
    <3>1. \A i \in Done : assign_fds[i][1] # f
      <4>1. \A i \in DOMAIN assign_fds \ DOMAIN asked : assign_fds[i][1] \in {1, 2}
        BY <1>5 DEF Copy
      <4> QED  BY <4>1, <2>1, <2>3, <1>2
    <3>2. child[f] = open_fds[f] /\ (f \in child_cloexec <=> f \in Withheld)
      BY <3>1 DEF Assigned
    <3>3. child'[f] = IF f \in Withheld THEN Closed ELSE open_fds[f]
      BY <3>2, <1>1
    <3>4. CASE f = 0
      <4>1. f \notin cloexec
        BY <3>4 DEF Plain, Tables, Kept, Numbers
      <4>2. f \notin Withheld
        BY <3>4, <4>1 DEF Withheld
      <4>3. Wanted(f) = 0 /\ open_fds[f] = 0
        BY <3>4 DEF Wanted, Tables, Numbers
      <4> QED  BY <3>3, <4>2, <4>3
    <3>5. CASE f \in 3..MaxFd
      BY <3>3, <3>5, <1>1, Untouched
    <3> QED  BY <2>3, <3>4, <3>5 DEF Fds, Parameters
  <2> QED  BY <2>2, <2>3
<1>8. /\ asked' = asked /\ pass_fds' = pass_fds /\ start' = start
      /\ locks' = locks /\ close_fds' = close_fds
  BY <1>1 DEF supervisorVars, optionVars
<1>9. AskedTargets' = AskedTargets /\ \A f \in Fds : Wanted(f)' = Wanted(f)
  BY <1>8 DEF AskedTargets, Wanted
<1>10. \A i \in DOMAIN asked : Counts(i)' = Counts(i)
  BY <1>8 DEF Counts
<1> QED  BY <1>6, <1>7, <1>8, <1>9, <1>10 DEF ChildAsAsked

-----------------------------------------------------------------------------
(* The supervisor lets go.                                                 *)
LEMMA LetGoAsAsked ==
    ASSUME Parameters, FdsTypeOK, FdsTypeOK', Std, Tables, Ordered, Plain, LetGo
    PROVE  SupervisorAsAsked'
<1>1. /\ phase = "let_go" /\ phase \in Late
      /\ open_fds' = [f \in Fds |-> IF f \in ToClose THEN Closed ELSE open_fds[f]]
      /\ UNCHANGED <<locks, asked, pass_fds>>
  BY DEF LetGo, optionVars, Late
<1>2. AskedSources \subseteq Sources /\ AskedSources \subseteq Fds
  <2>1. \A i \in DOMAIN asked : i \in DOMAIN assign_fds /\ assign_fds[i] = asked[i]
    BY DEF FdsTypeOK, Ordered, CopiesAfter
  <2> QED  BY <2>1 DEF AskedSources, Sources, FdsTypeOK
<1>3. Given \subseteq ToClose /\ Given' = Given
  BY <1>1, <1>2 DEF Given, ToClose, AskedSources
<1>4. \A g \in {1, 2} : open_fds[saved[g]] = Closed \/ saved[g] \in ToClose
  <2>1. SUFFICES ASSUME NEW g \in {1, 2}, g \notin AskedTargets PROVE saved[g] \in ToClose
    BY <1>1 DEF Tables, Copies, Late
  <2>2. PICK i \in DOMAIN assign_fds : assign_fds[i] = Copy(g)
    BY <2>1 DEF Ordered, CopiesAfter, TargetsOf, AskedTargets
  <2>3. saved[g] \in Sources
    BY <2>2 DEF Sources, Copy
  <2>4. saved[g] \in 3..MaxFd
    BY <1>1 DEF Tables, Copies, Numbers, Late
  <2> QED  BY <2>3, <2>4 DEF ToClose
<1>5. ASSUME NEW f \in locks PROVE open_fds'[f] # Closed
  <2>1. f \in Fds /\ f \notin pass_fds /\ f \notin AskedSources /\ f \notin Saves
    BY DEF FdsTypeOK, Plain, Saves
  <2>2. f \notin Sources
    <3>1. SUFFICES ASSUME NEW i \in DOMAIN assign_fds, assign_fds[i][2] = f PROVE FALSE
      BY DEF Sources
    <3>2. CASE i <= Len(asked)
      <4>1. i \in DOMAIN asked /\ assign_fds[i] = asked[i]
        BY <3>2 DEF FdsTypeOK, Ordered, CopiesAfter
      <4> QED  BY <4>1, <3>1, <2>1 DEF AskedSources
    <3>3. CASE i > Len(asked)
      <4>1. PICK g \in {1, 2} : assign_fds[i] = Copy(g)
        BY <3>3 DEF Ordered, CopiesAfter
      <4> QED  BY <4>1, <3>1, <2>1 DEF Copy, Saves
    <3> QED  BY <3>2, <3>3 DEF FdsTypeOK
  <2>3. open_fds[f] # Closed
    BY <2>1 DEF Tables, Kept
  <2> QED  BY <1>1, <2>1, <2>2, <2>3 DEF ToClose
<1>6. ASSUME NEW f \in Fds PROVE open_fds'[f] # 1 /\ open_fds'[f] \notin Given
  <2> USE DEF Given, Closed
  <2>1. CASE f \in ToClose
    BY <1>1, <2>1
  <2>2. CASE f \notin ToClose
    <3>1. open_fds'[f] = open_fds[f]
      BY <1>1, <2>2
    <3>2. CASE f \in 0..2
      BY <1>1, <3>1, <3>2 DEF Tables, Numbers
    <3>3. CASE f \in 3..MaxFd \ own
      BY <1>3, <2>2, <3>1, <3>3 DEF Tables, Numbers
    <3>4. CASE f \in own /\ f \in Saves
      BY <1>4, <2>2, <3>1, <3>4 DEF Saves
    <3>5. CASE f \in own /\ open_fds[f] = LockFile
      <4>1. LockFile # 1 /\ LockFile \notin Fds
        BY DEF LockFile, Fds, Parameters
      <4> QED  BY <1>2, <3>1, <3>5, <4>1 DEF FdsTypeOK
    <3> QED  BY <3>2, <3>3, <3>4, <3>5 DEF Tables, Numbers, Fds, Parameters
  <2> QED  BY <2>1, <2>2
<1> QED  BY <1>1, <1>3, <1>5, <1>6 DEF SupervisorAsAsked

-----------------------------------------------------------------------------
(* The invariant.                                                          *)
LEMMA InitInv == ASSUME Parameters, FdsInit PROVE FdsInv
<1>1. FdsTypeOK
  BY FdsTypeInit
<1>2. Std => Tables
  BY InitTables
<1>3. ChildOK
  BY DEF FdsInit, ChildOK
<1> QED  BY <1>1, <1>2, <1>3 DEF FdsInv, FdsInit, Late

Log  == EnsureStdin \/ SetUpStdout \/ SetUpStderr \/ DivertStdout
More == OpenLockFile \/ CloseFds \/ \E target, f \in Nameable :
                                       AssignFd(target, f) \/ PassFd(f) \/ LockFd(f)

\* Before fork() there is no child yet.
LEMMA EarlyStep ==
    ASSUME Parameters, FdsInv, FdsTypeOK', Log \/ More
    PROVE  FdsInv'
<1>1. /\ phase \in Early /\ phase' \in Early \cup {"failed"}
      /\ start' = start /\ step' = step
  BY DEF Log, More, Early, EnsureStdin, SetUpStdout, SetUpStderr, SetUpOutput,
         DivertStdout, OpenLockFile, CloseFds, AssignFd, PassFd, LockFd, Option, childVars
<1>2. (Std' <=> Std) /\ step = 1
  BY <1>1 DEF Std, FdsInv, ChildOK
<1>3. ASSUME Std, phase' # "failed" PROVE Tables'
  <2>1. FdsTypeOK /\ Tables
    BY <1>1, <1>3 DEF FdsInv
  <2>2. CASE EnsureStdin
    BY <1>3, <2>1, <2>2, EnsureTables
  <2>3. CASE SetUpStdout \/ SetUpStderr
    BY <1>3, <2>1, <2>3, SetUpTables
  <2>4. CASE DivertStdout
    BY <1>3, <2>1, <2>4, DivertTables
  <2>5. CASE OpenLockFile
    BY <1>3, <2>1, <2>5, LockFileTables
  <2>6. CASE CloseFds
    BY <1>3, <2>1, <2>6, CloseFdsTables
  <2>7. CASE \E target, f \in Nameable : AssignFd(target, f) \/ PassFd(f) \/ LockFd(f)
    BY <1>3, <2>1, <2>7, NamingTables
  <2> QED  BY <2>2, <2>3, <2>4, <2>5, <2>6, <2>7 DEF Log, More
<1>4. phase' \notin Late /\ phase' # "running"
  BY <1>1 DEF Early, Late
<1>5. ChildOK'
  BY <1>1, <1>2 DEF ChildOK, Early
<1>6. phase' \in Early \cup Late => phase' # "failed"
  BY DEF Early, Late
<1> QED  BY <1>2, <1>3, <1>4, <1>5, <1>6 DEF FdsInv

LEMMA TakeStep ==
    ASSUME Parameters, FdsInv, FdsTypeOK', TakeOriginalStdoutStderr
    PROVE  FdsInv'
<1>1. phase \in Early /\ phase' = "spawn" /\ start' = start /\ step' = step
  BY DEF TakeOriginalStdoutStderr, Early, childVars
<1>2. (Std' <=> Std) /\ step = 1
  BY <1>1 DEF Std, FdsInv, ChildOK
<1>3. ASSUME Std PROVE Tables' /\ Ordered'
  <2>1. FdsTypeOK /\ Tables
    BY <1>1, <1>3 DEF FdsInv
  <2> QED  BY <1>3, <2>1, TakeTables, TakeOrdered
<1>4. ChildOK'
  BY <1>1, <1>2 DEF ChildOK, Early
<1> QED  BY <1>1, <1>2, <1>3, <1>4 DEF FdsInv

\* In the child.
LEMMA ChildStepInv ==
    ASSUME Parameters, FdsInv, FdsTypeOK',
           Spawn \/ ChildCloses \/ ChildPasses \/ ChildAssigns \/ ChildExecs
    PROVE  FdsInv'
<1>1. /\ phase \in Late /\ phase' \in Late \cup {"failed"} /\ UNCHANGED supervisorVars
      /\ phase # "let_go" /\ phase' # "spawn"
  BY DEF Late, Spawn, ChildCloses, ChildPasses, ChildAssigns, ChildExecs, ChildStep,
         supervisorVars
<1>2. Std' <=> Std
  BY <1>1 DEF Std, supervisorVars
<1>3. Plain => Std
  BY DEF Plain, Std
<1>4. Std => FdsTypeOK /\ Tables /\ Ordered
  BY <1>1 DEF FdsInv
<1>5. CASE phase' = "failed"
  BY <1>5 DEF FdsInv, ChildOK, Early, Late
<1>6. CASE phase' # "failed"
  <2>1. phase' \in Late
    BY <1>1, <1>6
  <2>2. Std => Tables' /\ Ordered' /\ (Plain' <=> Plain)
    BY <1>1, <1>4, <2>1, ChildFrame
  <2>3. Plain' => Plain
    <3>1. Plain' => Std'
      BY DEF Plain, Std
    <3> QED  BY <1>2, <2>2, <3>1
  <2>4. ChildOK'
    <3> USE DEF ChildOK, Early, Late
    <3>1. CASE Spawn
      BY <3>1 DEF Spawn, tableVars, FdsInv
    <3>2. CASE ChildCloses
      BY <3>2 DEF ChildCloses, ChildStep, tableVars, optionVars, FdsInv
    <3>3. CASE ChildPasses
      <4>1. /\ phase = "pass" /\ phase' = "assign" /\ child' = open_fds' /\ step' = 1
            /\ child_cloexec' = Withheld'
        BY <3>3, <1>6 DEF ChildPasses, ChildStep, tableVars, optionVars, FdsInv, Withheld
      <4>2. Done' = {}
        BY <4>1 DEF Done
      <4>3. Assigned'
        BY <4>1, <4>2 DEF Assigned
      <4> QED  BY <4>1, <4>3
    <3>4. CASE ChildAssigns
      <4>1. phase = "assign" /\ phase' = "assign"
        BY <3>4, <1>6 DEF ChildAssigns, ChildStep
      <4>2. ASSUME Plain' PROVE Assigned'
        <5>1. Plain /\ Std /\ Assigned
          BY <1>3, <2>3, <4>1, <4>2 DEF FdsInv
        <5> QED  BY <5>1, <1>4, <3>4, <4>1, AssignsKeeps
      <4> QED  BY <4>1, <4>2
    <3>5. CASE ChildExecs
      <4>1. phase = "assign" /\ phase' = "let_go"
        BY <3>5 DEF ChildExecs, ChildStep
      <4>2. ASSUME Plain' PROVE ChildAsAsked'
        <5>1. Plain /\ Std /\ Assigned
          BY <1>3, <2>3, <4>1, <4>2 DEF FdsInv
        <5> QED  BY <5>1, <1>4, <3>5, ExecAsAsked
      <4> QED  BY <4>1, <4>2
    <3> QED  BY <3>1, <3>2, <3>3, <3>4, <3>5
  <2> QED  BY <1>2, <2>1, <2>2, <2>4 DEF FdsInv, Late
<1> QED  BY <1>5, <1>6

LEMMA LetGoStep ==
    ASSUME Parameters, FdsInv, FdsTypeOK', LetGo
    PROVE  FdsInv'
<1>1. /\ phase = "let_go" /\ phase' = "running"
      /\ UNCHANGED <<start, saved, own, optionVars, asked, childVars>>
  BY DEF LetGo
<1>2. (Plain' <=> Plain) /\ (Plain => Std)
  BY <1>1 DEF Plain, Std, AskedSources, AskedTargets, optionVars
<1>3. ASSUME Plain PROVE ChildAsAsked' /\ SupervisorAsAsked'
  <2>1. FdsTypeOK /\ Tables /\ Ordered /\ Std /\ ChildAsAsked
    BY <1>1, <1>2, <1>3 DEF FdsInv, ChildOK, Late
  <2>2. SupervisorAsAsked'
    BY <1>3, <2>1, LetGoAsAsked
  <2>3. ChildAsAsked'
    BY <1>1, <2>1 DEF ChildAsAsked, Counts, Wanted, AskedTargets, optionVars, childVars
  <2> QED  BY <2>2, <2>3
<1>4. ChildOK'
  BY <1>1, <1>2, <1>3 DEF ChildOK, Early
<1> QED  BY <1>1, <1>2, <1>3, <1>4 DEF FdsInv, Early, Late

LEMMA UnchangedOrder ==
    ASSUME UNCHANGED <<asked, assign_fds, saved>>, Ordered PROVE Ordered'
<1>1. asked' = asked /\ assign_fds' = assign_fds /\ saved' = saved
  OBVIOUS
<1>2. /\ Len(asked) <= Len(assign_fds)
      /\ \A i \in DOMAIN asked : assign_fds[i] = asked[i]
  BY DEF Ordered, CopiesAfter
<1>3. \A i \in DOMAIN assign_fds :
        i > Len(asked) => \E f \in {1, 2} \ TargetsOf(asked) : assign_fds[i] = <<f, saved[f]>>
  BY DEF Ordered, CopiesAfter, Copy
<1>4. \A f \in {1, 2} \ TargetsOf(asked) : \E i \in DOMAIN assign_fds :
        /\ assign_fds[i] = <<f, saved[f]>>
        /\ \A j \in DOMAIN assign_fds : assign_fds[j][1] = f => j = i
  BY DEF Ordered, CopiesAfter, Copy
<1>5. TargetsOf(asked)' = TargetsOf(asked)
  BY <1>1 DEF TargetsOf
<1> QED  BY <1>1, <1>2, <1>3, <1>4, <1>5 DEF Ordered, CopiesAfter, Copy

LEMMA StepInv == ASSUME Parameters, FdsInv, [FdsNext]_fdsVars PROVE FdsInv'
<1>1. FdsTypeOK'
  BY TypeStep DEF FdsInv
<1>2. CASE UNCHANGED fdsVars
  <2> USE <1>2 DEF fdsVars, tableVars, optionVars, childVars
  <2>1. (Std' <=> Std) /\ (Plain' <=> Plain)
    BY DEF Std, Plain, AskedSources, AskedTargets
  <2>2. Tables => Tables'
    BY DEF Tables, Numbers, Kept, Copies, Named, Usable, Saves, AskedTargets
  <2>3. Ordered => Ordered'
    BY UnchangedOrder
  <2>4. Assigned => Assigned'
    BY DEF Assigned, Withheld, Done
  <2>5. (ChildAsAsked => ChildAsAsked') /\ (SupervisorAsAsked => SupervisorAsAsked')
    BY DEF ChildAsAsked, SupervisorAsAsked, Counts, Wanted, Given, AskedTargets, AskedSources
  <2>6. ChildOK => ChildOK'
    BY <2>1, <2>4, <2>5 DEF ChildOK
  <2> QED  BY <1>1, <2>1, <2>2, <2>3, <2>5, <2>6 DEF FdsInv
<1>3. CASE Log \/ More
  BY <1>1, <1>3, EarlyStep
<1>4. CASE TakeOriginalStdoutStderr
  BY <1>1, <1>4, TakeStep
<1>5. CASE Spawn \/ ChildCloses \/ ChildPasses \/ ChildAssigns \/ ChildExecs
  BY <1>1, <1>5, ChildStepInv
<1>6. CASE LetGo
  BY <1>1, <1>6, LetGoStep
<1>7. \A f \in Nameable : PassFd(f) \/ LockFd(f) => More
  BY DEF More
<1> QED  BY <1>2, <1>3, <1>4, <1>5, <1>6, <1>7 DEF FdsNext, Log, More

\* The variables keep their types: every number that the options name, or that
\* the supervisor keeps, is that of a file (_srt_process_manager_run and log.c).
THEOREM FdsTypeCorrect == ASSUME Parameters PROVE FdsSpec => []FdsTypeOK
<1>1. FdsInit => FdsTypeOK
  BY FdsTypeInit
<1>2. FdsTypeOK /\ [FdsNext]_fdsVars => FdsTypeOK'
  BY TypeStep
<1> QED  BY <1>1, <1>2, PTL DEF FdsSpec

\* For any number of file descriptors and options, COMMAND and the supervisor have
\* the files that the command line asks for (_srt_process_manager_run).
THEOREM GivesWhatWasAsked == ASSUME Parameters PROVE FdsSpec => []FdsAsAsked
<1>1. FdsInit => FdsInv
  BY InitInv
<1>2. FdsInv /\ [FdsNext]_fdsVars => FdsInv'
  BY StepInv
<1>3. FdsInv => FdsAsAsked
  BY DEF FdsInv, ChildOK, FdsAsAsked
<1> QED  BY <1>1, <1>2, <1>3, PTL DEF FdsSpec
=============================================================================
