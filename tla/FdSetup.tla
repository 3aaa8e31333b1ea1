------------------------------ MODULE FdSetup ------------------------------
(***************************************************************************)
(* The file descriptors of steam-runtime-supervisor and of its COMMAND.     *)
(* log.c moves stdout out of the way and makes it a copy of stderr;         *)
(* --assign-fd, --pass-fd, --lock-fd and --lock-file name or open more;     *)
(* process-manager.c sets them up in the child, and then closes its own     *)
(* copies.  Sequential, but every step changes what a number means.         *)
(*                                                                         *)
(* A file is called by the number it had at the beginning.                 *)
(***************************************************************************)
EXTENDS Integers, Sequences, FiniteSets

CONSTANTS
    MaxFd,        \* fds are 0..MaxFd: enough for those that are opened
    Starts,       \* bound: which fds may be open at the beginning
    Nameable,     \* bound: the fds that options may name
    MaxOptions    \* bound: options that are about fds

Fds      == 0..MaxFd
Closed   == -1
DevNull  == MaxFd + 1
LockFile == MaxFd + 2    \* what --lock-file opens

Parameters ==
    /\ MaxFd \in Nat /\ MaxFd >= 2 /\ MaxOptions \in Nat
    /\ Starts \subseteq SUBSET Fds /\ Nameable \subseteq Fds

VARIABLES
    phase,
    start,        \* history: what was open at the beginning
    open_fds,     \* of the supervisor: number -> file
    cloexec,      \* which of them are close-on-exec
    saved,        \* original_stdout, original_stderr
    own,          \* history: numbers that it has opened itself
    options,
    close_fds,
    assign_fds,   \* pairs target, source
    pass_fds,
    locks,
    asked,        \* history: assign_fds as on the command line
    step,         \* j, in the child
    child,        \* its file descriptors
    child_cloexec

tableVars  == <<open_fds, cloexec>>
optionVars == <<options, close_fds, assign_fds, pass_fds, locks>>
childVars  == <<step, child, child_cloexec>>
fdsVars == <<phase, start, tableVars, saved, own, optionVars, asked, childVars>>

\* What is open at the beginning survived exec(), so it is not close-on-exec.
FdsInit ==
    /\ start \in Starts
    /\ open_fds = [f \in Fds |-> IF f \in start THEN f ELSE Closed] /\ cloexec = {}
    /\ saved = [f \in {1, 2} |-> Closed] /\ own = {}
    /\ options = 0 /\ close_fds = FALSE
    /\ assign_fds = <<>> /\ pass_fds = {} /\ locks = {} /\ asked = <<>>
    /\ step = 1 /\ child = open_fds /\ child_cloexec = {}
    /\ phase = "stdin"

\* The number that the kernel gives to a new fd, at least f, if there is one.
Lowest(f, g) ==
    g \in f..MaxFd /\ open_fds[g] = Closed /\ \A h \in f..g - 1 : open_fds[h] # Closed
Full(f)      == \A g \in f..MaxFd : open_fds[g] # Closed

-----------------------------------------------------------------------------
(* _srt_util_set_glib_log_handler().                                       *)

\* ensure_fd_not_cloexec(): the lowest number that is free is the right one, as
\* those below have been ensured.
Ensured(f) == [open_fds EXCEPT ![f] = IF @ = Closed THEN DevNull ELSE @]

EnsureStdin ==
    /\ phase = "stdin" /\ phase' = "stdout"
    /\ open_fds' = Ensured(0)
    /\ UNCHANGED <<start, cloexec, saved, own, optionVars, asked, childVars>>

\* set_up_output(): F_DUPFD_CLOEXEC, unless it is closed.
Duplicate(f, copy) ==
    /\ open_fds' = [open_fds EXCEPT ![copy] = open_fds[f]]
    /\ cloexec' = cloexec \cup {copy}
    /\ saved' = [saved EXCEPT ![f] = copy]
    /\ own' = own \cup {copy}

SetUpOutput(f, next) ==
    /\ \/ /\ open_fds[f] = Closed
          /\ open_fds' = Ensured(f) /\ phase' = next
          /\ UNCHANGED <<cloexec, saved, own>>
       \/ /\ open_fds[f] # Closed /\ phase' = next
          /\ \E copy \in Fds : Lowest(3, copy) /\ Duplicate(f, copy)
       \/ /\ open_fds[f] # Closed /\ Full(3) /\ phase' = "failed"
          /\ UNCHANGED <<tableVars, saved, own>>
    /\ UNCHANGED <<start, optionVars, asked, childVars>>

SetUpStdout == phase = "stdout" /\ SetUpOutput(1, "stderr")
SetUpStderr == phase = "stderr" /\ SetUpOutput(2, "divert")

DivertStdout ==
    /\ phase = "divert" /\ phase' = "options"
    /\ open_fds' = [open_fds EXCEPT ![1] = open_fds[2]]
    /\ UNCHANGED <<start, cloexec, saved, own, optionVars, asked, childVars>>

-----------------------------------------------------------------------------
(* Options, in the order of the command line.                              *)
Option ==
    /\ phase = "options"
    /\ options < MaxOptions /\ options' = options + 1
    /\ UNCHANGED <<start, saved, asked, childVars>>

AssignFd(target, source) ==
    /\ Option
    /\ IF open_fds[source] = Closed THEN phase' = "failed" /\ UNCHANGED assign_fds
       ELSE /\ assign_fds' = Append(assign_fds, <<target, source>>)
            /\ UNCHANGED phase
    /\ UNCHANGED <<tableVars, own, close_fds, pass_fds, locks>>

PassFd(f) ==
    /\ Option
    /\ IF open_fds[f] = Closed THEN phase' = "failed" /\ UNCHANGED pass_fds
       ELSE pass_fds' = pass_fds \cup {f} /\ UNCHANGED phase
    /\ UNCHANGED <<tableVars, own, close_fds, assign_fds, locks>>

LockFd(f) ==
    /\ Option
    /\ IF open_fds[f] = Closed THEN phase' = "failed" /\ UNCHANGED <<cloexec, locks>>
       ELSE /\ cloexec' = cloexec \cup {f} /\ locks' = locks \cup {f}
            /\ UNCHANGED phase
    /\ UNCHANGED <<open_fds, own, close_fds, assign_fds, pass_fds>>

\* srt_file_lock_new(); one such file is enough.
OpenLockFile ==
    /\ Option
    /\ LockFile \notin {open_fds[f] : f \in Fds}
    /\ \/ /\ Full(0) /\ phase' = "failed"
          /\ UNCHANGED <<tableVars, own, locks>>
       \/ \E f \in Fds :
             /\ Lowest(0, f) /\ open_fds' = [open_fds EXCEPT ![f] = LockFile]
             /\ cloexec' = cloexec \cup {f} /\ locks' = locks \cup {f}
             /\ own' = own \cup {f} /\ UNCHANGED phase
    /\ UNCHANGED <<close_fds, assign_fds, pass_fds>>

CloseFds ==
    /\ phase = "options" /\ ~close_fds /\ close_fds' = TRUE
    /\ UNCHANGED <<phase, start, tableVars, saved, own, options, assign_fds,
                   pass_fds, locks, asked, childVars>>

-----------------------------------------------------------------------------
(* _srt_process_manager_options_take_original_stdout_stderr().             *)
Targets == {assign_fds[i][1] : i \in DOMAIN assign_fds}

\* Faulty variant: also if the user has assigned it.
AlwaysTaken(f) == saved[f] # Closed
Taken(f)       == saved[f] # Closed /\ f \notin Targets

Original(f) == IF Taken(f) THEN << <<f, saved[f]>> >> ELSE <<>>

TakeOriginalStdoutStderr ==
    /\ phase = "options" /\ phase' = "spawn"
    /\ asked' = assign_fds
    /\ assign_fds' = assign_fds \o Original(1) \o Original(2)
    /\ LET unused == {saved[f] : f \in {g \in {1, 2} : ~Taken(g)}} IN
          /\ open_fds' = [f \in Fds |-> IF f \in unused THEN Closed ELSE open_fds[f]]
          /\ cloexec' = cloexec \ unused
    /\ UNCHANGED <<start, saved, own, options, close_fds, pass_fds, locks, childVars>>

-----------------------------------------------------------------------------
(* _srt_process_manager_run(), and _srt_process_manager_child_setup_cb() in *)
(* the child.                                                              *)
Spawn ==
    /\ phase = "spawn" /\ phase' = "close"
    /\ child' = open_fds /\ child_cloexec' = cloexec
    /\ UNCHANGED <<start, tableVars, saved, own, optionVars, asked, step>>

ChildStep(now, next) ==
    /\ phase = now /\ phase' = next
    /\ UNCHANGED <<start, tableVars, saved, own, optionVars, asked>>

\* g_fdwalk_set_cloexec(3)
ChildCloses ==
    /\ ChildStep("close", "pass")
    /\ child_cloexec' = IF close_fds THEN child_cloexec \cup 3..MaxFd
                        ELSE child_cloexec
    /\ UNCHANGED <<child, step>>

ChildPasses ==
    /\ ChildStep("pass", IF \E f \in pass_fds : child[f] = Closed
                         THEN "failed" ELSE "assign")
    /\ child_cloexec' = child_cloexec \ pass_fds
    /\ UNCHANGED <<child, step>>

\* dup2(), which changes nothing if the numbers are the same.
ChildAssigns ==
    /\ step <= Len(assign_fds)
    /\ LET target == assign_fds[step][1]
           source == assign_fds[step][2]
       IN  /\ ChildStep("assign", IF child[source] = Closed THEN "failed" ELSE "assign")
           /\ child' = [child EXCEPT ![target] = child[source]]
           /\ child_cloexec' = IF target = source THEN child_cloexec
                               ELSE child_cloexec \ {target}
    /\ step' = step + 1

ChildExecs ==
    /\ step > Len(assign_fds)
    /\ ChildStep("assign", "let_go")
    /\ child' = [f \in Fds |-> IF f \in child_cloexec THEN Closed ELSE child[f]]
    /\ child_cloexec' = {} /\ UNCHANGED step

\* The supervisor does not stand in the way of a reader that waits for COMMAND
\* to close a pipe; faulty variant: of --assign-fd only.
Sources     == {assign_fds[i][2] : i \in DOMAIN assign_fds}
ToCloseSome == {f \in Sources : f > 2}
ToClose     == {f \in Sources \cup pass_fds : f > 2}

LetGo ==
    /\ phase = "let_go" /\ phase' = "running"
    /\ open_fds' = [f \in Fds |-> IF f \in ToClose THEN Closed ELSE open_fds[f]]
    /\ cloexec' = cloexec \ ToClose
    /\ UNCHANGED <<start, saved, own, optionVars, asked, childVars>>

-----------------------------------------------------------------------------
FdsNext ==
    \/ EnsureStdin \/ SetUpStdout \/ SetUpStderr \/ DivertStdout
    \/ \E target, source \in Nameable : AssignFd(target, source)
    \/ \E f \in Nameable : PassFd(f) \/ LockFd(f)
    \/ OpenLockFile \/ CloseFds \/ TakeOriginalStdoutStderr
    \/ Spawn \/ ChildCloses \/ ChildPasses \/ ChildAssigns \/ ChildExecs \/ LetGo

FdsSpec == FdsInit /\ [][FdsNext]_fdsVars

-----------------------------------------------------------------------------
(* Correctness.                                                            *)
Contents == Fds \cup {Closed, DevNull, LockFile}

FdsTypeOK ==
    /\ phase \in {"stdin", "stdout", "stderr", "divert", "options", "spawn", "close",
                  "pass", "assign", "let_go", "running", "failed"}
    /\ open_fds \in [Fds -> Contents] /\ cloexec \subseteq Fds
    /\ saved \in [{1, 2} -> Fds \cup {Closed}] /\ own \subseteq Fds
    /\ start \subseteq Fds /\ options \in 0..MaxOptions /\ close_fds \in BOOLEAN
    /\ assign_fds \in Seq(Fds \X Fds) /\ asked \in Seq(Fds \X Fds)
    /\ pass_fds \subseteq Fds /\ locks \subseteq Fds
    /\ step \in 1 .. Len(assign_fds) + 1
    /\ child \in [Fds -> Contents] /\ child_cloexec \subseteq Fds

AskedTargets == {asked[i][1] : i \in DOMAIN asked}
AskedSources == {asked[i][2] : i \in DOMAIN asked}
\* No later assignment has the same target.
Counts(i)    == \A j \in DOMAIN asked : asked[j][1] = asked[i][1] => j <= i

\* Command lines whose meaning the documentation leaves no doubt about, and the
\* code takes it the same way.
Plain ==
    /\ {0, 1, 2} \subseteq start            \* or stdout becomes stderr
    /\ 1 \notin AskedSources                \* it is a copy of stderr by now
    /\ AskedSources \cap AskedTargets = {}  \* assignments take effect in order
    /\ own \cap (AskedSources \cup AskedTargets \cup pass_fds) = {}
    /\ {saved[1], saved[2]} \cap locks = {}
    /\ locks \cap (pass_fds \cup AskedSources \cup AskedTargets \cup 0..2) = {}

\* What COMMAND should find at f if nothing is assigned to it.
Wanted(f) ==
    CASE f \in 0..2                        -> f
      [] f \in pass_fds \ 0..2             -> f
      [] f \in Fds \ (pass_fds \cup 0..2)  ->
            IF f \in start /\ f \notin locks /\ ~close_fds THEN f ELSE Closed

\* What it was told to give COMMAND, without the standard ones.
Given == {f \in AskedSources \cup pass_fds : f > 2}

ChildAsAsked ==
    /\ \A i \in DOMAIN asked : Counts(i) => child[asked[i][1]] = asked[i][2]
    /\ \A f \in Fds \ AskedTargets : child[f] = Wanted(f)

SupervisorAsAsked ==
    /\ \A f \in locks : open_fds[f] # Closed
    /\ \A f \in Fds : open_fds[f] # 1 /\ open_fds[f] \notin Given

\* COMMAND gets what was asked for and nothing else: neither what log.c has put
\* aside, nor locks, nor, with --close-fds, what was inherited.  The supervisor
\* keeps its locks, and has no file of its own that COMMAND alone should have:
\* whoever waits for the end of COMMAND's output does not wait for the supervisor.
FdsAsAsked == phase = "running" /\ Plain => ChildAsAsked /\ SupervisorAsAsked
=============================================================================
