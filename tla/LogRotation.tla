----------------------------- MODULE LogRotation -----------------------------
(***************************************************************************)
(* steam-runtime-tools/logger.c: srt-logger processes that append lines to *)
(* one log file, start a new one when it becomes too large, and open it    *)
(* again when somebody has deleted it.  Nothing but locks on the log file  *)
(* stops two of them from rotating at the same time.                       *)
(*                                                                         *)
(* A lock belongs to an open file description and is about an inode; a     *)
(* name may come to mean another inode at any time.  The model has the     *)
(* three names in the log directory, and for each logger the inodes that   *)
(* it has open.  What is in a log, and how long it is, is left out: any    *)
(* line may be the one that would make it too large.  file_stat always     *)
(* describes file_fd, so that there is one variable for both.              *)
(***************************************************************************)
EXTENDS FiniteSets

CONSTANTS
    Loggers,   \* srt-logger processes with the same --filename
    Inodes,    \* what the file system can hold; open() fails without one
    None,      \* no inode: the name does not exist, the fd is -1
    Faults     \* the system calls that may fail: some of FaultNames

FaultNames == {"unlink", "link", "rename"}

ASSUME NoneAssumption == None \notin Inodes
ASSUME FaultsAssumption == Faults \subseteq FaultNames

VARIABLES
    log, previous, new,  \* what filename, previous_filename, new_filename name
    deleted,   \* history: somebody who is not a logger has deleted the log
    pc,
    file,      \* the inode of file_fd
    lock,      \* the lock on file_fd
    new_fd,    \* the inode of the local variable new_fd
    new_lock,  \* the lock on new_fd
    leaked,    \* earlier values of file_fd that were not closed
    rotating   \* max_bytes > 0

nameVars == <<log, previous, new>>
newVars  == <<new_fd, new_lock>>
fdVars   == <<file, lock, newVars, leaked>>
vars     == <<nameVars, deleted, pc, fdVars, rotating>>

Kinds == {"shared", "exclusive"}

\* Whether one of the logger's open files has such a lock on the inode.
Locked(l, i, kinds) ==
    \/ file[l] = i /\ lock[l] \in kinds
    \/ new_fd[l] = i /\ new_lock[l] \in kinds
    \/ \E k \in kinds : <<i, k>> \in leaked[l]

MayShare(i) == \A l \in Loggers : ~Locked(l, i, {"exclusive"})

\* Faulty variant: a lock that only excludes other exclusive locks.
MayExcludeReaders(l, i) ==
    \A m \in Loggers \ {l} : ~Locked(m, i, {"exclusive"})

\* For a logger that has the inode open once.
MayExclude(l, i) == \A m \in Loggers \ {l} : ~Locked(m, i, Kinds)

\* An inode lives as long as it has a name or somebody has it open.
Open(l) == {file[l], new_fd[l]} \cup { f[1] : f \in leaked[l] }
Free    == Inodes \ ({log, previous, new} \cup UNION { Open(l) : l \in Loggers })

\* Which one the file system chooses makes no difference to anybody.
Fresh == CHOOSE i \in Free : TRUE

-----------------------------------------------------------------------------
\* An empty directory: logs, and temporary files, of earlier times are those
\* of loggers that have come to their end.
Init ==
    /\ log = None /\ previous = None /\ new = None
    /\ deleted = FALSE
    /\ pc = [l \in Loggers |-> "off"]
    /\ file = [l \in Loggers |-> None] /\ lock = [l \in Loggers |-> "none"]
    /\ new_fd = [l \in Loggers |-> None]
    /\ new_lock = [l \in Loggers |-> "none"]
    /\ leaked = [l \in Loggers |-> {}]
    /\ rotating = [l \in Loggers |-> FALSE]

GoTo(l, step) == pc' = [pc EXCEPT ![l] = step]

\* open() with O_CREAT: the inode that is called filename, or a new one.
OpenLog ==
    \/ log # None /\ UNCHANGED log
    \/ log = None /\ Free # {} /\ log' = Fresh

-----------------------------------------------------------------------------
(* Setting up: _srt_logger_setup(), then _srt_logger_process().            *)

\* The log is opened, and a line that says so is written, before it is locked.
Setup(l) ==
    /\ pc[l] = "off" /\ GoTo(l, "lock")
    /\ OpenLog /\ file' = [file EXCEPT ![l] = log']
    /\ \E enabled \in BOOLEAN : rotating' = [rotating EXCEPT ![l] = enabled]
    /\ UNCHANGED <<previous, new, deleted, lock, newVars, leaked>>

\* lock_output_file() waits for as long as it takes; the parent process is
\* told that the logger is ready only afterwards.
LockLog(l) ==
    /\ pc[l] = "lock" /\ GoTo(l, "ready")
    /\ MayShare(file[l])
    /\ lock' = [lock EXCEPT ![l] = "shared"]
    /\ UNCHANGED <<nameVars, deleted, file, newVars, leaked, rotating>>

-----------------------------------------------------------------------------
(* logger_process_complete_line()                                          *)

\* A line arrives.  Is the file still the one that is called filename, and
\* would the line make it too large?
Check(l) ==
    /\ pc[l] = "ready"
    /\ \/ log # file[l] /\ GoTo(l, "reopen")
       \/ log = file[l] /\ GoTo(l, "write")
       \/ log = file[l] /\ rotating[l] /\ GoTo(l, "exclude")
    /\ UNCHANGED <<nameVars, deleted, fdVars, rotating>>

Reopen(l) ==
    /\ pc[l] = "reopen"
    /\ \/ /\ GoTo(l, "relock")
          /\ OpenLog /\ new_fd' = [new_fd EXCEPT ![l] = log']
       \/ /\ log = None /\ Free = {}
          /\ GoTo(l, "write_anyway") /\ UNCHANGED <<log, new_fd>>
    /\ UNCHANGED <<previous, new, deleted, file, lock, new_lock, leaked,
                   rotating>>

\* Faulty variant: the file that was opened again is not locked.
NoLock == "none"

Relocked == "shared"

\* The new file_fd replaces the old one, which is not closed.
Relock(l) ==
    /\ pc[l] = "relock" /\ GoTo(l, "write_anyway")
    /\ MayShare(new_fd[l])
    /\ file' = [file EXCEPT ![l] = new_fd[l]]
    /\ lock' = [lock EXCEPT ![l] = Relocked]
    /\ new_fd' = [new_fd EXCEPT ![l] = None]
    /\ leaked' = [leaked EXCEPT ![l] = @ \cup {<<file[l], lock[l]>>}]
    /\ UNCHANGED <<nameVars, deleted, new_lock, rotating>>

Write(l) ==
    /\ pc[l] \in {"write", "write_anyway"} /\ GoTo(l, "ready")
    /\ UNCHANGED <<nameVars, deleted, fdVars, rotating>>

-----------------------------------------------------------------------------
(* _srt_logger_try_rotate().  If it fails, there is no more rotation.      *)

GiveUp(l, step) ==
    /\ GoTo(l, step)
    /\ rotating' = [rotating EXCEPT ![l] = FALSE]

\* Without waiting.
TakeExclusive(l) ==
    /\ pc[l] = "exclude"
    /\ IF MayExclude(l, file[l])
       THEN /\ lock' = [lock EXCEPT ![l] = "exclusive"]
            /\ GoTo(l, "unlink") /\ UNCHANGED rotating
       ELSE GiveUp(l, "write") /\ UNCHANGED lock
    /\ UNCHANGED <<nameVars, deleted, file, newVars, leaked>>

\* It does not matter if there is no such file.  After any other error the
\* function returns at once, without "goto out".
UnlinkPrevious(l) ==
    /\ pc[l] = "unlink"
    /\ \/ GoTo(l, "link") /\ previous' = None /\ UNCHANGED rotating
       \/ /\ "unlink" \in Faults /\ previous # None
          /\ GiveUp(l, "write") /\ UNCHANGED previous
    /\ UNCHANGED <<log, new, deleted, fdVars>>

\* Faulty variant: rename() instead of link().
MoveLog == previous' = log /\ log' = None

\* For now, the log has two names.
LinkLog == previous' = log /\ UNCHANGED log

LinkPrevious(l) ==
    /\ pc[l] = "link"
    /\ \/ /\ log # None /\ previous = None
          /\ LinkLog /\ GoTo(l, "open_new") /\ UNCHANGED rotating
       \/ /\ log = None \/ previous # None \/ "link" \in Faults
          /\ GiveUp(l, "out") /\ UNCHANGED <<log, previous>>
    /\ UNCHANGED <<new, deleted, fdVars>>

\* open() with O_EXCL.
OpenNew(l) ==
    /\ pc[l] = "open_new"
    /\ \/ /\ new = None /\ Free # {}
          /\ new' = Fresh /\ new_fd' = [new_fd EXCEPT ![l] = Fresh]
          /\ GoTo(l, "lock_new") /\ UNCHANGED rotating
       \/ /\ new # None \/ Free = {}
          /\ GiveUp(l, "out") /\ UNCHANGED <<new, new_fd>>
    /\ UNCHANGED <<log, previous, deleted, file, lock, new_lock, leaked>>

LockNew(l) ==
    /\ pc[l] = "lock_new"
    /\ IF MayExclude(l, new_fd[l])
       THEN /\ new_lock' = [new_lock EXCEPT ![l] = "exclusive"]
            /\ GoTo(l, "rename") /\ UNCHANGED rotating
       ELSE GiveUp(l, "out") /\ UNCHANGED new_lock
    /\ UNCHANGED <<nameVars, deleted, file, lock, new_fd, leaked>>

\* The new file takes the place of the log, and new_fd that of file_fd, which
\* is closed.
RenameNew(l) ==
    /\ pc[l] = "rename"
    /\ \/ /\ new # None
          /\ log' = new /\ new' = None /\ GoTo(l, "out")
          /\ file' = [file EXCEPT ![l] = new_fd[l]]
          /\ lock' = [lock EXCEPT ![l] = new_lock[l]]
          /\ new_fd' = [new_fd EXCEPT ![l] = None]
          /\ new_lock' = [new_lock EXCEPT ![l] = "none"]
          /\ UNCHANGED rotating
       \/ /\ new = None \/ "rename" \in Faults
          /\ GiveUp(l, "out")
          /\ UNCHANGED <<log, new, file, lock, newVars>>
    /\ UNCHANGED <<previous, deleted, leaked>>

\* Faulty variant: only a logger that has failed to rotate needs to.
SharedUnlessRotated(l) == IF rotating[l] THEN "exclusive" ELSE "shared"

ReturnedTo(l) == "shared"

\* Where all but one of the error paths lead.
Out(l) ==
    /\ pc[l] = "out" /\ GoTo(l, "write")
    /\ new' = IF new_fd[l] # None THEN None ELSE new
    /\ new_fd' = [new_fd EXCEPT ![l] = None]
    /\ new_lock' = [new_lock EXCEPT ![l] = "none"]
    /\ lock' = [lock EXCEPT ![l] = ReturnedTo(l)]
    /\ UNCHANGED <<log, previous, deleted, file, leaked, rotating>>

-----------------------------------------------------------------------------
\* The end of the input, or of the logger: the kernel closes its files.
End(l) ==
    /\ pc[l] # "off" /\ GoTo(l, "off")
    /\ file' = [file EXCEPT ![l] = None]
    /\ lock' = [lock EXCEPT ![l] = "none"]
    /\ new_fd' = [new_fd EXCEPT ![l] = None]
    /\ new_lock' = [new_lock EXCEPT ![l] = "none"]
    /\ leaked' = [leaked EXCEPT ![l] = {}]
    /\ rotating' = [rotating EXCEPT ![l] = FALSE]
    /\ UNCHANGED <<nameVars, deleted>>

\* A developer who wants to clear the logs out, once.
Delete ==
    /\ ~deleted /\ log # None
    /\ deleted' = TRUE /\ log' = None
    /\ UNCHANGED <<previous, new, pc, fdVars, rotating>>

RotateStep(l) == \/ TakeExclusive(l) \/ UnlinkPrevious(l) \/ LinkPrevious(l)
                 \/ OpenNew(l) \/ LockNew(l) \/ RenameNew(l) \/ Out(l)
LineStep(l) == Reopen(l) \/ Write(l) \/ RotateStep(l)
LockStep(l) == LockLog(l) \/ Relock(l)

Next == \/ \E l \in Loggers :
             Setup(l) \/ LockStep(l) \/ Check(l) \/ LineStep(l) \/ End(l)
        \/ Delete

Spec == Init /\ [][Next]_vars

\* Loggers run, and one that waits for a lock that is released again and again
\* gets it in the end.  None has to start, to end, or to receive a line.
LiveSpec ==
    /\ Spec
    /\ \A l \in Loggers : WF_vars(LineStep(l)) /\ SF_vars(LockStep(l))

-----------------------------------------------------------------------------
(* Properties.                                                             *)

RotatePCs == {"unlink", "link", "open_new", "lock_new", "rename", "out"}
CheckedPCs == {"exclude", "write"} \cup RotatePCs
PCs == {"off", "lock", "ready", "reopen", "relock", "write_anyway"}
       \cup CheckedPCs

\* The type invariant of the module.
TypeOK ==
    /\ log \in Inodes \cup {None}
    /\ previous \in Inodes \cup {None} /\ new \in Inodes \cup {None}
    /\ deleted \in BOOLEAN
    /\ pc \in [Loggers -> PCs]
    /\ file \in [Loggers -> Inodes \cup {None}]
    /\ new_fd \in [Loggers -> Inodes \cup {None}]
    /\ lock \in [Loggers -> Kinds \cup {"none"}]
    /\ new_lock \in [Loggers -> {"exclusive", "none"}]
    /\ leaked \in [Loggers -> SUBSET (Inodes \X Kinds)]
    /\ rotating \in [Loggers -> BOOLEAN]

\* Two loggers never rotate at the same time, unless somebody else interferes:
\* each would unlink, link or rename what the other has just put in place.
OneRotator ==
    ~deleted => \A l, m \in Loggers :
        pc[l] \in RotatePCs /\ pc[m] \in RotatePCs => l = m

\* From the check until the line is written or the log has been replaced, the
\* file that the logger has open is the one that is called filename: nobody
\* rotates it away between stat() and write().
WritesToLog ==
    ~deleted => \A l \in Loggers : pc[l] \in CheckedPCs => log = file[l]

\* A log that loses its name has got the name of the previous log: rotation,
\* wherever it fails or is interrupted, never throws the current log away.
KeepsOldLog ==
    [][~deleted' /\ log # None /\ log' # log => previous' = log]_vars

\* A logger that waits for its lock gets it: its parent process is waiting too.
BecomesReady ==
    \A l \in Loggers :
        (pc[l] \in {"lock", "relock"}) ~> (pc[l] \notin {"lock", "relock"})

-----------------------------------------------------------------------------
(* What the documentation says, and the code does not always do.           *)

\* bin/logger.md:38: the lock is "temporarily upgraded to an exclusive lock
\* during log rotation".
ExclusiveOnlyToRotate ==
    \A l \in Loggers : lock[l] = "exclusive" => pc[l] \in RotatePCs

=============================================================================
