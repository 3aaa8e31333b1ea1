------------------------------ MODULE RuntimeGC ------------------------------
(***************************************************************************)
(* pressure-vessel/runtime.c: how concurrent pressure-vessel-wrap          *)
(* processes share one runtime and one variable directory.  Each locks the *)
(* runtime, may garbage-collect the temporary copies that earlier          *)
(* processes have left in the variable directory, may make a copy of its   *)
(* own, and then runs a game in it until the last process that inherited   *)
(* the lock has gone.  All of it is coordinated by advisory locks on files *)
(* called .ref (steam-runtime-tools/file-lock.c, pressure-vessel/          *)
(* locking.md); the locks are open file description locks.                 *)
(*                                                                         *)
(* A lock belongs to an inode, not to a name, so the model has both.  The  *)
(* inode <<d, "usr">> is the one that tmp-d/usr/.ref gets, <<d, "top">> is *)
(* tmp-d/.ref when that is a file of its own, and <<SourceDir, n>> is the  *)
(* n-th .ref that the runtime itself has had.                              *)
(***************************************************************************)
EXTENDS Naturals, FiniteSets

CONSTANTS
    Procs,      \* pressure-vessel-wrap processes
    Dirs,       \* the names tmp-XXXXXX that g_mkdtemp() may come up with
    SourceDir,  \* the runtime, ${source_files}
    None,       \* no file, no lock, no directory
    Symlink,    \* .ref is a symbolic link to usr/.ref
    MergedUsr,  \* is_just_usr: the runtime is a merged /usr
    Natures,    \* what directories may be left over from earlier times
    MaxCleanings  \* how often somebody deletes the runtime: 0 or 1

ASSUME NamesAssumption ==
    /\ SourceDir \notin Dirs /\ None \notin Dirs
    /\ None # Symlink

ASSUME KindAssumption ==
    /\ MergedUsr \in BOOLEAN /\ MaxCleanings \in {0, 1}
    /\ Natures \subseteq {"no", "keep", "stubborn"}

SourceInodes == {SourceDir} \X {1, 2}
CopyInodes   == Dirs \X {"usr", "top"}
Inodes       == SourceInodes \cup CopyInodes

ASSUME InodesAssumption == None \notin Inodes /\ Symlink \notin Inodes

VARIABLES
    (* the variable directory *)
    exists,    \* the temporary directories in it
    special,   \* ./keep exists, or its content cannot be deleted
    usr,       \* [Dirs -> how much of tmp-d/usr there is]
    usr_ref,   \* [Dirs -> the inode of tmp-d/usr/.ref]
    top,       \* [Dirs -> the inode of tmp-d/.ref, or Symlink]
    (* the runtime *)
    source,        \* how much of it there is
    source_ref,    \* the inode of its .ref
    cleaner_lock,  \* the exclusive lock of whoever deletes it
    (* each process *)
    pc,
    opts,          \* its flags: GC_RUNTIMES and COPY_RUNTIME
    fd,            \* a lock file that is open but not locked yet
    runtime_lock,  \* shared lock on the runtime, later on the copy
    mutable_lock,  \* lock on the variable directory
    copy_lock,     \* shared lock on the copy
    temp_lock,     \* exclusive lock on a directory to be deleted
    iter,          \* directories that GC has not looked at yet
    member,        \* the directory that GC is looking at
    temp_dir,      \* the copy that belongs to the process
    stale          \* history: what nobody owned when the process started

dirVars    == <<exists, special, usr, usr_ref, top>>
sourceVars == <<source, source_ref, cleaner_lock>>
gcVars     == <<temp_lock, iter, member>>
procVars   == <<pc, opts, fd, runtime_lock, mutable_lock, copy_lock, gcVars,
                temp_dir, stale>>
vars == <<dirVars, sourceVars, procVars>>

Amount == {"none", "partial", "whole"}
NoOpts == [gc |-> FALSE, copy |-> FALSE]

Owned == { temp_dir[p] : p \in Procs } \ {None}

(* fcntl() locks: shared ones exclude exclusive ones, and those exclude    *)
(* all others, even those that are held by the same process.               *)
Shared(i)    == { p \in Procs : runtime_lock[p] = i \/ copy_lock[p] = i }
Exclusive(i) == { p \in Procs : temp_lock[p] = i }
MayShare(i)   == Exclusive(i) = {} /\ cleaner_lock # i
MayExclude(i) == MayShare(i) /\ Shared(i) = {}

-----------------------------------------------------------------------------
\* Directories that were there before: some are not empty, some have ./keep.
Init ==
    /\ exists \in SUBSET Dirs
    /\ special \in [Dirs -> Natures \cup {"no"}]
    /\ \A d \in Dirs \ exists : special[d] = "no"
    /\ usr = [d \in Dirs |-> "none"]
    /\ usr_ref = [d \in Dirs |-> None] /\ top = [d \in Dirs |-> None]
    /\ source = "whole" /\ source_ref = <<SourceDir, 1>>
    /\ cleaner_lock = None
    /\ pc = [p \in Procs |-> "idle"]
    /\ opts = [p \in Procs |-> NoOpts]
    /\ fd = [p \in Procs |-> None]
    /\ runtime_lock = [p \in Procs |-> None]
    /\ mutable_lock = [p \in Procs |-> "none"]
    /\ copy_lock = [p \in Procs |-> None]
    /\ temp_lock = [p \in Procs |-> None]
    /\ iter = [p \in Procs |-> {}] /\ member = [p \in Procs |-> None]
    /\ temp_dir = [p \in Procs |-> None] /\ stale = [p \in Procs |-> {}]

GoTo(p, step) == pc' = [pc EXCEPT ![p] = step]

-----------------------------------------------------------------------------
(* pv_runtime_initable_init(): lock the runtime.                           *)

Start(p) ==
    /\ pc[p] = "idle" /\ GoTo(p, "open_source")
    /\ \E gc, copy \in BOOLEAN :
         /\ opts' = [opts EXCEPT ![p] = [gc |-> gc, copy |-> copy]]
         /\ stale' = [stale EXCEPT ![p] = IF gc THEN exists \ Owned ELSE {}]
    /\ UNCHANGED <<dirVars, sourceVars, fd, runtime_lock, mutable_lock,
                   copy_lock, gcVars, temp_dir>>

\* Faulty variant: open() without O_CREAT, and no check for errors.
Opened(name, new) == name

\* open() with O_CREAT: the inode that the name refers to, or a new one.
Created(name, new) == IF name = None THEN new ELSE name

\* srt_file_lock_new() with CREATE first opens ${source_files}/.ref ...
OpenSource(p) ==
    /\ pc[p] = "open_source" /\ GoTo(p, "lock_source")
    /\ source # "none"
    /\ source_ref' = Created(source_ref, <<SourceDir, 2>>)
    /\ fd' = [fd EXCEPT ![p] = source_ref']
    /\ UNCHANGED <<dirVars, source, cleaner_lock, opts, runtime_lock,
                   mutable_lock, copy_lock, gcVars, temp_dir, stale>>

\* ... and then locks what it has opened, without waiting.
LockSource(p) ==
    /\ pc[p] = "lock_source"
    /\ GoTo(p, IF opts[p].gc THEN "gc_lock" ELSE "var_lock")
    /\ MayShare(fd[p])
    /\ runtime_lock' = [runtime_lock EXCEPT ![p] = fd[p]]
    /\ fd' = [fd EXCEPT ![p] = None]
    /\ UNCHANGED <<dirVars, sourceVars, opts, mutable_lock, copy_lock, gcVars,
                   temp_dir, stale>>

-----------------------------------------------------------------------------
(* Garbage collection.                                                     *)

NobodyCollects == \A p \in Procs : mutable_lock[p] # "exclusive"

\* Faulty variant: GC is content with a shared lock.
MayCollectToo == NobodyCollects

MayCollect == \A p \in Procs : mutable_lock[p] = "none"

\* An exclusive lock on the variable directory, or GC is skipped.
LockForGC(p) ==
    /\ pc[p] = "gc_lock"
    /\ IF MayCollect
       THEN /\ mutable_lock' = [mutable_lock EXCEPT ![p] = "exclusive"]
            /\ iter' = [iter EXCEPT ![p] = exists]
            /\ GoTo(p, "gc")
       ELSE GoTo(p, "var_lock") /\ UNCHANGED <<mutable_lock, iter>>
    /\ UNCHANGED <<dirVars, sourceVars, opts, fd, runtime_lock, copy_lock,
                   temp_lock, member, temp_dir, stale>>

\* Opening tmp-d/.ref fails if it is a dangling link into no directory.
CanOpenRef(d) == ~(top[d] = Symlink /\ usr[d] = "none")

\* pv_runtime_maybe_garbage_collect_subdir(): look for ./keep, open ./.ref,
\* creating it if necessary, possibly at the other end of the link.
OpenRef(p) ==
    /\ pc[p] = "gc"
    /\ \E d \in iter[p] :
         /\ iter' = [iter EXCEPT ![p] = @ \ {d}]
         /\ IF special[d] = "keep" \/ ~CanOpenRef(d)
            THEN UNCHANGED <<pc, fd, member, usr_ref, top>>
            ELSE /\ GoTo(p, "gc_acquire")
                 /\ member' = [member EXCEPT ![p] = d]
                 /\ top' = [top EXCEPT ![d] = Created(@, <<d, "top">>)]
                 /\ usr_ref' = [usr_ref EXCEPT ![d] =
                        IF top[d] = Symlink THEN Created(@, <<d, "usr">>) ELSE @]
                 /\ fd' = [fd EXCEPT ![p] = IF top'[d] = Symlink THEN usr_ref'[d]
                                            ELSE top'[d]]
    /\ UNCHANGED <<exists, special, usr, sourceVars, opts, runtime_lock,
                   mutable_lock, copy_lock, temp_lock, temp_dir, stale>>

\* Somebody who still uses the directory has a shared lock on it.
LockRef(p) ==
    /\ pc[p] = "gc_acquire"
    /\ IF MayExclude(fd[p])
       THEN /\ temp_lock' = [temp_lock EXCEPT ![p] = fd[p]]
            /\ GoTo(p, "rm")
            /\ UNCHANGED member
       ELSE /\ member' = [member EXCEPT ![p] = None]
            /\ GoTo(p, "gc")
            /\ UNCHANGED temp_lock
    /\ fd' = [fd EXCEPT ![p] = None]
    /\ UNCHANGED <<dirVars, sourceVars, opts, runtime_lock, mutable_lock,
                   copy_lock, iter, temp_dir, stale>>

\* glnx_shutil_rm_rf_at() deletes the members in whatever order it finds them.
RemoveMember(p) ==
    /\ pc[p] = "rm"
    /\ LET d == member[p]
       IN \/ /\ usr[d] # "none"
             /\ usr' = [usr EXCEPT ![d] = "partial"]
             /\ usr_ref' = [usr_ref EXCEPT ![d] = None]
             /\ UNCHANGED top
          \/ /\ usr[d] = "partial" /\ usr_ref[d] = None
             /\ special[d] # "stubborn"
             /\ usr' = [usr EXCEPT ![d] = "none"]
             /\ UNCHANGED <<usr_ref, top>>
          \/ /\ top[d] # None
             /\ top' = [top EXCEPT ![d] = None]
             /\ UNCHANGED <<usr, usr_ref>>
    /\ UNCHANGED <<exists, special, sourceVars, procVars>>

\* Finally it deletes the directory, or gives up; the lock is released.
FinishRemoval(p) ==
    /\ pc[p] = "rm" /\ GoTo(p, "gc")
    /\ \/ /\ usr[member[p]] = "none" /\ top[member[p]] = None
          /\ special[member[p]] # "stubborn"
          /\ exists' = exists \ {member[p]}
       \/ /\ special[member[p]] = "stubborn"
          /\ UNCHANGED exists
    /\ temp_lock' = [temp_lock EXCEPT ![p] = None]
    /\ member' = [member EXCEPT ![p] = None]
    /\ UNCHANGED <<special, usr, usr_ref, top, sourceVars, opts, fd,
                   runtime_lock, mutable_lock, copy_lock, iter, temp_dir,
                   stale>>

FinishGC(p) ==
    /\ pc[p] = "gc" /\ iter[p] = {}
    /\ GoTo(p, "var_lock")
    /\ UNCHANGED <<dirVars, sourceVars, opts, fd, runtime_lock, mutable_lock,
                   copy_lock, gcVars, temp_dir, stale>>

-----------------------------------------------------------------------------
(* pv_runtime_create_copy()                                                *)

\* Without COPY_RUNTIME, the process uses the runtime itself.
UseSource(p) ==
    /\ pc[p] = "var_lock" /\ ~opts[p].copy
    /\ GoTo(p, "return")
    /\ UNCHANGED <<dirVars, sourceVars, opts, fd, runtime_lock, mutable_lock,
                   copy_lock, gcVars, temp_dir, stale>>

\* A lock that was taken for GC is kept, otherwise wait for a shared one.
LockToCopy(p) ==
    /\ pc[p] = "var_lock" /\ opts[p].copy
    /\ GoTo(p, "mkdtemp")
    /\ \/ mutable_lock[p] # "none" /\ UNCHANGED mutable_lock
       \/ /\ mutable_lock[p] = "none" /\ NobodyCollects
          /\ mutable_lock' = [mutable_lock EXCEPT ![p] = "shared"]
    /\ UNCHANGED <<dirVars, sourceVars, opts, fd, runtime_lock, copy_lock,
                   gcVars, temp_dir, stale>>

\* A random name: not one whose deleted .ref somebody still has open.
MakeTempDir(p) ==
    /\ pc[p] = "mkdtemp" /\ GoTo(p, "copy")
    /\ \E d \in Dirs \ (exists \cup Owned) :
         /\ exists' = exists \cup {d}
         /\ special' = [special EXCEPT ![d] = "no"]
         /\ temp_dir' = [temp_dir EXCEPT ![p] = d]
         /\ stale' = [q \in Procs |-> stale[q] \ {d}]
    /\ UNCHANGED <<usr, usr_ref, top, sourceVars, opts, fd, runtime_lock,
                   mutable_lock, copy_lock, gcVars>>

\* The copy consists of hard links, and it may contain one to .ref, which
\* is in usr if that is all there is.
BeginCopy(p) ==
    /\ pc[p] = "copy" /\ GoTo(p, "copying")
    /\ source = "whole"
    /\ usr' = [usr EXCEPT ![temp_dir[p]] = "partial"]
    /\ \E link \in {None, source_ref} :
         IF MergedUsr
         THEN usr_ref' = [usr_ref EXCEPT ![temp_dir[p]] = link] /\ UNCHANGED top
         ELSE top' = [top EXCEPT ![temp_dir[p]] = link] /\ UNCHANGED usr_ref
    /\ UNCHANGED <<exists, special, sourceVars, opts, fd, runtime_lock,
                   mutable_lock, copy_lock, gcVars, temp_dir, stale>>

FinishCopy(p) ==
    /\ pc[p] = "copying" /\ GoTo(p, "unlink")
    /\ source = "whole"
    /\ usr' = [usr EXCEPT ![temp_dir[p]] = "whole"]
    /\ UNCHANGED <<exists, special, usr_ref, top, sourceVars, opts, fd,
                   runtime_lock, mutable_lock, copy_lock, gcVars, temp_dir,
                   stale>>

\* Faulty variant: leave the copy with a hard link to the runtime's .ref.
KeepLink(d) == UNCHANGED <<usr_ref, top>>

\* Break the hard links, so as not to share the state of the lock.
BreakLink(d) ==
    /\ usr_ref' = [usr_ref EXCEPT ![d] = None]
    /\ top' = [top EXCEPT ![d] = None]

UnlinkRefs(p) ==
    /\ pc[p] = "unlink" /\ GoTo(p, "open_copy")
    /\ BreakLink(temp_dir[p])
    /\ UNCHANGED <<exists, special, usr, sourceVars, opts, fd, runtime_lock,
                   mutable_lock, copy_lock, gcVars, temp_dir, stale>>

OpenCopy(p) ==
    /\ pc[p] = "open_copy" /\ GoTo(p, "lock_copy")
    /\ usr_ref' = [usr_ref EXCEPT ![temp_dir[p]] =
                     Created(@, <<temp_dir[p], "usr">>)]
    /\ fd' = [fd EXCEPT ![p] = usr_ref'[temp_dir[p]]]
    /\ UNCHANGED <<exists, special, usr, top, sourceVars, opts, runtime_lock,
                   mutable_lock, copy_lock, gcVars, temp_dir, stale>>

LockCopy(p) ==
    /\ pc[p] = "lock_copy" /\ GoTo(p, "symlink")
    /\ MayShare(fd[p])
    /\ copy_lock' = [copy_lock EXCEPT ![p] = fd[p]]
    /\ fd' = [fd EXCEPT ![p] = None]
    /\ UNCHANGED <<dirVars, sourceVars, opts, runtime_lock, mutable_lock,
                   gcVars, temp_dir, stale>>

\* .ref becomes a link to usr/.ref, but only in the copy of a merged /usr.
LinkRef(d) ==
    IF MergedUsr THEN top' = [top EXCEPT ![d] = Symlink] ELSE UNCHANGED top

MakeSymlink(p) ==
    /\ pc[p] = "symlink" /\ GoTo(p, "handover")
    /\ MergedUsr => top[temp_dir[p]] = None
    /\ LinkRef(temp_dir[p])
    /\ UNCHANGED <<exists, special, usr, usr_ref, sourceVars, opts, fd,
                   runtime_lock, mutable_lock, copy_lock, gcVars, temp_dir,
                   stale>>

\* From a lock on the runtime to a lock on the copy.
HandOver(p) ==
    /\ pc[p] = "handover" /\ GoTo(p, "return")
    /\ runtime_lock' = [runtime_lock EXCEPT ![p] = copy_lock[p]]
    /\ copy_lock' = [copy_lock EXCEPT ![p] = None]
    /\ UNCHANGED <<dirVars, sourceVars, opts, fd, mutable_lock, gcVars,
                   temp_dir, stale>>

\* Faulty variant: the game inherits this lock too.
LeakLock(p) == UNCHANGED mutable_lock

Unlock(p) == mutable_lock' = [mutable_lock EXCEPT ![p] = "none"]

\* The lock on the variable directory is released; pv-adverb and the game
\* inherit runtime_lock.
Return(p) ==
    /\ pc[p] = "return" /\ GoTo(p, "running")
    /\ Unlock(p)
    /\ UNCHANGED <<dirVars, sourceVars, opts, fd, runtime_lock, copy_lock,
                   gcVars, temp_dir, stale>>

\* The process fails, is killed, or the game has ended: at whatever point
\* that is, the kernel closes its files and releases its locks.
End(p) ==
    /\ pc[p] # "idle" /\ GoTo(p, "idle")
    /\ fd' = [fd EXCEPT ![p] = None]
    /\ runtime_lock' = [runtime_lock EXCEPT ![p] = None]
    /\ mutable_lock' = [mutable_lock EXCEPT ![p] = "none"]
    /\ copy_lock' = [copy_lock EXCEPT ![p] = None]
    /\ temp_lock' = [temp_lock EXCEPT ![p] = None]
    /\ iter' = [iter EXCEPT ![p] = {}]
    /\ member' = [member EXCEPT ![p] = None]
    /\ temp_dir' = [temp_dir EXCEPT ![p] = None]
    /\ stale' = [stale EXCEPT ![p] = {}]
    /\ opts' = [opts EXCEPT ![p] = NoOpts]
    /\ UNCHANGED <<dirVars, sourceVars>>

\* Where a step reports an error, the process comes to its end as well.
Fail(p) ==
    /\ \/ pc[p] = "open_source" /\ source = "none"
       \/ pc[p] \in {"lock_source", "lock_copy"} /\ ~MayShare(fd[p])
       \/ pc[p] = "mkdtemp" /\ Dirs \subseteq exists \cup Owned
       \/ pc[p] \in {"copy", "copying"} /\ source # "whole"
    /\ End(p)

-----------------------------------------------------------------------------
(* Somebody who wants to delete an obsolete runtime locks its .ref, as     *)
(* pressure-vessel/locking.md asks them to, and deletes what is in it.     *)

LockToClean ==
    /\ MaxCleanings = 1 /\ source = "whole" /\ cleaner_lock = None
    /\ source_ref # None /\ MayExclude(source_ref)
    /\ cleaner_lock' = source_ref
    /\ UNCHANGED <<dirVars, source, source_ref, procVars>>

CleanSource ==
    /\ cleaner_lock # None
    /\ \/ source' = "partial" /\ UNCHANGED <<source_ref, cleaner_lock>>
       \/ source_ref' = None /\ UNCHANGED <<source, cleaner_lock>>
       \/ /\ source = "partial" /\ source_ref = None
          /\ source' = "none" /\ cleaner_lock' = None /\ UNCHANGED source_ref
    /\ UNCHANGED <<dirVars, procVars>>

-----------------------------------------------------------------------------
LockStep(p) == OpenSource(p) \/ LockSource(p)
GCStep(p)   == \/ LockForGC(p) \/ OpenRef(p) \/ LockRef(p) \/ RemoveMember(p)
               \/ FinishRemoval(p) \/ FinishGC(p)
CopyStep(p) == \/ UseSource(p) \/ MakeTempDir(p) \/ BeginCopy(p)
               \/ FinishCopy(p) \/ UnlinkRefs(p) \/ OpenCopy(p) \/ LockCopy(p)
               \/ MakeSymlink(p) \/ HandOver(p) \/ Return(p)
Step(p) == LockStep(p) \/ GCStep(p) \/ CopyStep(p)

Next == \/ \E p \in Procs : Start(p) \/ Step(p) \/ LockToCopy(p) \/ End(p)
        \/ LockToClean \/ CleanSource

Spec == Init /\ [][Next]_vars

\* Processes run, and those that fail end.  Whoever waits for a lock that is
\* released again and again gets it in the end.  No process has to end, and
\* none has to start.
LiveSpec ==
    /\ Spec
    /\ \A p \in Procs : /\ WF_vars(Step(p)) /\ WF_vars(Fail(p))
                        /\ SF_vars(LockToCopy(p))

-----------------------------------------------------------------------------
(* Properties.                                                             *)

GCPCs     == {"gc", "gc_acquire", "rm"}
CopyPCs   == {"mkdtemp", "copy", "copying", "unlink", "open_copy", "lock_copy",
              "symlink", "handover"}
PCs == GCPCs \cup CopyPCs \cup
       {"idle", "open_source", "lock_source", "gc_lock", "var_lock", "return",
        "running"}

DirTypeOK ==
    /\ exists \in SUBSET Dirs
    /\ special \in [Dirs -> {"no", "keep", "stubborn"}]
    /\ usr \in [Dirs -> Amount]
    /\ usr_ref \in [Dirs -> Inodes \cup {None}]
    /\ top \in [Dirs -> Inodes \cup {None, Symlink}]

SourceTypeOK ==
    /\ source \in Amount
    /\ source_ref \in SourceInodes \cup {None}
    /\ cleaner_lock \in SourceInodes \cup {None}

ProcTypeOK ==
    /\ pc \in [Procs -> PCs]
    /\ opts \in [Procs -> [gc : BOOLEAN, copy : BOOLEAN]]
    /\ mutable_lock \in [Procs -> {"none", "shared", "exclusive"}]
    /\ iter \in [Procs -> SUBSET Dirs] /\ stale \in [Procs -> SUBSET Dirs]
    /\ member \in [Procs -> Dirs \cup {None}]
    /\ temp_dir \in [Procs -> Dirs \cup {None}]

LockTypeOK ==
    /\ fd \in [Procs -> Inodes \cup {None}]
    /\ \A p \in Procs :
         fd[p] # None <=> pc[p] \in {"lock_source", "gc_acquire", "lock_copy"}
    /\ runtime_lock \in [Procs -> Inodes \cup {None}]
    /\ copy_lock \in [Procs -> Inodes \cup {None}]
    /\ temp_lock \in [Procs -> Inodes \cup {None}]

\* The type invariant of the module.
TypeOK == DirTypeOK /\ SourceTypeOK /\ ProcTypeOK /\ LockTypeOK

\* Garbage collection never takes away a copy that a process is making, or
\* that its game is using: the directory stays, and what has been copied
\* stays complete.
CopyIntact ==
    \A p \in Procs :
        temp_dir[p] # None =>
            /\ temp_dir[p] \in exists
            /\ pc[p] \notin {"copy", "copying"} => usr[temp_dir[p]] = "whole"

\* What GC cannot delete: by request, for lack of permission, or because of
\* what a process has left behind when it was killed, see below.
Damaged(d) == \/ top[d] = Symlink /\ usr[d] = "none"
              \/ top[d] \in SourceInodes
Undeletable == { d \in Dirs : special[d] # "no" \/ Damaged(d) }

\* GC that takes place deletes every directory that nobody was using when
\* the process started, whatever the other processes do meanwhile.
CollectsUnused ==
    \A p \in Procs : pc[p] = "gc" /\ iter[p] = {} =>
        stale[p] \cap exists \subseteq Undeletable

\* A process that waits for the lock on the variable directory gets it,
\* although games run for any length of time.
CopyProceeds ==
    \A p \in Procs : (pc[p] = "var_lock") ~> (pc[p] # "var_lock")

=============================================================================
