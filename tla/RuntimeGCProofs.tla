--------------------------- MODULE RuntimeGCProofs ---------------------------
(***************************************************************************)
(* Proofs about RuntimeGC, for any number of processes and of directories: *)
(* copies of a merged /usr that are in use stay intact, and garbage        *)
(* collection misses nothing that it could delete.                         *)
(*                                                                         *)
(* The argument: whoever makes a copy has a lock on the variable           *)
(* directory, and whoever collects garbage has an exclusive one, so the    *)
(* only copies that garbage collection can meet are complete.  Those that  *)
(* are in use have a .ref that leads to the inode on which their owner     *)
(* holds a shared lock, so the attempt to lock it exclusively fails.       *)
(***************************************************************************)
EXTENDS RuntimeGC, TLAPS

\* The lock on the variable directory: held while it matters, and exclusive.
VarLockOK ==
    /\ \A p \in Procs : pc[p] \in GCPCs => mutable_lock[p] = "exclusive"
    /\ \A p \in Procs : pc[p] \in CopyPCs => mutable_lock[p] # "none"
    /\ \A p, q \in Procs :
         p # q /\ mutable_lock[p] = "exclusive" => mutable_lock[q] = "none"

\* A directory that does not exist has no content.
GoneOK ==
    \A d \in Dirs \ exists : usr[d] = "none" /\ usr_ref[d] = None /\ top[d] = None

\* What the names .ref and usr/.ref can refer to.
NamesOK ==
    \A d \in Dirs :
        /\ usr_ref[d] \in {None, <<d, "usr">>} \cup SourceInodes
        /\ top[d] \in {None, Symlink, <<d, "top">>} \cup SourceInodes
        /\ top[d] = Symlink => usr_ref[d] \notin SourceInodes
        /\ usr[d] = "none" => usr_ref[d] = None

\* Every process that has got that far has a directory of its own.
OwnerOK ==
    /\ \A p \in Procs : temp_dir[p] # None =>
         /\ temp_dir[p] \in exists
         /\ pc[p] \in (CopyPCs \ {"mkdtemp"}) \cup {"return", "running"}
    /\ \A p \in Procs : pc[p] \in CopyPCs \ {"mkdtemp"} => temp_dir[p] # None
    /\ \A p, q \in Procs :
         p # q /\ temp_dir[p] # None => temp_dir[p] # temp_dir[q]

\* How far the copy that p owns has come.
CopyOK(p) ==
    LET d == temp_dir[p]
        inode == <<d, "usr">>
    IN /\ pc[p] \in {"copy", "copying", "open_copy", "lock_copy", "symlink"} =>
            top[d] = None
       /\ pc[p] \notin {"copy", "copying"} => usr[d] = "whole"
       /\ pc[p] = "open_copy" => usr_ref[d] = None
       /\ pc[p] = "lock_copy" => usr_ref[d] = inode /\ fd[p] = inode
       /\ pc[p] \in {"symlink", "handover"} =>
            usr_ref[d] = inode /\ copy_lock[p] = inode
       /\ pc[p] = "handover" => top[d] = Symlink
       /\ pc[p] \in {"return", "running"} =>
            /\ usr_ref[d] = inode /\ runtime_lock[p] = inode
            /\ top[d] = Symlink

CopiesOK == \A p \in Procs : temp_dir[p] # None => CopyOK(p)

\* What GC has opened, and that nobody owns what it is deleting.
MemberOK ==
    \A p \in Procs :
        /\ pc[p] \in {"gc_acquire", "rm"} => member[p] \in Dirs
        /\ pc[p] \notin {"gc_acquire", "rm"} => member[p] = None
        /\ pc[p] = "gc_acquire" =>
             fd[p] = IF top[member[p]] = Symlink THEN usr_ref[member[p]]
                     ELSE top[member[p]]
        /\ pc[p] = "rm" => member[p] \notin Owned
        /\ pc[p] \in GCPCs => iter[p] \subseteq exists /\ member[p] \notin iter[p]

\* Locks on copies are held by their owners, or by the process that is
\* about to delete them.
LocksOK ==
    \A p \in Procs :
        /\ \A i \in {runtime_lock[p], copy_lock[p]} :
             \/ i \in {None} \cup SourceInodes
             \/ temp_dir[p] # None /\ i = <<temp_dir[p], "usr">>
        /\ temp_lock[p] # None => pc[p] = "rm"
        /\ pc[p] = "lock_source" => fd[p] \in SourceInodes

\* GC has deleted what it has passed, if it could.
ProgressOK ==
    \A p \in Procs :
        /\ stale[p] \cap Owned = {}
        /\ pc[p] \in GCPCs => \A d \in stale[p] \cap exists :
             \/ d \in iter[p] \/ d \in Undeletable
             \/ pc[p] # "gc" /\ d = member[p]

IInv == /\ TypeOK /\ VarLockOK /\ GoneOK /\ NamesOK /\ OwnerOK /\ CopiesOK
        /\ MemberOK /\ LocksOK /\ ProgressOK

-----------------------------------------------------------------------------
(* Inodes and directories.                                                 *)

\* The inodes of copies are in Inodes and differ from each other, from those
\* of the runtime, and from None and Symlink.
LEMMA InodeFacts ==
    /\ \A d \in Dirs : <<d, "usr">> \in Inodes /\ <<d, "top">> \in Inodes
    /\ SourceInodes \subseteq Inodes
    /\ <<SourceDir, 1>> \in SourceInodes /\ <<SourceDir, 2>> \in SourceInodes
    /\ None \notin Inodes /\ Symlink \notin Inodes /\ None # Symlink
    /\ \A d \in Dirs : <<d, "usr">> \notin SourceInodes /\ <<d, "top">> \notin SourceInodes
    /\ \A d, e \in Dirs : <<d, "usr">> = <<e, "usr">> => d = e
    /\ \A d, e \in Dirs : <<d, "usr">> # <<e, "top">>
BY InodesAssumption, NamesAssumption DEF Inodes, SourceInodes, CopyInodes

\* The directory that a step is about exists as a name.
LEMMA DirFacts ==
    ASSUME IInv, NEW p \in Procs
    PROVE  /\ pc[p] \in {"gc_acquire", "rm"} => member[p] \in Dirs
           /\ pc[p] \in CopyPCs \ {"mkdtemp"} => temp_dir[p] \in Dirs
           /\ iter[p] \subseteq Dirs
BY DEF IInv, MemberOK, OwnerOK, TypeOK, ProcTypeOK

-----------------------------------------------------------------------------
(* Type correctness.                                                       *)

\* Every step keeps the directories well formed.
LEMMA DirTypeNext ==
    ASSUME IInv, [Next]_vars
    PROVE  DirTypeOK'
<1> USE DirFacts, InodeFacts DEF IInv, TypeOK, DirTypeOK, SourceTypeOK, Amount,
        dirVars
<1>1. ASSUME NEW p \in Procs, Start(p) PROVE DirTypeOK'
  BY <1>1 DEF Start, GoTo
<1>2. ASSUME NEW p \in Procs, OpenSource(p) PROVE DirTypeOK'
  BY <1>2 DEF OpenSource, GoTo, Created
<1>3. ASSUME NEW p \in Procs, LockSource(p) PROVE DirTypeOK'
  BY <1>3 DEF LockSource, GoTo
<1>4. ASSUME NEW p \in Procs, LockForGC(p) PROVE DirTypeOK'
  BY <1>4 DEF LockForGC, GoTo
<1>5. ASSUME NEW p \in Procs, OpenRef(p) PROVE DirTypeOK'
  <2>1. PICK d \in iter[p] :
         IF special[d] = "keep" \/ ~CanOpenRef(d)
         THEN UNCHANGED <<usr_ref, top>>
         ELSE /\ top' = [top EXCEPT ![d] = Created(@, <<d, "top">>)]
              /\ usr_ref' = [usr_ref EXCEPT ![d] =
                   IF top[d] = Symlink THEN Created(@, <<d, "usr">>) ELSE @]
    BY <1>5 DEF OpenRef
  <2>2. d \in Dirs /\ <<d, "top">> \in Inodes /\ <<d, "usr">> \in Inodes
    BY DirFacts, InodeFacts
  <2>3. UNCHANGED <<exists, special, usr>>
    BY <1>5 DEF OpenRef
  <2>4. CASE UNCHANGED <<usr_ref, top>>
    BY <2>3, <2>4
  <2>5. CASE /\ top' = [top EXCEPT ![d] = Created(@, <<d, "top">>)]
             /\ usr_ref' = [usr_ref EXCEPT ![d] =
                  IF top[d] = Symlink THEN Created(@, <<d, "usr">>) ELSE @]
    <3>1. Created(top[d], <<d, "top">>) \in Inodes \cup {None, Symlink}
      BY <2>2 DEF Created
    <3>2. (IF top[d] = Symlink THEN Created(usr_ref[d], <<d, "usr">>)
           ELSE usr_ref[d]) \in Inodes \cup {None}
      BY <2>2 DEF Created
    <3> QED BY <2>2, <2>3, <2>5, <3>1, <3>2
  <2> QED BY <2>1, <2>4, <2>5
<1>6. ASSUME NEW p \in Procs, LockRef(p) PROVE DirTypeOK'
  BY <1>6 DEF LockRef, GoTo
<1>7. ASSUME NEW p \in Procs, RemoveMember(p) PROVE DirTypeOK'
  <2>1. member[p] \in Dirs
    BY <1>7, DirFacts DEF RemoveMember
  <2>2. UNCHANGED <<exists, special>>
    BY <1>7 DEF RemoveMember
  <2>3. /\ usr' \in {usr, [usr EXCEPT ![member[p]] = "partial"],
                     [usr EXCEPT ![member[p]] = "none"]}
        /\ usr_ref' \in {usr_ref, [usr_ref EXCEPT ![member[p]] = None]}
        /\ top' \in {top, [top EXCEPT ![member[p]] = None]}
    BY <1>7 DEF RemoveMember
  <2> QED BY <2>1, <2>2, <2>3
<1>8. ASSUME NEW p \in Procs, FinishRemoval(p) PROVE DirTypeOK'
  BY <1>8 DEF FinishRemoval, GoTo
<1>9. ASSUME NEW p \in Procs, FinishGC(p) PROVE DirTypeOK'
  BY <1>9 DEF FinishGC, GoTo
<1>10. ASSUME NEW p \in Procs, UseSource(p) PROVE DirTypeOK'
  BY <1>10 DEF UseSource, GoTo
<1>11. ASSUME NEW p \in Procs, MakeTempDir(p) PROVE DirTypeOK'
  BY <1>11 DEF MakeTempDir, GoTo
<1>12. ASSUME NEW p \in Procs, BeginCopy(p) PROVE DirTypeOK'
  <2>1. temp_dir[p] \in Dirs
    BY <1>12, DirFacts DEF BeginCopy, CopyPCs
  <2>2. PICK link \in {None, source_ref} :
          /\ usr_ref' \in {usr_ref, [usr_ref EXCEPT ![temp_dir[p]] = link]}
          /\ top' \in {top, [top EXCEPT ![temp_dir[p]] = link]}
    BY <1>12 DEF BeginCopy
  <2>3. link \in Inodes \cup {None}
    BY InodeFacts
  <2>4. UNCHANGED <<exists, special>> /\ usr' = [usr EXCEPT ![temp_dir[p]] = "partial"]
    BY <1>12 DEF BeginCopy
  <2> QED BY <2>1, <2>2, <2>3, <2>4
<1>13. ASSUME NEW p \in Procs, FinishCopy(p) PROVE DirTypeOK'
  BY <1>13 DEF FinishCopy, GoTo, CopyPCs
<1>14. ASSUME NEW p \in Procs, UnlinkRefs(p) PROVE DirTypeOK'
  BY <1>14 DEF UnlinkRefs, GoTo, BreakLink, CopyPCs
<1>15. ASSUME NEW p \in Procs, OpenCopy(p) PROVE DirTypeOK'
  BY <1>15 DEF OpenCopy, GoTo, Created, CopyPCs
<1>16. ASSUME NEW p \in Procs, LockCopy(p) PROVE DirTypeOK'
  BY <1>16 DEF LockCopy, GoTo
<1>17. ASSUME NEW p \in Procs, MakeSymlink(p) PROVE DirTypeOK'
  <2>1. temp_dir[p] \in Dirs
    BY <1>17, DirFacts DEF MakeSymlink, CopyPCs
  <2>2. top' \in {top, [top EXCEPT ![temp_dir[p]] = Symlink]}
    BY <1>17 DEF MakeSymlink, LinkRef
  <2>3. UNCHANGED <<exists, special, usr, usr_ref>>
    BY <1>17 DEF MakeSymlink
  <2> QED BY <2>1, <2>2, <2>3
<1>18. ASSUME NEW p \in Procs, HandOver(p) PROVE DirTypeOK'
  BY <1>18 DEF HandOver, GoTo
<1>19. ASSUME NEW p \in Procs, Return(p) PROVE DirTypeOK'
  BY <1>19 DEF Return, GoTo, Unlock
<1>20. ASSUME NEW p \in Procs, LockToCopy(p) PROVE DirTypeOK'
  BY <1>20 DEF LockToCopy, GoTo
<1>21. ASSUME NEW p \in Procs, End(p) PROVE DirTypeOK'
  BY <1>21 DEF End, GoTo
<1>22. CASE LockToClean
  BY <1>22 DEF LockToClean
<1>23. CASE CleanSource
  BY <1>23 DEF CleanSource
<1>24. CASE UNCHANGED vars
  BY <1>24 DEF vars, dirVars, sourceVars, procVars, gcVars
<1> QED BY <1>1, <1>2, <1>3, <1>4, <1>5, <1>6, <1>7, <1>8, <1>9, <1>10, <1>11, <1>12, <1>13, <1>14, <1>15, <1>16, <1>17, <1>18, <1>19, <1>20, <1>21, <1>22, <1>23, <1>24 DEF Next, Step, LockStep, GCStep, CopyStep

\* Every step keeps the runtime well formed.
LEMMA SourceTypeNext ==
    ASSUME IInv, [Next]_vars
    PROVE  SourceTypeOK'
<1> USE InodeFacts DEF IInv, TypeOK, SourceTypeOK, Amount, sourceVars
<1>1. ASSUME NEW p \in Procs, Start(p) PROVE SourceTypeOK'
  BY <1>1 DEF Start, GoTo
<1>2. ASSUME NEW p \in Procs, OpenSource(p) PROVE SourceTypeOK'
  BY <1>2 DEF OpenSource, GoTo, Created
<1>3. ASSUME NEW p \in Procs, LockSource(p) PROVE SourceTypeOK'
  BY <1>3 DEF LockSource, GoTo
<1>4. ASSUME NEW p \in Procs, LockForGC(p) PROVE SourceTypeOK'
  BY <1>4 DEF LockForGC, GoTo
<1>5. ASSUME NEW p \in Procs, OpenRef(p) PROVE SourceTypeOK'
  BY <1>5 DEF OpenRef, GoTo, Created
<1>6. ASSUME NEW p \in Procs, LockRef(p) PROVE SourceTypeOK'
  BY <1>6 DEF LockRef, GoTo
<1>7. ASSUME NEW p \in Procs, RemoveMember(p) PROVE SourceTypeOK'
  BY <1>7 DEF RemoveMember, GoTo
<1>8. ASSUME NEW p \in Procs, FinishRemoval(p) PROVE SourceTypeOK'
  BY <1>8 DEF FinishRemoval, GoTo
<1>9. ASSUME NEW p \in Procs, FinishGC(p) PROVE SourceTypeOK'
  BY <1>9 DEF FinishGC, GoTo
<1>10. ASSUME NEW p \in Procs, UseSource(p) PROVE SourceTypeOK'
  BY <1>10 DEF UseSource, GoTo
<1>11. ASSUME NEW p \in Procs, MakeTempDir(p) PROVE SourceTypeOK'
  BY <1>11 DEF MakeTempDir, GoTo
<1>12. ASSUME NEW p \in Procs, BeginCopy(p) PROVE SourceTypeOK'
  BY <1>12 DEF BeginCopy, GoTo
<1>13. ASSUME NEW p \in Procs, FinishCopy(p) PROVE SourceTypeOK'
  BY <1>13 DEF FinishCopy, GoTo
<1>14. ASSUME NEW p \in Procs, UnlinkRefs(p) PROVE SourceTypeOK'
  BY <1>14 DEF UnlinkRefs, GoTo, BreakLink
<1>15. ASSUME NEW p \in Procs, OpenCopy(p) PROVE SourceTypeOK'
  BY <1>15 DEF OpenCopy, GoTo, Created
<1>16. ASSUME NEW p \in Procs, LockCopy(p) PROVE SourceTypeOK'
  BY <1>16 DEF LockCopy, GoTo
<1>17. ASSUME NEW p \in Procs, MakeSymlink(p) PROVE SourceTypeOK'
  BY <1>17 DEF MakeSymlink, GoTo, LinkRef
<1>18. ASSUME NEW p \in Procs, HandOver(p) PROVE SourceTypeOK'
  BY <1>18 DEF HandOver, GoTo
<1>19. ASSUME NEW p \in Procs, Return(p) PROVE SourceTypeOK'
  BY <1>19 DEF Return, GoTo, Unlock
<1>20. ASSUME NEW p \in Procs, LockToCopy(p) PROVE SourceTypeOK'
  BY <1>20 DEF LockToCopy, GoTo
<1>21. ASSUME NEW p \in Procs, End(p) PROVE SourceTypeOK'
  BY <1>21 DEF End, GoTo
<1>22. CASE LockToClean
  BY <1>22 DEF LockToClean
<1>23. CASE CleanSource
  BY <1>23 DEF CleanSource
<1>24. CASE UNCHANGED vars
  BY <1>24 DEF vars, dirVars, sourceVars, procVars, gcVars
<1> QED BY <1>1, <1>2, <1>3, <1>4, <1>5, <1>6, <1>7, <1>8, <1>9, <1>10, <1>11, <1>12, <1>13, <1>14, <1>15, <1>16, <1>17, <1>18, <1>19, <1>20, <1>21, <1>22, <1>23, <1>24 DEF Next, Step, LockStep, GCStep, CopyStep

\* Every step keeps the processes' variables well formed.
LEMMA ProcTypeNext ==
    ASSUME IInv, [Next]_vars
    PROVE  ProcTypeOK'
<1> USE DEF IInv, TypeOK, DirTypeOK, ProcTypeOK, PCs, GCPCs, CopyPCs, NoOpts,
        procVars, gcVars
<1>1. ASSUME NEW p \in Procs, Start(p) PROVE ProcTypeOK'
  BY <1>1 DEF Start, GoTo
<1>2. ASSUME NEW p \in Procs, OpenSource(p) PROVE ProcTypeOK'
  BY <1>2 DEF OpenSource, GoTo, Created
<1>3. ASSUME NEW p \in Procs, LockSource(p) PROVE ProcTypeOK'
  BY <1>3 DEF LockSource, GoTo
<1>4. ASSUME NEW p \in Procs, LockForGC(p) PROVE ProcTypeOK'
  <2>1. \/ /\ pc' = [pc EXCEPT ![p] = "gc"]
           /\ mutable_lock' = [mutable_lock EXCEPT ![p] = "exclusive"]
           /\ iter' = [iter EXCEPT ![p] = exists]
        \/ /\ pc' = [pc EXCEPT ![p] = "var_lock"]
           /\ UNCHANGED <<mutable_lock, iter>>
    BY <1>4 DEF LockForGC, GoTo
  <2>2. UNCHANGED <<opts, stale, member, temp_dir>>
    BY <1>4 DEF LockForGC
  <2> QED BY <2>1, <2>2
<1>5. ASSUME NEW p \in Procs, OpenRef(p) PROVE ProcTypeOK'
  <2>1. PICK d \in iter[p] :
          /\ iter' = [iter EXCEPT ![p] = @ \ {d}]
          /\ \/ UNCHANGED <<pc, member>>
             \/ /\ pc' = [pc EXCEPT ![p] = "gc_acquire"]
                /\ member' = [member EXCEPT ![p] = d]
    BY <1>5 DEF OpenRef, GoTo
  <2>2. UNCHANGED <<opts, stale, mutable_lock, temp_dir>>
    BY <1>5 DEF OpenRef
  <2> QED BY <2>1, <2>2
<1>6. ASSUME NEW p \in Procs, LockRef(p) PROVE ProcTypeOK'
  <2>1. \/ pc' = [pc EXCEPT ![p] = "rm"] /\ UNCHANGED member
        \/ /\ pc' = [pc EXCEPT ![p] = "gc"]
           /\ member' = [member EXCEPT ![p] = None]
    BY <1>6 DEF LockRef, GoTo
  <2>2. UNCHANGED <<opts, stale, mutable_lock, temp_dir, iter>>
    BY <1>6 DEF LockRef
  <2> QED BY <2>1, <2>2
<1>7. ASSUME NEW p \in Procs, RemoveMember(p) PROVE ProcTypeOK'
  BY <1>7 DEF RemoveMember, GoTo
<1>8. ASSUME NEW p \in Procs, FinishRemoval(p) PROVE ProcTypeOK'
  BY <1>8 DEF FinishRemoval, GoTo
<1>9. ASSUME NEW p \in Procs, FinishGC(p) PROVE ProcTypeOK'
  BY <1>9 DEF FinishGC, GoTo
<1>10. ASSUME NEW p \in Procs, UseSource(p) PROVE ProcTypeOK'
  BY <1>10 DEF UseSource, GoTo
<1>11. ASSUME NEW p \in Procs, MakeTempDir(p) PROVE ProcTypeOK'
  BY <1>11 DEF MakeTempDir, GoTo
<1>12. ASSUME NEW p \in Procs, BeginCopy(p) PROVE ProcTypeOK'
  BY <1>12 DEF BeginCopy, GoTo
<1>13. ASSUME NEW p \in Procs, FinishCopy(p) PROVE ProcTypeOK'
  BY <1>13 DEF FinishCopy, GoTo
<1>14. ASSUME NEW p \in Procs, UnlinkRefs(p) PROVE ProcTypeOK'
  BY <1>14 DEF UnlinkRefs, GoTo, BreakLink
<1>15. ASSUME NEW p \in Procs, OpenCopy(p) PROVE ProcTypeOK'
  BY <1>15 DEF OpenCopy, GoTo, Created
<1>16. ASSUME NEW p \in Procs, LockCopy(p) PROVE ProcTypeOK'
  BY <1>16 DEF LockCopy, GoTo
<1>17. ASSUME NEW p \in Procs, MakeSymlink(p) PROVE ProcTypeOK'
  BY <1>17 DEF MakeSymlink, GoTo, LinkRef
<1>18. ASSUME NEW p \in Procs, HandOver(p) PROVE ProcTypeOK'
  BY <1>18 DEF HandOver, GoTo
<1>19. ASSUME NEW p \in Procs, Return(p) PROVE ProcTypeOK'
  BY <1>19 DEF Return, GoTo, Unlock
<1>20. ASSUME NEW p \in Procs, LockToCopy(p) PROVE ProcTypeOK'
  BY <1>20 DEF LockToCopy, GoTo
<1>21. ASSUME NEW p \in Procs, End(p) PROVE ProcTypeOK'
  BY <1>21 DEF End, GoTo
<1>22. CASE LockToClean
  BY <1>22 DEF LockToClean
<1>23. CASE CleanSource
  BY <1>23 DEF CleanSource
<1>24. CASE UNCHANGED vars
  BY <1>24 DEF vars, dirVars, sourceVars, procVars, gcVars
<1> QED BY <1>1, <1>2, <1>3, <1>4, <1>5, <1>6, <1>7, <1>8, <1>9, <1>10, <1>11, <1>12, <1>13, <1>14, <1>15, <1>16, <1>17, <1>18, <1>19, <1>20, <1>21, <1>22, <1>23, <1>24 DEF Next, Step, LockStep, GCStep, CopyStep

\* Every step keeps the locks well formed.
LEMMA LockTypeNext ==
    ASSUME IInv, [Next]_vars
    PROVE  LockTypeOK'
<1> USE DEF IInv, TypeOK, ProcTypeOK, LockTypeOK, PCs, GCPCs, CopyPCs, procVars, gcVars
<1>1. ASSUME NEW p \in Procs, Start(p) PROVE LockTypeOK'
  BY <1>1 DEF Start, GoTo
<1>2. ASSUME NEW p \in Procs, OpenSource(p) PROVE LockTypeOK'
  <2>1. Created(source_ref, <<SourceDir, 2>>) \in Inodes
    BY InodeFacts DEF Created, SourceTypeOK
  <2>2. /\ fd' = [fd EXCEPT ![p] = Created(source_ref, <<SourceDir, 2>>)]
        /\ pc' = [pc EXCEPT ![p] = "lock_source"]
        /\ UNCHANGED <<runtime_lock, copy_lock, temp_lock>>
    BY <1>2 DEF OpenSource, GoTo
  <2> QED BY <2>1, <2>2, InodeFacts
<1>3. ASSUME NEW p \in Procs, LockSource(p) PROVE LockTypeOK'
  BY <1>3 DEF LockSource, GoTo
<1>4. ASSUME NEW p \in Procs, LockForGC(p) PROVE LockTypeOK'
  <2>1. /\ pc[p] = "gc_lock"
        /\ \E step \in {"gc", "var_lock"} : pc' = [pc EXCEPT ![p] = step]
        /\ UNCHANGED <<fd, runtime_lock, copy_lock, temp_lock>>
    BY <1>4 DEF LockForGC, GoTo
  <2> QED BY <2>1
<1>5. ASSUME NEW p \in Procs, OpenRef(p) PROVE LockTypeOK'
  <2>1. PICK d \in iter[p] :
         IF special[d] = "keep" \/ ~CanOpenRef(d)
         THEN UNCHANGED <<pc, fd>>
         ELSE /\ pc' = [pc EXCEPT ![p] = "gc_acquire"]
              /\ top' = [top EXCEPT ![d] = Created(@, <<d, "top">>)]
              /\ usr_ref' = [usr_ref EXCEPT ![d] =
                   IF top[d] = Symlink THEN Created(@, <<d, "usr">>) ELSE @]
              /\ fd' = [fd EXCEPT ![p] =
                   IF top'[d] = Symlink THEN usr_ref'[d] ELSE top'[d]]
    BY <1>5 DEF OpenRef, GoTo
  <2>2. d \in Dirs /\ <<d, "top">> \in Inodes /\ <<d, "usr">> \in Inodes
    BY DirFacts, InodeFacts
  <2>3. pc[p] = "gc" /\ UNCHANGED <<runtime_lock, copy_lock, temp_lock>>
    BY <1>5 DEF OpenRef
  <2>4. CASE UNCHANGED <<pc, fd>>
    BY <2>3, <2>4
  <2>5. CASE ~(special[d] = "keep" \/ ~CanOpenRef(d))
    <3> DEFINE t == Created(top[d], <<d, "top">>)
               u == IF top[d] = Symlink THEN Created(usr_ref[d], <<d, "usr">>)
                    ELSE usr_ref[d]
    <3>1. top'[d] = t /\ usr_ref'[d] = u
      BY <2>1, <2>2, <2>5 DEF DirTypeOK
    <3>2. (IF t = Symlink THEN u ELSE t) \in Inodes
      BY <2>2, InodeFacts DEF Created, DirTypeOK
    <3>3. PICK i \in Inodes : fd' = [fd EXCEPT ![p] = i]
      BY <2>1, <2>5, <3>1, <3>2
    <3>4. pc' = [pc EXCEPT ![p] = "gc_acquire"]
      BY <2>1, <2>5
    <3>5. i # None
      BY InodeFacts
    <3> QED BY <2>3, <3>3, <3>4, <3>5
  <2> QED BY <2>1, <2>4, <2>5
<1>6. ASSUME NEW p \in Procs, LockRef(p) PROVE LockTypeOK'
  BY <1>6 DEF LockRef, GoTo
<1>7. ASSUME NEW p \in Procs, RemoveMember(p) PROVE LockTypeOK'
  BY <1>7 DEF RemoveMember, GoTo
<1>8. ASSUME NEW p \in Procs, FinishRemoval(p) PROVE LockTypeOK'
  BY <1>8 DEF FinishRemoval, GoTo
<1>9. ASSUME NEW p \in Procs, FinishGC(p) PROVE LockTypeOK'
  BY <1>9 DEF FinishGC, GoTo
<1>10. ASSUME NEW p \in Procs, UseSource(p) PROVE LockTypeOK'
  BY <1>10 DEF UseSource, GoTo
<1>11. ASSUME NEW p \in Procs, MakeTempDir(p) PROVE LockTypeOK'
  BY <1>11 DEF MakeTempDir, GoTo
<1>12. ASSUME NEW p \in Procs, BeginCopy(p) PROVE LockTypeOK'
  BY <1>12 DEF BeginCopy, GoTo
<1>13. ASSUME NEW p \in Procs, FinishCopy(p) PROVE LockTypeOK'
  BY <1>13 DEF FinishCopy, GoTo
<1>14. ASSUME NEW p \in Procs, UnlinkRefs(p) PROVE LockTypeOK'
  BY <1>14 DEF UnlinkRefs, GoTo, BreakLink
<1>15. ASSUME NEW p \in Procs, OpenCopy(p) PROVE LockTypeOK'
  <2>1. temp_dir[p] \in Dirs
    BY <1>15, DirFacts DEF OpenCopy, CopyPCs
  <2>2. /\ pc' = [pc EXCEPT ![p] = "lock_copy"]
        /\ fd' = [fd EXCEPT ![p] = Created(usr_ref[temp_dir[p]], <<temp_dir[p], "usr">>)]
        /\ UNCHANGED <<runtime_lock, copy_lock, temp_lock>>
    BY <1>15, <2>1 DEF OpenCopy, GoTo, DirTypeOK
  <2>3. usr_ref[temp_dir[p]] \in Inodes \cup {None}
    BY <2>1 DEF DirTypeOK
  <2>4. <<temp_dir[p], "usr">> \in Inodes
    BY <2>1, InodeFacts
  <2>5. Created(usr_ref[temp_dir[p]], <<temp_dir[p], "usr">>) \in Inodes
    BY <2>3, <2>4 DEF Created
  <2> QED BY <2>2, <2>5, InodeFacts
<1>16. ASSUME NEW p \in Procs, LockCopy(p) PROVE LockTypeOK'
  BY <1>16 DEF LockCopy, GoTo
<1>17. ASSUME NEW p \in Procs, MakeSymlink(p) PROVE LockTypeOK'
  BY <1>17 DEF MakeSymlink, GoTo, LinkRef
<1>18. ASSUME NEW p \in Procs, HandOver(p) PROVE LockTypeOK'
  BY <1>18 DEF HandOver, GoTo
<1>19. ASSUME NEW p \in Procs, Return(p) PROVE LockTypeOK'
  BY <1>19 DEF Return, GoTo, Unlock
<1>20. ASSUME NEW p \in Procs, LockToCopy(p) PROVE LockTypeOK'
  BY <1>20 DEF LockToCopy, GoTo
<1>21. ASSUME NEW p \in Procs, End(p) PROVE LockTypeOK'
  BY <1>21 DEF End, GoTo
<1>22. CASE LockToClean
  BY <1>22 DEF LockToClean
<1>23. CASE CleanSource
  BY <1>23 DEF CleanSource
<1>24. CASE UNCHANGED vars
  BY <1>24 DEF vars, dirVars, sourceVars, procVars, gcVars
<1> QED BY <1>1, <1>2, <1>3, <1>4, <1>5, <1>6, <1>7, <1>8, <1>9, <1>10, <1>11, <1>12, <1>13, <1>14, <1>15, <1>16, <1>17, <1>18, <1>19, <1>20, <1>21, <1>22, <1>23, <1>24 DEF Next, Step, LockStep, GCStep, CopyStep

-----------------------------------------------------------------------------
(* Who may change what.                                                    *)

\* While a process collects garbage, no other does, and none makes a copy.
LEMMA GCAlone ==
    ASSUME IInv, NEW p \in Procs, NEW q \in Procs, p # q, pc[p] \in GCPCs
    PROVE  pc[q] \notin GCPCs \cup CopyPCs
BY DEF IInv, VarLockOK

\* Garbage collection either passes d, which it then cannot delete, or opens
\* its lock file.
OpensOrPasses(p, d) ==
    /\ d \in Dirs /\ d \in exists
    /\ iter' = [iter EXCEPT ![p] = @ \ {d}]
    /\ \A e \in Dirs \ {d} : top'[e] = top[e] /\ usr_ref'[e] = usr_ref[e]
    /\ \/ UNCHANGED <<pc, fd, member, top, usr_ref>> /\ d \in Undeletable
       \/ /\ pc' = [pc EXCEPT ![p] = "gc_acquire"]
          /\ member' = [member EXCEPT ![p] = d]
          /\ top[d] = Symlink => usr[d] # "none"
          /\ top'[d] = Created(top[d], <<d, "top">>)
          /\ usr_ref'[d] = IF top[d] = Symlink
                           THEN Created(usr_ref[d], <<d, "usr">>)
                           ELSE usr_ref[d]
          /\ fd' = [fd EXCEPT ![p] = IF top'[d] = Symlink THEN usr_ref'[d]
                                     ELSE top'[d]]

\* That is what a step of garbage collection does for some directory.
LEMMA OpenRefEffect ==
    ASSUME IInv, NEW p \in Procs, OpenRef(p)
    PROVE  \E d \in iter[p] : OpensOrPasses(p, d)
<1>1. PICK d \in iter[p] :
         /\ iter' = [iter EXCEPT ![p] = @ \ {d}]
         /\ IF special[d] = "keep" \/ ~CanOpenRef(d)
            THEN UNCHANGED <<pc, fd, member, usr_ref, top>>
            ELSE /\ pc' = [pc EXCEPT ![p] = "gc_acquire"]
                 /\ member' = [member EXCEPT ![p] = d]
                 /\ top' = [top EXCEPT ![d] = Created(@, <<d, "top">>)]
                 /\ usr_ref' = [usr_ref EXCEPT ![d] =
                      IF top[d] = Symlink THEN Created(@, <<d, "usr">>) ELSE @]
                 /\ fd' = [fd EXCEPT ![p] =
                      IF top'[d] = Symlink THEN usr_ref'[d] ELSE top'[d]]
  BY DEF OpenRef, GoTo
<1>2. d \in Dirs /\ d \in exists
  BY DEF OpenRef, IInv, MemberOK, GCPCs, TypeOK, ProcTypeOK
<1>3. CASE special[d] = "keep" \/ ~CanOpenRef(d)
  BY <1>1, <1>2, <1>3 DEF OpensOrPasses, CanOpenRef, Undeletable, Damaged
<1>4. CASE ~(special[d] = "keep" \/ ~CanOpenRef(d))
  BY <1>1, <1>2, <1>4 DEF OpensOrPasses, IInv, TypeOK, DirTypeOK, CanOpenRef
<1> QED BY <1>3, <1>4

\* In the directory of a copy that is complete, nothing is missing that GC
\* would create.
LEMMA OpenRefSparesCopies ==
    ASSUME IInv, MergedUsr, NEW p \in Procs, OpenRef(p)
    PROVE  \A q \in Procs : temp_dir[q] # None =>
             /\ top'[temp_dir[q]] = top[temp_dir[q]]
             /\ usr_ref'[temp_dir[q]] = usr_ref[temp_dir[q]]
<1> SUFFICES ASSUME NEW q \in Procs, temp_dir[q] # None
             PROVE  /\ top'[temp_dir[q]] = top[temp_dir[q]]
                    /\ usr_ref'[temp_dir[q]] = usr_ref[temp_dir[q]]
  OBVIOUS
<1> DEFINE e == temp_dir[q]
<1>1. PICK d \in iter[p] : OpensOrPasses(p, d)
  BY OpenRefEffect
<1>2. pc[p] = "gc" /\ e \in Dirs
  BY DEF OpenRef, IInv, TypeOK, ProcTypeOK
<1>3. pc[q] \in {"return", "running"}
  BY <1>2, GCAlone DEF IInv, OwnerOK, GCPCs, CopyPCs
<1>4. usr_ref[e] = <<e, "usr">> /\ top[e] = Symlink
  BY <1>3 DEF IInv, CopiesOK, CopyOK
<1>5. usr_ref[e] # None /\ top[e] # None
  BY <1>2, <1>4, InodeFacts
<1>6. CASE e = d
  BY <1>1, <1>5, <1>6 DEF OpensOrPasses, Created
<1>7. CASE e # d
  BY <1>1, <1>2, <1>7 DEF OpensOrPasses
<1> QED BY <1>6, <1>7

\* The lock on the variable directory is held as it should be.
LEMMA VarLockNext ==
    ASSUME IInv, [Next]_vars
    PROVE  VarLockOK'
<1> USE DEF IInv, TypeOK, ProcTypeOK, VarLockOK, GCPCs, CopyPCs, MayCollect,
        NobodyCollects, procVars, gcVars
<1>1. ASSUME NEW p \in Procs, Start(p) PROVE VarLockOK'
  BY <1>1 DEF Start, GoTo
<1>2. ASSUME NEW p \in Procs, OpenSource(p) PROVE VarLockOK'
  BY <1>2 DEF OpenSource, GoTo, Created
<1>3. ASSUME NEW p \in Procs, LockSource(p) PROVE VarLockOK'
  BY <1>3 DEF LockSource, GoTo
<1>4. ASSUME NEW p \in Procs, LockForGC(p) PROVE VarLockOK'
  BY <1>4 DEF LockForGC, GoTo
<1>5. ASSUME NEW p \in Procs, OpenRef(p) PROVE VarLockOK'
  BY <1>5 DEF OpenRef, GoTo, Created
<1>6. ASSUME NEW p \in Procs, LockRef(p) PROVE VarLockOK'
  BY <1>6 DEF LockRef, GoTo
<1>7. ASSUME NEW p \in Procs, RemoveMember(p) PROVE VarLockOK'
  BY <1>7 DEF RemoveMember, GoTo
<1>8. ASSUME NEW p \in Procs, FinishRemoval(p) PROVE VarLockOK'
  BY <1>8 DEF FinishRemoval, GoTo
<1>9. ASSUME NEW p \in Procs, FinishGC(p) PROVE VarLockOK'
  BY <1>9 DEF FinishGC, GoTo
<1>10. ASSUME NEW p \in Procs, UseSource(p) PROVE VarLockOK'
  BY <1>10 DEF UseSource, GoTo
<1>11. ASSUME NEW p \in Procs, MakeTempDir(p) PROVE VarLockOK'
  BY <1>11 DEF MakeTempDir, GoTo
<1>12. ASSUME NEW p \in Procs, BeginCopy(p) PROVE VarLockOK'
  BY <1>12 DEF BeginCopy, GoTo
<1>13. ASSUME NEW p \in Procs, FinishCopy(p) PROVE VarLockOK'
  BY <1>13 DEF FinishCopy, GoTo
<1>14. ASSUME NEW p \in Procs, UnlinkRefs(p) PROVE VarLockOK'
  BY <1>14 DEF UnlinkRefs, GoTo, BreakLink
<1>15. ASSUME NEW p \in Procs, OpenCopy(p) PROVE VarLockOK'
  BY <1>15 DEF OpenCopy, GoTo, Created
<1>16. ASSUME NEW p \in Procs, LockCopy(p) PROVE VarLockOK'
  BY <1>16 DEF LockCopy, GoTo
<1>17. ASSUME NEW p \in Procs, MakeSymlink(p) PROVE VarLockOK'
  BY <1>17 DEF MakeSymlink, GoTo, LinkRef
<1>18. ASSUME NEW p \in Procs, HandOver(p) PROVE VarLockOK'
  BY <1>18 DEF HandOver, GoTo
<1>19. ASSUME NEW p \in Procs, Return(p) PROVE VarLockOK'
  BY <1>19 DEF Return, GoTo, Unlock
<1>20. ASSUME NEW p \in Procs, LockToCopy(p) PROVE VarLockOK'
  BY <1>20 DEF LockToCopy, GoTo
<1>21. ASSUME NEW p \in Procs, End(p) PROVE VarLockOK'
  BY <1>21 DEF End, GoTo
<1>22. CASE LockToClean
  BY <1>22 DEF LockToClean
<1>23. CASE CleanSource
  BY <1>23 DEF CleanSource
<1>24. CASE UNCHANGED vars
  BY <1>24 DEF vars, dirVars, sourceVars, procVars, gcVars
<1> QED BY <1>1, <1>2, <1>3, <1>4, <1>5, <1>6, <1>7, <1>8, <1>9, <1>10, <1>11, <1>12, <1>13, <1>14, <1>15, <1>16, <1>17, <1>18, <1>19, <1>20, <1>21, <1>22, <1>23, <1>24 DEF Next, Step, LockStep, GCStep, CopyStep

\* Directories that do not exist stay empty.
LEMMA GoneNext ==
    ASSUME IInv, [Next]_vars
    PROVE  GoneOK'
<1> USE DEF IInv, TypeOK, DirTypeOK, GoneOK, dirVars
<1>1. ASSUME NEW p \in Procs, Start(p) PROVE GoneOK'
  BY <1>1 DEF Start, GoTo
<1>2. ASSUME NEW p \in Procs, OpenSource(p) PROVE GoneOK'
  BY <1>2 DEF OpenSource, GoTo, Created
<1>3. ASSUME NEW p \in Procs, LockSource(p) PROVE GoneOK'
  BY <1>3 DEF LockSource, GoTo
<1>4. ASSUME NEW p \in Procs, LockForGC(p) PROVE GoneOK'
  BY <1>4 DEF LockForGC, GoTo
<1>5. ASSUME NEW p \in Procs, OpenRef(p) PROVE GoneOK'
  <2>1. PICK d \in iter[p] : OpensOrPasses(p, d)
    BY <1>5, OpenRefEffect
  <2>2. UNCHANGED <<exists, usr>>
    BY <1>5 DEF OpenRef
  <2> QED BY <2>1, <2>2 DEF OpensOrPasses
<1>6. ASSUME NEW p \in Procs, LockRef(p) PROVE GoneOK'
  BY <1>6 DEF LockRef, GoTo
<1>7. ASSUME NEW p \in Procs, RemoveMember(p) PROVE GoneOK'
  BY <1>7 DEF RemoveMember, GoTo
<1>8. ASSUME NEW p \in Procs, FinishRemoval(p) PROVE GoneOK'
  <2> DEFINE d == member[p]
  <2>1. d \in Dirs /\ UNCHANGED <<usr, usr_ref, top>>
    BY <1>8, DirFacts DEF FinishRemoval
  <2>2. \/ exists' = exists
        \/ exists' = exists \ {d} /\ usr[d] = "none" /\ top[d] = None
    BY <1>8 DEF FinishRemoval
  <2>3. CASE exists' = exists
    BY <2>1, <2>3
  <2>4. CASE exists' = exists \ {d} /\ usr[d] = "none" /\ top[d] = None
    <3>1. usr_ref[d] = None
      BY <2>1, <2>4 DEF NamesOK
    <3> QED BY <2>1, <2>4, <3>1
  <2> QED BY <2>2, <2>3, <2>4
<1>9. ASSUME NEW p \in Procs, FinishGC(p) PROVE GoneOK'
  BY <1>9 DEF FinishGC, GoTo
<1>10. ASSUME NEW p \in Procs, UseSource(p) PROVE GoneOK'
  BY <1>10 DEF UseSource, GoTo
<1>11. ASSUME NEW p \in Procs, MakeTempDir(p) PROVE GoneOK'
  BY <1>11 DEF MakeTempDir, GoTo
<1>12. ASSUME NEW p \in Procs, BeginCopy(p) PROVE GoneOK'
  BY <1>12 DEF BeginCopy, GoTo, CopyPCs, OwnerOK
<1>13. ASSUME NEW p \in Procs, FinishCopy(p) PROVE GoneOK'
  BY <1>13 DEF FinishCopy, GoTo, CopyPCs, OwnerOK
<1>14. ASSUME NEW p \in Procs, UnlinkRefs(p) PROVE GoneOK'
  BY <1>14 DEF UnlinkRefs, GoTo, BreakLink, CopyPCs, OwnerOK
<1>15. ASSUME NEW p \in Procs, OpenCopy(p) PROVE GoneOK'
  BY <1>15 DEF OpenCopy, GoTo, Created, CopyPCs, OwnerOK
<1>16. ASSUME NEW p \in Procs, LockCopy(p) PROVE GoneOK'
  BY <1>16 DEF LockCopy, GoTo
<1>17. ASSUME NEW p \in Procs, MakeSymlink(p) PROVE GoneOK'
  BY <1>17 DEF MakeSymlink, GoTo, LinkRef, CopyPCs, OwnerOK
<1>18. ASSUME NEW p \in Procs, HandOver(p) PROVE GoneOK'
  BY <1>18 DEF HandOver, GoTo
<1>19. ASSUME NEW p \in Procs, Return(p) PROVE GoneOK'
  BY <1>19 DEF Return, GoTo, Unlock
<1>20. ASSUME NEW p \in Procs, LockToCopy(p) PROVE GoneOK'
  BY <1>20 DEF LockToCopy, GoTo
<1>21. ASSUME NEW p \in Procs, End(p) PROVE GoneOK'
  BY <1>21 DEF End, GoTo
<1>22. CASE LockToClean
  BY <1>22 DEF LockToClean
<1>23. CASE CleanSource
  BY <1>23 DEF CleanSource
<1>24. CASE UNCHANGED vars
  BY <1>24 DEF vars, dirVars, sourceVars, procVars, gcVars
<1> QED BY <1>1, <1>2, <1>3, <1>4, <1>5, <1>6, <1>7, <1>8, <1>9, <1>10, <1>11, <1>12, <1>13, <1>14, <1>15, <1>16, <1>17, <1>18, <1>19, <1>20, <1>21, <1>22, <1>23, <1>24 DEF Next, Step, LockStep, GCStep, CopyStep

\* The names of lock files keep referring to what they can refer to.
LEMMA NamesNext ==
    ASSUME IInv, [Next]_vars
    PROVE  NamesOK'
<1> USE DirFacts DEF IInv, TypeOK, DirTypeOK, SourceTypeOK, NamesOK, CopyPCs, dirVars
<1>1. ASSUME NEW p \in Procs, Start(p) PROVE NamesOK'
  BY <1>1 DEF Start, GoTo
<1>2. ASSUME NEW p \in Procs, OpenSource(p) PROVE NamesOK'
  BY <1>2 DEF OpenSource, GoTo, Created
<1>3. ASSUME NEW p \in Procs, LockSource(p) PROVE NamesOK'
  BY <1>3 DEF LockSource, GoTo
<1>4. ASSUME NEW p \in Procs, LockForGC(p) PROVE NamesOK'
  BY <1>4 DEF LockForGC, GoTo
<1>5. ASSUME NEW p \in Procs, OpenRef(p) PROVE NamesOK'
  <2>1. PICK d \in iter[p] : OpensOrPasses(p, d)
    BY <1>5, OpenRefEffect
  <2>2. <<d, "usr">> \notin SourceInodes /\ <<d, "top">> # Symlink
    BY InodeFacts
  <2>3. UNCHANGED usr
    BY <1>5 DEF OpenRef
  <2> QED BY <2>1, <2>2, <2>3 DEF Created, OpensOrPasses
<1>6. ASSUME NEW p \in Procs, LockRef(p) PROVE NamesOK'
  BY <1>6 DEF LockRef, GoTo
<1>7. ASSUME NEW p \in Procs, RemoveMember(p) PROVE NamesOK'
  <2> DEFINE d == member[p]
  <2>1. d \in Dirs /\ UNCHANGED exists
    BY <1>7, DirFacts DEF RemoveMember
  <2>2. \/ /\ usr_ref' = [usr_ref EXCEPT ![d] = None] /\ UNCHANGED top
           /\ \A e \in Dirs \ {d} : usr'[e] = usr[e]
        \/ /\ UNCHANGED <<usr_ref, top>> /\ usr_ref[d] = None
           /\ \A e \in Dirs \ {d} : usr'[e] = usr[e]
        \/ UNCHANGED <<usr, usr_ref>> /\ top' = [top EXCEPT ![d] = None]
    BY <1>7 DEF RemoveMember
  <2> QED BY <2>1, <2>2, InodeFacts
<1>8. ASSUME NEW p \in Procs, FinishRemoval(p) PROVE NamesOK'
  <2>1. UNCHANGED <<usr, usr_ref, top>>
    BY <1>8 DEF FinishRemoval
  <2> QED BY <2>1
<1>9. ASSUME NEW p \in Procs, FinishGC(p) PROVE NamesOK'
  BY <1>9 DEF FinishGC, GoTo
<1>10. ASSUME NEW p \in Procs, UseSource(p) PROVE NamesOK'
  BY <1>10 DEF UseSource, GoTo
<1>11. ASSUME NEW p \in Procs, MakeTempDir(p) PROVE NamesOK'
  BY <1>11 DEF MakeTempDir, GoTo
<1>12. ASSUME NEW p \in Procs, BeginCopy(p) PROVE NamesOK'
  <2> DEFINE d == temp_dir[p]
  <2>1. d \in Dirs /\ top[d] = None
    BY <1>12 DEF BeginCopy, OwnerOK, CopyPCs, CopiesOK, CopyOK, ProcTypeOK
  <2>2. PICK link \in {None, source_ref} :
          \/ usr_ref' = [usr_ref EXCEPT ![d] = link] /\ UNCHANGED top
          \/ top' = [top EXCEPT ![d] = link] /\ UNCHANGED usr_ref
    BY <1>12 DEF BeginCopy
  <2>3. link \in SourceInodes \cup {None} /\ link # Symlink /\ None # Symlink
    BY InodeFacts
  <2>4. usr' = [usr EXCEPT ![d] = "partial"]
    BY <1>12 DEF BeginCopy
  <2>5. CASE usr_ref' = [usr_ref EXCEPT ![d] = link] /\ UNCHANGED top
    BY <2>1, <2>3, <2>4, <2>5
  <2>6. CASE top' = [top EXCEPT ![d] = link] /\ UNCHANGED usr_ref
    BY <2>1, <2>3, <2>4, <2>6
  <2> QED BY <2>2, <2>5, <2>6
<1>13. ASSUME NEW p \in Procs, FinishCopy(p) PROVE NamesOK'
  BY <1>13 DEF FinishCopy, GoTo
<1>14. ASSUME NEW p \in Procs, UnlinkRefs(p) PROVE NamesOK'
  <2>1. temp_dir[p] \in Dirs
    BY <1>14 DEF UnlinkRefs, CopyPCs
  <2>2. /\ usr_ref' = [usr_ref EXCEPT ![temp_dir[p]] = None]
        /\ top' = [top EXCEPT ![temp_dir[p]] = None] /\ UNCHANGED usr
    BY <1>14 DEF UnlinkRefs, BreakLink
  <2> QED BY <2>1, <2>2, InodeFacts
<1>15. ASSUME NEW p \in Procs, OpenCopy(p) PROVE NamesOK'
  <2>1. temp_dir[p] \in Dirs
    BY <1>15 DEF OpenCopy, CopyPCs
  <2>2. /\ usr_ref' = [usr_ref EXCEPT ![temp_dir[p]] = Created(@, <<temp_dir[p], "usr">>)]
        /\ UNCHANGED <<usr, top>>
    BY <1>15 DEF OpenCopy
  <2>3. <<temp_dir[p], "usr">> \notin SourceInodes
    BY <2>1, InodeFacts
  <2>4. usr[temp_dir[p]] = "whole"
    BY <1>15 DEF OpenCopy, OwnerOK, CopiesOK, CopyOK
  <2> QED BY <2>1, <2>2, <2>3, <2>4 DEF Created
<1>16. ASSUME NEW p \in Procs, LockCopy(p) PROVE NamesOK'
  BY <1>16 DEF LockCopy, GoTo
<1>17. ASSUME NEW p \in Procs, MakeSymlink(p) PROVE NamesOK'
  <2>1. temp_dir[p] \in Dirs
    BY <1>17 DEF MakeSymlink, CopyPCs
  <2>2. usr_ref[temp_dir[p]] = <<temp_dir[p], "usr">>
    BY <1>17 DEF MakeSymlink, OwnerOK, CopyPCs, CopiesOK, CopyOK
  <2>3. top' = [top EXCEPT ![temp_dir[p]] = Symlink] \/ UNCHANGED top
    BY <1>17 DEF MakeSymlink, LinkRef
  <2>4. UNCHANGED <<usr, usr_ref>>
    BY <1>17 DEF MakeSymlink
  <2>5. <<temp_dir[p], "usr">> \notin SourceInodes
    BY <2>1, InodeFacts
  <2> QED BY <2>1, <2>2, <2>3, <2>4, <2>5
<1>18. ASSUME NEW p \in Procs, HandOver(p) PROVE NamesOK'
  BY <1>18 DEF HandOver, GoTo
<1>19. ASSUME NEW p \in Procs, Return(p) PROVE NamesOK'
  BY <1>19 DEF Return, GoTo, Unlock
<1>20. ASSUME NEW p \in Procs, LockToCopy(p) PROVE NamesOK'
  BY <1>20 DEF LockToCopy, GoTo
<1>21. ASSUME NEW p \in Procs, End(p) PROVE NamesOK'
  BY <1>21 DEF End, GoTo
<1>22. CASE LockToClean
  BY <1>22 DEF LockToClean
<1>23. CASE CleanSource
  BY <1>23 DEF CleanSource
<1>24. CASE UNCHANGED vars
  BY <1>24 DEF vars, dirVars, sourceVars, procVars, gcVars
<1> QED BY <1>1, <1>2, <1>3, <1>4, <1>5, <1>6, <1>7, <1>8, <1>9, <1>10, <1>11, <1>12, <1>13, <1>14, <1>15, <1>16, <1>17, <1>18, <1>19, <1>20, <1>21, <1>22, <1>23, <1>24 DEF Next, Step, LockStep, GCStep, CopyStep

\* Every copy keeps its owner, and only one.
LEMMA OwnerNext ==
    ASSUME IInv, [Next]_vars
    PROVE  OwnerOK'
<1> USE DEF IInv, TypeOK, DirTypeOK, ProcTypeOK, OwnerOK, CopyPCs, dirVars,
        procVars, gcVars
<1>1. ASSUME NEW p \in Procs, Start(p) PROVE OwnerOK'
  BY <1>1 DEF Start, GoTo
<1>2. ASSUME NEW p \in Procs, OpenSource(p) PROVE OwnerOK'
  BY <1>2 DEF OpenSource, GoTo, Created
<1>3. ASSUME NEW p \in Procs, LockSource(p) PROVE OwnerOK'
  BY <1>3 DEF LockSource, GoTo
<1>4. ASSUME NEW p \in Procs, LockForGC(p) PROVE OwnerOK'
  BY <1>4 DEF LockForGC, GoTo
<1>5. ASSUME NEW p \in Procs, OpenRef(p) PROVE OwnerOK'
  <2>1. \/ UNCHANGED pc
        \/ pc' = [pc EXCEPT ![p] = "gc_acquire"]
    BY <1>5, OpenRefEffect DEF OpensOrPasses
  <2>2. pc[p] = "gc" /\ UNCHANGED <<exists, temp_dir>>
    BY <1>5 DEF OpenRef
  <2> QED BY <2>1, <2>2
<1>6. ASSUME NEW p \in Procs, LockRef(p) PROVE OwnerOK'
  BY <1>6 DEF LockRef, GoTo
<1>7. ASSUME NEW p \in Procs, RemoveMember(p) PROVE OwnerOK'
  BY <1>7 DEF RemoveMember, GoTo
<1>8. ASSUME NEW p \in Procs, FinishRemoval(p) PROVE OwnerOK'
  <2>1. member[p] \notin Owned
    BY <1>8 DEF FinishRemoval, MemberOK
  <2>2. /\ pc[p] = "rm" /\ pc' = [pc EXCEPT ![p] = "gc"]
        /\ UNCHANGED temp_dir /\ exists \ {member[p]} \subseteq exists'
    BY <1>8 DEF FinishRemoval, GoTo
  <2>3. \A q \in Procs : temp_dir[q] # None => temp_dir[q] \in exists'
    BY <2>1, <2>2 DEF Owned
  <2> QED BY <2>2, <2>3
<1>9. ASSUME NEW p \in Procs, FinishGC(p) PROVE OwnerOK'
  BY <1>9 DEF FinishGC, GoTo
<1>10. ASSUME NEW p \in Procs, UseSource(p) PROVE OwnerOK'
  BY <1>10 DEF UseSource, GoTo
<1>11. ASSUME NEW p \in Procs, MakeTempDir(p) PROVE OwnerOK'
  <2>1. PICK d \in Dirs \ (exists \cup Owned) :
          exists' = exists \cup {d} /\ temp_dir' = [temp_dir EXCEPT ![p] = d]
    BY <1>11 DEF MakeTempDir
  <2>2. pc' = [pc EXCEPT ![p] = "copy"] /\ pc[p] = "mkdtemp"
    BY <1>11 DEF MakeTempDir, GoTo
  <2>3. d # None /\ \A q \in Procs : temp_dir[q] # d
    BY <2>1, NamesAssumption DEF Owned
  <2> QED BY <2>1, <2>2, <2>3
<1>12. ASSUME NEW p \in Procs, BeginCopy(p) PROVE OwnerOK'
  BY <1>12 DEF BeginCopy, GoTo
<1>13. ASSUME NEW p \in Procs, FinishCopy(p) PROVE OwnerOK'
  BY <1>13 DEF FinishCopy, GoTo
<1>14. ASSUME NEW p \in Procs, UnlinkRefs(p) PROVE OwnerOK'
  BY <1>14 DEF UnlinkRefs, GoTo, BreakLink
<1>15. ASSUME NEW p \in Procs, OpenCopy(p) PROVE OwnerOK'
  BY <1>15 DEF OpenCopy, GoTo, Created
<1>16. ASSUME NEW p \in Procs, LockCopy(p) PROVE OwnerOK'
  BY <1>16 DEF LockCopy, GoTo
<1>17. ASSUME NEW p \in Procs, MakeSymlink(p) PROVE OwnerOK'
  BY <1>17 DEF MakeSymlink, GoTo, LinkRef
<1>18. ASSUME NEW p \in Procs, HandOver(p) PROVE OwnerOK'
  BY <1>18 DEF HandOver, GoTo
<1>19. ASSUME NEW p \in Procs, Return(p) PROVE OwnerOK'
  BY <1>19 DEF Return, GoTo, Unlock
<1>20. ASSUME NEW p \in Procs, LockToCopy(p) PROVE OwnerOK'
  BY <1>20 DEF LockToCopy, GoTo
<1>21. ASSUME NEW p \in Procs, End(p) PROVE OwnerOK'
  BY <1>21 DEF End, GoTo
<1>22. CASE LockToClean
  BY <1>22 DEF LockToClean
<1>23. CASE CleanSource
  BY <1>23 DEF CleanSource
<1>24. CASE UNCHANGED vars
  BY <1>24 DEF vars, dirVars, sourceVars, procVars, gcVars
<1> QED BY <1>1, <1>2, <1>3, <1>4, <1>5, <1>6, <1>7, <1>8, <1>9, <1>10, <1>11, <1>12, <1>13, <1>14, <1>15, <1>16, <1>17, <1>18, <1>19, <1>20, <1>21, <1>22, <1>23, <1>24 DEF Next, Step, LockStep, GCStep, CopyStep

\* Deleting what is in a directory touches nothing that anybody owns.
LEMMA RemoveEffect ==
    ASSUME IInv, NEW p \in Procs, RemoveMember(p)
    PROVE  /\ member[p] \in Dirs /\ member[p] \notin Owned
           /\ \A e \in Dirs \ {member[p]} :
                usr'[e] = usr[e] /\ usr_ref'[e] = usr_ref[e] /\ top'[e] = top[e]
           /\ UNCHANGED <<exists, special, procVars>>
<1>1. member[p] \in Dirs /\ member[p] \notin Owned
  BY DEF RemoveMember, IInv, MemberOK
<1>2. UNCHANGED <<exists, special, procVars>>
  BY DEF RemoveMember
<1>3. /\ usr' \in {usr, [usr EXCEPT ![member[p]] = "partial"],
                   [usr EXCEPT ![member[p]] = "none"]}
      /\ usr_ref' \in {usr_ref, [usr_ref EXCEPT ![member[p]] = None]}
      /\ top' \in {top, [top EXCEPT ![member[p]] = None]}
  BY DEF RemoveMember
<1> QED BY <1>1, <1>2, <1>3 DEF IInv, TypeOK, DirTypeOK

\* What a process does with its copy happens in its own directory, and
\* while nobody collects garbage.
LEMMA CopyEffect ==
    ASSUME IInv, NEW p \in Procs, pc[p] \in CopyPCs
    PROVE  \A q \in Procs : pc[q] \notin GCPCs
BY GCAlone DEF GCPCs, CopyPCs

\* Locks on copies are held by those who may hold them.
LEMMA LocksNext ==
    ASSUME IInv, [Next]_vars
    PROVE  LocksOK'
<1> USE DEF IInv, TypeOK, SourceTypeOK, ProcTypeOK, LockTypeOK, LocksOK, CopyPCs,
        procVars, gcVars
<1>1. ASSUME NEW p \in Procs, Start(p) PROVE LocksOK'
  BY <1>1 DEF Start, GoTo
<1>2. ASSUME NEW p \in Procs, OpenSource(p) PROVE LocksOK'
  <2>1. Created(source_ref, <<SourceDir, 2>>) \in SourceInodes
    BY InodeFacts DEF Created
  <2>2. /\ fd' = [fd EXCEPT ![p] = Created(source_ref, <<SourceDir, 2>>)]
        /\ pc[p] = "open_source" /\ pc' = [pc EXCEPT ![p] = "lock_source"]
        /\ UNCHANGED <<runtime_lock, copy_lock, temp_lock, temp_dir>>
    BY <1>2 DEF OpenSource, GoTo
  <2> QED BY <2>1, <2>2
<1>3. ASSUME NEW p \in Procs, LockSource(p) PROVE LocksOK'
  BY <1>3 DEF LockSource, GoTo
<1>4. ASSUME NEW p \in Procs, LockForGC(p) PROVE LocksOK'
  BY <1>4 DEF LockForGC, GoTo
<1>5. ASSUME NEW p \in Procs, OpenRef(p) PROVE LocksOK'
  <2>1. pc[p] = "gc" /\ UNCHANGED <<runtime_lock, copy_lock, temp_lock, temp_dir>>
    BY <1>5 DEF OpenRef
  <2>2. PICK d \in iter[p] : OpensOrPasses(p, d)
    BY <1>5, OpenRefEffect
  <2> QED BY <2>1, <2>2 DEF OpensOrPasses
<1>6. ASSUME NEW p \in Procs, LockRef(p) PROVE LocksOK'
  BY <1>6 DEF LockRef, GoTo
<1>7. ASSUME NEW p \in Procs, RemoveMember(p) PROVE LocksOK'
  BY <1>7 DEF RemoveMember, GoTo
<1>8. ASSUME NEW p \in Procs, FinishRemoval(p) PROVE LocksOK'
  BY <1>8 DEF FinishRemoval, GoTo
<1>9. ASSUME NEW p \in Procs, FinishGC(p) PROVE LocksOK'
  BY <1>9 DEF FinishGC, GoTo
<1>10. ASSUME NEW p \in Procs, UseSource(p) PROVE LocksOK'
  BY <1>10 DEF UseSource, GoTo
<1>11. ASSUME NEW p \in Procs, MakeTempDir(p) PROVE LocksOK'
  <2>1. temp_dir[p] = None
    BY <1>11 DEF MakeTempDir, OwnerOK
  <2>2. /\ pc[p] = "mkdtemp" /\ pc' = [pc EXCEPT ![p] = "copy"]
        /\ \A q \in Procs \ {p} : temp_dir'[q] = temp_dir[q]
        /\ UNCHANGED <<runtime_lock, copy_lock, temp_lock, fd>>
    BY <1>11 DEF MakeTempDir, GoTo
  <2> QED BY <2>1, <2>2
<1>12. ASSUME NEW p \in Procs, BeginCopy(p) PROVE LocksOK'
  BY <1>12 DEF BeginCopy, GoTo
<1>13. ASSUME NEW p \in Procs, FinishCopy(p) PROVE LocksOK'
  BY <1>13 DEF FinishCopy, GoTo
<1>14. ASSUME NEW p \in Procs, UnlinkRefs(p) PROVE LocksOK'
  BY <1>14 DEF UnlinkRefs, GoTo, BreakLink
<1>15. ASSUME NEW p \in Procs, OpenCopy(p) PROVE LocksOK'
  BY <1>15 DEF OpenCopy, GoTo, Created
<1>16. ASSUME NEW p \in Procs, LockCopy(p) PROVE LocksOK'
  <2>1. /\ temp_dir[p] # None /\ fd[p] = <<temp_dir[p], "usr">>
    BY <1>16 DEF LockCopy, OwnerOK, CopiesOK, CopyOK
  <2>2. /\ pc[p] = "lock_copy" /\ pc' = [pc EXCEPT ![p] = "symlink"]
        /\ copy_lock' = [copy_lock EXCEPT ![p] = fd[p]]
        /\ fd' = [fd EXCEPT ![p] = None]
        /\ UNCHANGED <<runtime_lock, temp_lock, temp_dir>>
    BY <1>16 DEF LockCopy, GoTo
  <2> QED BY <2>1, <2>2
<1>17. ASSUME NEW p \in Procs, MakeSymlink(p) PROVE LocksOK'
  BY <1>17 DEF MakeSymlink, GoTo, LinkRef
<1>18. ASSUME NEW p \in Procs, HandOver(p) PROVE LocksOK'
  BY <1>18 DEF HandOver, GoTo
<1>19. ASSUME NEW p \in Procs, Return(p) PROVE LocksOK'
  BY <1>19 DEF Return, GoTo, Unlock
<1>20. ASSUME NEW p \in Procs, LockToCopy(p) PROVE LocksOK'
  BY <1>20 DEF LockToCopy, GoTo
<1>21. ASSUME NEW p \in Procs, End(p) PROVE LocksOK'
  BY <1>21 DEF End, GoTo
<1>22. CASE LockToClean
  BY <1>22 DEF LockToClean
<1>23. CASE CleanSource
  BY <1>23 DEF CleanSource
<1>24. CASE UNCHANGED vars
  BY <1>24 DEF vars, dirVars, sourceVars, procVars, gcVars
<1> QED BY <1>1, <1>2, <1>3, <1>4, <1>5, <1>6, <1>7, <1>8, <1>9, <1>10, <1>11, <1>12, <1>13, <1>14, <1>15, <1>16, <1>17, <1>18, <1>19, <1>20, <1>21, <1>22, <1>23, <1>24 DEF Next, Step, LockStep, GCStep, CopyStep

\* Copies of a merged /usr come along as they should, and then stay as they are.
LEMMA CopiesNext ==
    ASSUME IInv, MergedUsr, [Next]_vars
    PROVE  CopiesOK'
<1> USE DEF IInv, TypeOK, DirTypeOK, ProcTypeOK, LockTypeOK, OwnerOK, CopiesOK, CopyOK,
        CopyPCs, dirVars, procVars, gcVars
<1>1. ASSUME NEW p \in Procs, Start(p) PROVE CopiesOK'
  BY <1>1 DEF Start, GoTo
<1>2. ASSUME NEW p \in Procs, OpenSource(p) PROVE CopiesOK'
  BY <1>2 DEF OpenSource, GoTo, Created
<1>3. ASSUME NEW p \in Procs, LockSource(p) PROVE CopiesOK'
  BY <1>3 DEF LockSource, GoTo
<1>4. ASSUME NEW p \in Procs, LockForGC(p) PROVE CopiesOK'
  BY <1>4 DEF LockForGC, GoTo
<1>5. ASSUME NEW p \in Procs, OpenRef(p) PROVE CopiesOK'
  <2>1. pc[p] = "gc" /\ temp_dir[p] = None
    BY <1>5 DEF OpenRef
  <2>2. PICK d \in iter[p] : OpensOrPasses(p, d)
    BY <1>5, OpenRefEffect
  <2>3. \A q \in Procs \ {p} : pc'[q] = pc[q] /\ fd'[q] = fd[q]
    BY <2>2 DEF OpensOrPasses
  <2>4. UNCHANGED <<usr, runtime_lock, copy_lock, temp_dir>>
    BY <1>5 DEF OpenRef
  <2> QED BY <1>5, <2>1, <2>3, <2>4, OpenRefSparesCopies
<1>6. ASSUME NEW p \in Procs, LockRef(p) PROVE CopiesOK'
  BY <1>6 DEF LockRef, GoTo
<1>7. ASSUME NEW p \in Procs, RemoveMember(p) PROVE CopiesOK'
  <2>1. UNCHANGED <<pc, fd, runtime_lock, copy_lock, temp_dir>>
    BY <1>7, RemoveEffect
  <2>2. \A q \in Procs : temp_dir[q] # None =>
          temp_dir[q] \in Dirs \ {member[p]}
    BY <1>7, RemoveEffect DEF Owned
  <2> QED BY <1>7, <2>1, <2>2, RemoveEffect
<1>8. ASSUME NEW p \in Procs, FinishRemoval(p) PROVE CopiesOK'
  BY <1>8 DEF FinishRemoval, GoTo
<1>9. ASSUME NEW p \in Procs, FinishGC(p) PROVE CopiesOK'
  BY <1>9 DEF FinishGC, GoTo
<1>10. ASSUME NEW p \in Procs, UseSource(p) PROVE CopiesOK'
  BY <1>10 DEF UseSource, GoTo
<1>11. ASSUME NEW p \in Procs, MakeTempDir(p) PROVE CopiesOK'
  <2>1. PICK d \in Dirs \ exists : temp_dir' = [temp_dir EXCEPT ![p] = d]
    BY <1>11 DEF MakeTempDir
  <2>2. top[d] = None
    BY <2>1 DEF GoneOK
  <2>3. /\ pc' = [pc EXCEPT ![p] = "copy"]
        /\ UNCHANGED <<usr, usr_ref, top, fd, runtime_lock, copy_lock>>
    BY <1>11 DEF MakeTempDir, GoTo
  <2> QED BY <2>1, <2>2, <2>3
<1>12. ASSUME NEW p \in Procs, BeginCopy(p) PROVE CopiesOK'
  BY <1>12 DEF BeginCopy, GoTo
<1>13. ASSUME NEW p \in Procs, FinishCopy(p) PROVE CopiesOK'
  BY <1>13 DEF FinishCopy, GoTo
<1>14. ASSUME NEW p \in Procs, UnlinkRefs(p) PROVE CopiesOK'
  BY <1>14 DEF UnlinkRefs, GoTo, BreakLink
<1>15. ASSUME NEW p \in Procs, OpenCopy(p) PROVE CopiesOK'
  BY <1>15 DEF OpenCopy, GoTo, Created
<1>16. ASSUME NEW p \in Procs, LockCopy(p) PROVE CopiesOK'
  BY <1>16 DEF LockCopy, GoTo
<1>17. ASSUME NEW p \in Procs, MakeSymlink(p) PROVE CopiesOK'
  BY <1>17 DEF MakeSymlink, GoTo, LinkRef
<1>18. ASSUME NEW p \in Procs, HandOver(p) PROVE CopiesOK'
  BY <1>18 DEF HandOver, GoTo
<1>19. ASSUME NEW p \in Procs, Return(p) PROVE CopiesOK'
  BY <1>19 DEF Return, GoTo, Unlock
<1>20. ASSUME NEW p \in Procs, LockToCopy(p) PROVE CopiesOK'
  BY <1>20 DEF LockToCopy, GoTo
<1>21. ASSUME NEW p \in Procs, End(p) PROVE CopiesOK'
  BY <1>21 DEF End, GoTo
<1>22. CASE LockToClean
  BY <1>22 DEF LockToClean
<1>23. CASE CleanSource
  BY <1>23 DEF CleanSource
<1>24. CASE UNCHANGED vars
  BY <1>24 DEF vars, dirVars, sourceVars, procVars, gcVars
<1> QED BY <1>1, <1>2, <1>3, <1>4, <1>5, <1>6, <1>7, <1>8, <1>9, <1>10, <1>11, <1>12, <1>13, <1>14, <1>15, <1>16, <1>17, <1>18, <1>19, <1>20, <1>21, <1>22, <1>23, <1>24 DEF Next, Step, LockStep, GCStep, CopyStep

\* Garbage collection deletes only what nobody owns.
LEMMA MemberNext ==
    ASSUME IInv, MergedUsr, [Next]_vars
    PROVE  MemberOK'
<1> USE DEF IInv, TypeOK, DirTypeOK, ProcTypeOK, LockTypeOK, MemberOK, GCPCs, Owned,
        dirVars, procVars, gcVars
<1>1. ASSUME NEW p \in Procs, Start(p) PROVE MemberOK'
  BY <1>1 DEF Start, GoTo
<1>2. ASSUME NEW p \in Procs, OpenSource(p) PROVE MemberOK'
  BY <1>2 DEF OpenSource, GoTo, Created
<1>3. ASSUME NEW p \in Procs, LockSource(p) PROVE MemberOK'
  BY <1>3 DEF LockSource, GoTo
<1>4. ASSUME NEW p \in Procs, LockForGC(p) PROVE MemberOK'
  <2>1. member[p] = None /\ UNCHANGED <<member, temp_dir, top, usr_ref, exists, fd>>
    BY <1>4 DEF LockForGC
  <2>2. \/ /\ pc' = [pc EXCEPT ![p] = "gc"] /\ iter' = [iter EXCEPT ![p] = exists]
        \/ /\ pc' = [pc EXCEPT ![p] = "var_lock"] /\ UNCHANGED iter
    BY <1>4 DEF LockForGC, GoTo
  <2>3. None \notin exists
    BY NamesAssumption
  <2> QED BY <2>1, <2>2, <2>3
<1>5. ASSUME NEW p \in Procs, OpenRef(p) PROVE MemberOK'
  <2>1. PICK d \in iter[p] : OpensOrPasses(p, d)
    BY <1>5, OpenRefEffect
  <2>2. \A q \in Procs \ {p} : pc[q] \notin GCPCs
    BY <1>5, GCAlone DEF OpenRef
  <2>3. pc[p] = "gc" /\ UNCHANGED <<exists, temp_dir>>
    BY <1>5 DEF OpenRef
  <2>4. CASE UNCHANGED <<pc, fd, member, top, usr_ref>>
    BY <2>1, <2>2, <2>3, <2>4 DEF OpensOrPasses
  <2>5. CASE /\ pc' = [pc EXCEPT ![p] = "gc_acquire"]
             /\ member' = [member EXCEPT ![p] = d]
             /\ fd' = [fd EXCEPT ![p] = IF top'[d] = Symlink THEN usr_ref'[d]
                                        ELSE top'[d]]
    BY <2>1, <2>2, <2>3, <2>5 DEF OpensOrPasses
  <2> QED BY <2>1, <2>4, <2>5 DEF OpensOrPasses
<1>6. ASSUME NEW p \in Procs, LockRef(p) PROVE MemberOK'
  <2> DEFINE d == member[p]
  <2>1. \A q \in Procs \ {p} : pc[q] \notin GCPCs
    BY <1>6, GCAlone DEF LockRef
  <2>2. /\ pc[p] = "gc_acquire" /\ d \in Dirs
        /\ UNCHANGED <<exists, top, usr_ref, temp_dir, iter>>
        /\ fd' = [fd EXCEPT ![p] = None]
    BY <1>6 DEF LockRef
  <2>3. CASE MayExclude(fd[p])
    <3>1. pc' = [pc EXCEPT ![p] = "rm"] /\ UNCHANGED member
      BY <1>6, <2>3 DEF LockRef, GoTo
    <3>2. ASSUME NEW q \in Procs, temp_dir[q] = d PROVE FALSE
      <4>1. d # None
        BY <2>2, NamesAssumption
      <4>2. pc[q] \in {"return", "running"}
        BY <2>1, <2>2, <3>2, <4>1, GCAlone DEF OwnerOK, CopyPCs
      <4>3. fd[p] = runtime_lock[q]
        <5>1. CopyOK(q)
          BY <3>2, <4>1 DEF CopiesOK
        <5>2. /\ runtime_lock[q] = <<d, "usr">> /\ usr_ref[d] = <<d, "usr">>
              /\ top[d] = Symlink
          BY <3>2, <4>2, <5>1 DEF CopyOK
        <5> QED BY <2>2, <5>2
      <4> QED BY <2>3, <4>3 DEF MayExclude, Shared
    <3>3. d \notin Owned
      BY <3>2 DEF Owned
    <3> QED BY <2>1, <2>2, <3>1, <3>3
  <2>4. CASE ~MayExclude(fd[p])
    <3>1. pc' = [pc EXCEPT ![p] = "gc"] /\ member' = [member EXCEPT ![p] = None]
      BY <1>6, <2>4 DEF LockRef, GoTo
    <3>2. None \notin exists
      BY NamesAssumption
    <3> QED BY <2>1, <2>2, <3>1, <3>2
  <2> QED BY <2>3, <2>4
<1>7. ASSUME NEW p \in Procs, RemoveMember(p) PROVE MemberOK'
  <2>1. UNCHANGED <<pc, fd, member, iter, temp_dir, exists>>
    BY <1>7, RemoveEffect
  <2>2. pc[p] = "rm" /\ \A q \in Procs \ {p} : pc[q] \notin GCPCs
    BY <1>7, GCAlone DEF RemoveMember
  <2> QED BY <2>1, <2>2
<1>8. ASSUME NEW p \in Procs, FinishRemoval(p) PROVE MemberOK'
  <2>1. \A q \in Procs \ {p} : pc[q] \notin GCPCs
    BY <1>8, GCAlone DEF FinishRemoval
  <2>2. /\ pc[p] = "rm" /\ pc' = [pc EXCEPT ![p] = "gc"]
        /\ member' = [member EXCEPT ![p] = None]
        /\ exists' \in {exists, exists \ {member[p]}}
        /\ UNCHANGED <<fd, iter, temp_dir, top, usr_ref>>
    BY <1>8 DEF FinishRemoval, GoTo
  <2>3. None \notin exists
    BY NamesAssumption
  <2> QED BY <2>1, <2>2, <2>3
<1>9. ASSUME NEW p \in Procs, FinishGC(p) PROVE MemberOK'
  BY <1>9 DEF FinishGC, GoTo
<1>10. ASSUME NEW p \in Procs, UseSource(p) PROVE MemberOK'
  BY <1>10 DEF UseSource, GoTo
<1>11. ASSUME NEW p \in Procs, MakeTempDir(p) PROVE MemberOK'
  <2>1. \A q \in Procs : pc[q] \notin GCPCs
    BY <1>11, CopyEffect DEF MakeTempDir, CopyPCs
  <2>2. pc' = [pc EXCEPT ![p] = "copy"] /\ UNCHANGED <<fd, member, iter>>
    BY <1>11 DEF MakeTempDir, GoTo
  <2> QED BY <2>1, <2>2
<1>12. ASSUME NEW p \in Procs, BeginCopy(p) PROVE MemberOK'
  <2>1. \A q \in Procs : pc[q] \notin GCPCs
    BY <1>12, CopyEffect DEF BeginCopy, CopyPCs
  <2>2. pc' = [pc EXCEPT ![p] = "copying"] /\ UNCHANGED <<fd, member, iter>>
    BY <1>12 DEF BeginCopy, GoTo
  <2> QED BY <2>1, <2>2
<1>13. ASSUME NEW p \in Procs, FinishCopy(p) PROVE MemberOK'
  BY <1>13 DEF FinishCopy, GoTo
<1>14. ASSUME NEW p \in Procs, UnlinkRefs(p) PROVE MemberOK'
  <2>1. \A q \in Procs : pc[q] \notin GCPCs
    BY <1>14, CopyEffect DEF UnlinkRefs, CopyPCs
  <2>2. pc' = [pc EXCEPT ![p] = "open_copy"] /\ UNCHANGED <<fd, member, iter>>
    BY <1>14 DEF UnlinkRefs, GoTo
  <2> QED BY <2>1, <2>2
<1>15. ASSUME NEW p \in Procs, OpenCopy(p) PROVE MemberOK'
  BY <1>15 DEF OpenCopy, GoTo, Created
<1>16. ASSUME NEW p \in Procs, LockCopy(p) PROVE MemberOK'
  BY <1>16 DEF LockCopy, GoTo
<1>17. ASSUME NEW p \in Procs, MakeSymlink(p) PROVE MemberOK'
  BY <1>17 DEF MakeSymlink, GoTo, LinkRef
<1>18. ASSUME NEW p \in Procs, HandOver(p) PROVE MemberOK'
  BY <1>18 DEF HandOver, GoTo
<1>19. ASSUME NEW p \in Procs, Return(p) PROVE MemberOK'
  BY <1>19 DEF Return, GoTo, Unlock
<1>20. ASSUME NEW p \in Procs, LockToCopy(p) PROVE MemberOK'
  BY <1>20 DEF LockToCopy, GoTo
<1>21. ASSUME NEW p \in Procs, End(p) PROVE MemberOK'
  BY <1>21 DEF End, GoTo
<1>22. CASE LockToClean
  BY <1>22 DEF LockToClean
<1>23. CASE CleanSource
  BY <1>23 DEF CleanSource
<1>24. CASE UNCHANGED vars
  BY <1>24 DEF vars, dirVars, sourceVars, procVars, gcVars
<1> QED BY <1>1, <1>2, <1>3, <1>4, <1>5, <1>6, <1>7, <1>8, <1>9, <1>10, <1>11, <1>12, <1>13, <1>14, <1>15, <1>16, <1>17, <1>18, <1>19, <1>20, <1>21, <1>22, <1>23, <1>24 DEF Next, Step, LockStep, GCStep, CopyStep

\* If the lock on a directory that nobody owns is taken, then it is not a lock
\* on that directory but on the runtime.
LEMMA BusyIsUndeletable ==
    ASSUME IInv, NEW p \in Procs, pc[p] = "gc_acquire", ~MayExclude(fd[p]),
           member[p] \in stale[p]
    PROVE  member[p] \in Undeletable
<1> DEFINE d == member[p]
<1>1. d \in Dirs /\ d \notin Owned
  BY DEF IInv, MemberOK, ProgressOK
<1>2. fd[p] = IF top[d] = Symlink THEN usr_ref[d] ELSE top[d]
  BY DEF IInv, MemberOK
<1>3. fd[p] # None
  BY DEF IInv, TypeOK, LockTypeOK
<1>4. fd[p] \in {<<d, "usr">>, <<d, "top">>} \cup SourceInodes
  BY <1>1, <1>2, <1>3 DEF IInv, NamesOK
<1>5. CASE fd[p] \in SourceInodes
  BY <1>1, <1>2, <1>5 DEF IInv, NamesOK, Undeletable, Damaged
<1>6. CASE fd[p] \in {<<d, "usr">>, <<d, "top">>}
  <2>1. fd[p] \notin SourceInodes
    BY <1>1, <1>6, InodeFacts
  <2>2. Shared(fd[p]) = {}
    <3>1. ASSUME NEW q \in Procs, runtime_lock[q] = fd[p] \/ copy_lock[q] = fd[p]
          PROVE FALSE
      <4>1. temp_dir[q] # None /\ fd[p] = <<temp_dir[q], "usr">>
        BY <1>3, <2>1, <3>1 DEF IInv, LocksOK
      <4>2. temp_dir[q] \in Dirs
        BY <4>1 DEF IInv, TypeOK, ProcTypeOK
      <4>3. temp_dir[q] = d
        BY <1>1, <1>6, <4>1, <4>2, InodeFacts
      <4> QED BY <1>1, <4>1, <4>3 DEF Owned
    <3> QED BY <3>1 DEF Shared
  <2>3. Exclusive(fd[p]) = {}
    <3>1. ASSUME NEW q \in Procs, temp_lock[q] = fd[p] PROVE FALSE
      <4>1. pc[q] = "rm"
        BY <1>3, <3>1 DEF IInv, LocksOK
      <4> QED BY <4>1, GCAlone DEF GCPCs
    <3> QED BY <3>1 DEF Exclusive
  <2>4. cleaner_lock # fd[p]
    BY <1>3, <2>1 DEF IInv, TypeOK, SourceTypeOK
  <2> QED BY <2>2, <2>3, <2>4 DEF MayExclude, MayShare
<1> QED BY <1>4, <1>5, <1>6

\* Garbage collection misses nothing that it could delete.
LEMMA ProgressNext ==
    ASSUME IInv, MergedUsr, [Next]_vars
    PROVE  ProgressOK'
<1> USE DEF IInv, TypeOK, DirTypeOK, ProcTypeOK, ProgressOK, GCPCs, Owned, Undeletable,
        Damaged, dirVars, procVars, gcVars
<1>1. ASSUME NEW p \in Procs, Start(p) PROVE ProgressOK'
  BY <1>1 DEF Start, GoTo
<1>2. ASSUME NEW p \in Procs, OpenSource(p) PROVE ProgressOK'
  BY <1>2 DEF OpenSource, GoTo, Created
<1>3. ASSUME NEW p \in Procs, LockSource(p) PROVE ProgressOK'
  BY <1>3 DEF LockSource, GoTo
<1>4. ASSUME NEW p \in Procs, LockForGC(p) PROVE ProgressOK'
  BY <1>4 DEF LockForGC, GoTo
<1>5. ASSUME NEW p \in Procs, OpenRef(p) PROVE ProgressOK'
  <2>1. PICK d \in iter[p] : OpensOrPasses(p, d)
    BY <1>5, OpenRefEffect
  <2>2. \A q \in Procs \ {p} : pc[q] \notin GCPCs
    BY <1>5, GCAlone DEF OpenRef
  <2>3. pc[p] = "gc" /\ UNCHANGED <<exists, special, usr, temp_dir, stale>>
    BY <1>5 DEF OpenRef
  <2>4. \A e \in Dirs \ {d} : e \in Undeletable => e \in Undeletable'
    BY <2>1, <2>3 DEF OpensOrPasses
  <2>5. CASE UNCHANGED <<pc, member, top, usr_ref>> /\ d \in Undeletable
    BY <2>1, <2>2, <2>3, <2>4, <2>5 DEF OpensOrPasses
  <2>6. CASE /\ pc' = [pc EXCEPT ![p] = "gc_acquire"]
             /\ member' = [member EXCEPT ![p] = d]
    BY <2>1, <2>2, <2>3, <2>4, <2>6 DEF OpensOrPasses
  <2> QED BY <2>1, <2>5, <2>6 DEF OpensOrPasses
<1>6. ASSUME NEW p \in Procs, LockRef(p) PROVE ProgressOK'
  <2> DEFINE d == member[p]
  <2>1. \A q \in Procs \ {p} : pc[q] \notin GCPCs
    BY <1>6, GCAlone DEF LockRef
  <2>2. /\ pc[p] = "gc_acquire" /\ d \in Dirs
        /\ UNCHANGED <<exists, special, usr, top, usr_ref, temp_dir, iter, stale>>
        /\ fd[p] = IF top[d] = Symlink THEN usr_ref[d] ELSE top[d]
    BY <1>6 DEF LockRef, MemberOK
  <2>3. CASE MayExclude(fd[p])
    <3>1. pc' = [pc EXCEPT ![p] = "rm"] /\ UNCHANGED member
      BY <1>6, <2>3 DEF LockRef, GoTo
    <3> QED BY <2>1, <2>2, <3>1
  <2>4. CASE ~MayExclude(fd[p])
    <3>1. pc' = [pc EXCEPT ![p] = "gc"] /\ member' = [member EXCEPT ![p] = None]
      BY <1>6, <2>4 DEF LockRef, GoTo
    <3>2. d \in stale[p] \cap exists => d \in Undeletable
      BY <2>1, <2>2, <2>4, BusyIsUndeletable DEF LockRef
    <3> QED BY <2>1, <2>2, <3>1, <3>2
  <2> QED BY <2>3, <2>4
<1>7. ASSUME NEW p \in Procs, RemoveMember(p) PROVE ProgressOK'
  <2>1. \A q \in Procs \ {p} : pc[q] \notin GCPCs
    BY <1>7, GCAlone DEF RemoveMember
  <2>2. pc[p] = "rm" /\ UNCHANGED <<exists, special, pc, member, iter, temp_dir, stale>>
    BY <1>7, RemoveEffect DEF RemoveMember
  <2>3. \A e \in Dirs \ {member[p]} : e \in Undeletable => e \in Undeletable'
    BY <1>7, <2>2, RemoveEffect
  <2> QED BY <2>1, <2>2, <2>3
<1>8. ASSUME NEW p \in Procs, FinishRemoval(p) PROVE ProgressOK'
  <2>1. \A q \in Procs \ {p} : pc[q] \notin GCPCs
    BY <1>8, GCAlone DEF FinishRemoval
  <2>2. /\ pc[p] = "rm" /\ pc' = [pc EXCEPT ![p] = "gc"]
        /\ \/ exists' = exists \ {member[p]}
           \/ exists' = exists /\ special[member[p]] = "stubborn"
        /\ UNCHANGED <<special, usr, usr_ref, top, iter, temp_dir, stale>>
    BY <1>8 DEF FinishRemoval, GoTo
  <2> QED BY <2>1, <2>2
<1>9. ASSUME NEW p \in Procs, FinishGC(p) PROVE ProgressOK'
  BY <1>9 DEF FinishGC, GoTo
<1>10. ASSUME NEW p \in Procs, UseSource(p) PROVE ProgressOK'
  BY <1>10 DEF UseSource, GoTo
<1>11. ASSUME NEW p \in Procs, MakeTempDir(p) PROVE ProgressOK'
  <2>1. \A q \in Procs : pc[q] \notin GCPCs
    BY <1>11, CopyEffect DEF MakeTempDir, CopyPCs
  <2>2. pc' = [pc EXCEPT ![p] = "copy"]
    BY <1>11 DEF MakeTempDir, GoTo
  <2>3. PICK d \in Dirs : /\ temp_dir' = [temp_dir EXCEPT ![p] = d]
                          /\ stale' = [q \in Procs |-> stale[q] \ {d}]
    BY <1>11 DEF MakeTempDir
  <2> QED BY <2>1, <2>2, <2>3
<1>12. ASSUME NEW p \in Procs, BeginCopy(p) PROVE ProgressOK'
  <2>1. \A q \in Procs : pc[q] \notin GCPCs
    BY <1>12, CopyEffect DEF BeginCopy, CopyPCs
  <2>2. pc' = [pc EXCEPT ![p] = "copying"] /\ UNCHANGED <<temp_dir, stale>>
    BY <1>12 DEF BeginCopy, GoTo
  <2> QED BY <2>1, <2>2
<1>13. ASSUME NEW p \in Procs, FinishCopy(p) PROVE ProgressOK'
  <2>1. \A q \in Procs : pc[q] \notin GCPCs
    BY <1>13, CopyEffect DEF FinishCopy, CopyPCs
  <2>2. pc' = [pc EXCEPT ![p] = "unlink"] /\ UNCHANGED <<temp_dir, stale>>
    BY <1>13 DEF FinishCopy, GoTo
  <2> QED BY <2>1, <2>2
<1>14. ASSUME NEW p \in Procs, UnlinkRefs(p) PROVE ProgressOK'
  <2>1. \A q \in Procs : pc[q] \notin GCPCs
    BY <1>14, CopyEffect DEF UnlinkRefs, CopyPCs
  <2>2. pc' = [pc EXCEPT ![p] = "open_copy"] /\ UNCHANGED <<temp_dir, stale>>
    BY <1>14 DEF UnlinkRefs, GoTo
  <2> QED BY <2>1, <2>2
<1>15. ASSUME NEW p \in Procs, OpenCopy(p) PROVE ProgressOK'
  BY <1>15 DEF OpenCopy, GoTo, Created
<1>16. ASSUME NEW p \in Procs, LockCopy(p) PROVE ProgressOK'
  BY <1>16 DEF LockCopy, GoTo
<1>17. ASSUME NEW p \in Procs, MakeSymlink(p) PROVE ProgressOK'
  <2>1. \A q \in Procs : pc[q] \notin GCPCs
    BY <1>17, CopyEffect DEF MakeSymlink, CopyPCs
  <2>2. pc' = [pc EXCEPT ![p] = "handover"] /\ UNCHANGED <<temp_dir, stale>>
    BY <1>17 DEF MakeSymlink, GoTo
  <2> QED BY <2>1, <2>2
<1>18. ASSUME NEW p \in Procs, HandOver(p) PROVE ProgressOK'
  BY <1>18 DEF HandOver, GoTo
<1>19. ASSUME NEW p \in Procs, Return(p) PROVE ProgressOK'
  BY <1>19 DEF Return, GoTo, Unlock
<1>20. ASSUME NEW p \in Procs, LockToCopy(p) PROVE ProgressOK'
  BY <1>20 DEF LockToCopy, GoTo
<1>21. ASSUME NEW p \in Procs, End(p) PROVE ProgressOK'
  BY <1>21 DEF End, GoTo
<1>22. CASE LockToClean
  BY <1>22 DEF LockToClean
<1>23. CASE CleanSource
  BY <1>23 DEF CleanSource
<1>24. CASE UNCHANGED vars
  BY <1>24 DEF vars, dirVars, sourceVars, procVars, gcVars
<1> QED BY <1>1, <1>2, <1>3, <1>4, <1>5, <1>6, <1>7, <1>8, <1>9, <1>10, <1>11, <1>12, <1>13, <1>14, <1>15, <1>16, <1>17, <1>18, <1>19, <1>20, <1>21, <1>22, <1>23, <1>24 DEF Next, Step, LockStep, GCStep, CopyStep

-----------------------------------------------------------------------------
(* The inductive invariant and what follows from it.                       *)

\* The invariant holds initially.
LEMMA IInvInit == Init => IInv
<1> SUFFICES ASSUME Init PROVE IInv
  OBVIOUS
<1>1. DirTypeOK /\ SourceTypeOK
  BY InodeFacts, KindAssumption DEF Init, DirTypeOK, SourceTypeOK, Amount
<1>2. ProcTypeOK /\ LockTypeOK
  BY DEF Init, ProcTypeOK, LockTypeOK, PCs, NoOpts
<1>3. VarLockOK /\ GoneOK /\ OwnerOK /\ CopiesOK
  BY DEF Init, VarLockOK, GoneOK, OwnerOK, CopiesOK, GCPCs, CopyPCs
<1>4. NamesOK
  BY InodeFacts DEF Init, NamesOK
<1>5. MemberOK /\ LocksOK /\ ProgressOK
  BY DEF Init, MemberOK, LocksOK, ProgressOK, GCPCs
<1> QED BY <1>1, <1>2, <1>3, <1>4, <1>5 DEF IInv, TypeOK

\* Every step preserves it.
LEMMA IInvNext == ASSUME MergedUsr PROVE IInv /\ [Next]_vars => IInv'
<1> SUFFICES ASSUME IInv, [Next]_vars PROVE IInv'
  OBVIOUS
<1>1. TypeOK'
  BY DirTypeNext, SourceTypeNext, ProcTypeNext, LockTypeNext DEF TypeOK
<1>2. VarLockOK' /\ GoneOK' /\ NamesOK' /\ OwnerOK'
  BY VarLockNext, GoneNext, NamesNext, OwnerNext
<1>3. CopiesOK' /\ MemberOK' /\ LocksOK' /\ ProgressOK'
  BY CopiesNext, MemberNext, LocksNext, ProgressNext
<1> QED BY <1>1, <1>2, <1>3 DEF IInv

\* With a merged /usr, the invariant holds throughout.
THEOREM Invariance == ASSUME MergedUsr PROVE Spec => []IInv
BY IInvInit, IInvNext, PTL DEF Spec

\* TypeOK is an invariant: in particular, a process that is about to lock a
\* file has opened one.
THEOREM TypeCorrect == ASSUME MergedUsr PROVE Spec => []TypeOK
<1>1. IInv => TypeOK
  BY DEF IInv
<1> QED BY <1>1, Invariance, PTL

\* pv_runtime_garbage_collect() never takes a copy of a merged /usr away from
\* the process that makes or uses it.
THEOREM CopiesStayIntact == ASSUME MergedUsr PROVE Spec => []CopyIntact
<1>1. IInv => CopyIntact
  BY DEF IInv, OwnerOK, CopiesOK, CopyOK, CopyIntact
<1> QED BY <1>1, Invariance, PTL

\* pv_runtime_garbage_collect() deletes whatever nobody owned when the process
\* started, unless it cannot be deleted.
THEOREM GarbageIsCollected == ASSUME MergedUsr PROVE Spec => []CollectsUnused
<1>1. IInv => CollectsUnused
  BY DEF IInv, ProgressOK, CollectsUnused, GCPCs
<1> QED BY <1>1, Invariance, PTL

=============================================================================
