---------------------------- MODULE LoggerProofs ----------------------------
(***************************************************************************)
(* Proofs about the two parts of logger.c, LogRotation and LogLines.       *)
(*                                                                         *)
(* LogRotation, for any number of loggers and of files: as long as only    *)
(* the loggers change the directory, one of them at a time rotates the     *)
(* log, each writes to the file that is called filename, and no step       *)
(* throws the current log away.  The argument: a logger that uses its file *)
(* holds a lock on it, exclusive while it rotates; only the logger that    *)
(* rotates makes filename mean another file, and it needs the exclusive    *)
(* lock on the file that filename means now, so the file of a logger that  *)
(* has checked is still the log.  The file that takes its place is one     *)
(* that nobody else can have open yet, and is locked exclusively before it *)
(* gets its name.                                                          *)
(*                                                                         *)
(* LogLines, for inputs of any length and any way to divide them among     *)
(* calls of read(): what has been logged is right for what has been taken  *)
(* out of the buffer.  The argument: the buffer is the next part of the    *)
(* input, and the variables of the loop say whether a line begins there or *)
(* a cut line goes on, whether its prefix is known, and which directive    *)
(* came before.  A prefix that is too short to be read may still become    *)
(* any of the three kinds; one that has been read is that of the line,     *)
(* however much of the line is still to come.                              *)
(***************************************************************************)
EXTENDS LogRotation, LogLines, FiniteSetTheorems, FunctionTheorems,
        SequenceTheorems, TLAPS

-----------------------------------------------------------------------------
(* LogRotation.                                                            *)

\* Who holds a lock, and has a file open, whatever happens to the names.
HoldsOK ==
    \A l \in Loggers :
        /\ pc[l] \in {"off", "lock"} => lock[l] = "none"
        /\ pc[l] \notin {"off", "lock"} => lock[l] # "none"
        /\ pc[l] # "off" => file[l] # None
        /\ pc[l] \in {"relock", "lock_new", "rename"} => new_fd[l] # None
        /\ pc[l] = "rename" => new_lock[l] = "exclusive"

\* Whoever rotates excludes the others.
ExclusiveOK ==
    /\ \A l \in Loggers : pc[l] \in RotatePCs => lock[l] = "exclusive"
    /\ \A l, m \in Loggers :
         l # m /\ lock[l] = "exclusive" /\ file[m] = file[l] => lock[m] = "none"

\* Who has checked the log has it open.
CheckedOK == \A l \in Loggers : pc[l] \in CheckedPCs => log = file[l]

\* The temporary file is nobody else's, and not yet the log.
NewOK ==
    \A l \in Loggers : pc[l] \in {"lock_new", "rename"} =>
        /\ new_fd[l] = new /\ new # log
        /\ \A m \in Loggers : file[m] # new
        /\ \A m \in Loggers \ {l} : new_fd[m] # new

\* The log has its second name.
LinkedOK ==
    \A l \in Loggers :
        pc[l] \in {"open_new", "lock_new", "rename"} => previous = log

Undisturbed == ExclusiveOK /\ CheckedOK /\ NewOK /\ LinkedOK

IInv == TypeOK /\ HoldsOK /\ (~deleted => Undisturbed)

-----------------------------------------------------------------------------
(* Files.                                                                  *)

\* A new file is one that has no name and that nobody has open.
LEMMA FreshFacts ==
    ASSUME Free # {}
    PROVE  /\ Fresh \in Inodes
           /\ Fresh \notin {log, previous, new}
           /\ \A m \in Loggers : Fresh # file[m] /\ Fresh # new_fd[m]
<1>1. Fresh \in Free
  BY DEF Fresh
<1> QED
  BY <1>1 DEF Free, Open

\* Two loggers that rotate would both have an exclusive lock on the log.
LEMMA RotatesAlone ==
    ASSUME IInv, ~deleted, NEW l \in Loggers, NEW m \in Loggers,
           pc[l] \in RotatePCs, pc[m] \in RotatePCs
    PROVE  l = m
<1>1. lock[l] = "exclusive" /\ lock[m] = "exclusive"
  BY DEF IInv, Undisturbed, ExclusiveOK
<1>2. file[l] = log /\ file[m] = log
  BY DEF IInv, Undisturbed, CheckedOK, CheckedPCs
<1> QED
  BY <1>1, <1>2 DEF IInv, Undisturbed, ExclusiveOK

-----------------------------------------------------------------------------
(* Every step preserves the invariant.                                     *)

\* Every step keeps the types.
LEMMA TypeNext ==
    ASSUME IInv, [Next]_vars
    PROVE  TypeOK'
<1> USE NoneAssumption, FreshFacts DEF IInv, HoldsOK, TypeOK, PCs, RotatePCs,
        CheckedPCs, Kinds, nameVars, fdVars, newVars
<1>1. ASSUME NEW l \in Loggers, Setup(l) PROVE TypeOK'
  BY <1>1 DEF Setup, GoTo, OpenLog
<1>2. ASSUME NEW l \in Loggers, LockLog(l) PROVE TypeOK'
  BY <1>2 DEF LockLog, GoTo
<1>3. ASSUME NEW l \in Loggers, Relock(l) PROVE TypeOK'
  <2>1. <<file[l], lock[l]>> \in Inodes \X Kinds
    BY <1>3 DEF Relock
  <2>2. leaked' \in [Loggers -> SUBSET (Inodes \X Kinds)]
    BY <1>3, <2>1 DEF Relock
  <2> QED
    BY <1>3, <2>2 DEF Relock, GoTo, Relocked
<1>4. ASSUME NEW l \in Loggers, Check(l) PROVE TypeOK'
  BY <1>4 DEF Check, GoTo
<1>5. ASSUME NEW l \in Loggers, Reopen(l) PROVE TypeOK'
  BY <1>5 DEF Reopen, GoTo, OpenLog
<1>6. ASSUME NEW l \in Loggers, Write(l) PROVE TypeOK'
  BY <1>6 DEF Write, GoTo
<1>7. ASSUME NEW l \in Loggers, TakeExclusive(l) PROVE TypeOK'
  BY <1>7 DEF TakeExclusive, GoTo, GiveUp
<1>8. ASSUME NEW l \in Loggers, UnlinkPrevious(l) PROVE TypeOK'
  BY <1>8 DEF UnlinkPrevious, GoTo, GiveUp
<1>9. ASSUME NEW l \in Loggers, LinkPrevious(l) PROVE TypeOK'
  BY <1>9 DEF LinkPrevious, GoTo, GiveUp, LinkLog
<1>10. ASSUME NEW l \in Loggers, OpenNew(l) PROVE TypeOK'
  <2>1. CASE GiveUp(l, "out") /\ UNCHANGED <<new, new_fd>>
    BY <1>10, <2>1 DEF OpenNew, GoTo, GiveUp
  <2>2. CASE /\ Free # {} /\ new' = Fresh /\ UNCHANGED rotating
             /\ new_fd' = [new_fd EXCEPT ![l] = Fresh] /\ GoTo(l, "lock_new")
    BY <1>10, <2>2 DEF OpenNew, GoTo
  <2> QED
    BY <1>10, <2>1, <2>2 DEF OpenNew
<1>11. ASSUME NEW l \in Loggers, LockNew(l) PROVE TypeOK'
  BY <1>11 DEF LockNew, GoTo, GiveUp
<1>12. ASSUME NEW l \in Loggers, RenameNew(l) PROVE TypeOK'
  <2>1. CASE GiveUp(l, "out") /\ UNCHANGED <<log, new, file, lock, newVars>>
    BY <1>12, <2>1 DEF RenameNew, GoTo, GiveUp
  <2>2. CASE UNCHANGED rotating
    <3>1. log' \in Inodes \cup {None} /\ new' \in Inodes \cup {None}
      BY <1>12, <2>2 DEF RenameNew
    <3>2. pc' \in [Loggers -> PCs]
      BY <1>12, <2>2 DEF RenameNew, GoTo, GiveUp
    <3>3. /\ file' \in [Loggers -> Inodes \cup {None}]
           /\ new_fd' \in [Loggers -> Inodes \cup {None}]
      BY <1>12, <2>2 DEF RenameNew
    <3>4. lock' \in [Loggers -> Kinds \cup {"none"}]
      BY <1>12, <2>2 DEF RenameNew
    <3>5. new_lock' \in [Loggers -> {"exclusive", "none"}]
      BY <1>12, <2>2 DEF RenameNew
    <3> QED
      BY <1>12, <2>2, <3>1, <3>2, <3>3, <3>4, <3>5 DEF RenameNew
  <2> QED
    BY <1>12, <2>1, <2>2 DEF RenameNew
<1>13. ASSUME NEW l \in Loggers, Out(l) PROVE TypeOK'
  BY <1>13 DEF Out, GoTo, ReturnedTo
<1>14. ASSUME NEW l \in Loggers, End(l) PROVE TypeOK'
  BY <1>14 DEF End, GoTo
<1>15. CASE Delete
  BY <1>15 DEF Delete
<1>16. CASE UNCHANGED vars
  BY <1>16 DEF vars, nameVars, fdVars, newVars
<1> QED
  BY <1>1, <1>2, <1>3, <1>4, <1>5, <1>6, <1>7, <1>8, <1>9, <1>10, <1>11,
       <1>12, <1>13, <1>14, <1>15, <1>16
  DEF Next, LockStep, LineStep, RotateStep

\* A logger holds a lock from the time it has become ready.
LEMMA HoldsNext ==
    ASSUME IInv, [Next]_vars
    PROVE  HoldsOK'
<1> USE NoneAssumption, FreshFacts DEF IInv, TypeOK, HoldsOK, PCs, RotatePCs,
        CheckedPCs, Kinds, nameVars, fdVars, newVars
<1>1. ASSUME NEW l \in Loggers, Setup(l) PROVE HoldsOK'
  BY <1>1 DEF Setup, GoTo, OpenLog
<1>2. ASSUME NEW l \in Loggers, LockLog(l) PROVE HoldsOK'
  BY <1>2 DEF LockLog, GoTo
<1>3. ASSUME NEW l \in Loggers, Relock(l) PROVE HoldsOK'
  BY <1>3 DEF Relock, GoTo, Relocked
<1>4. ASSUME NEW l \in Loggers, Check(l) PROVE HoldsOK'
  BY <1>4 DEF Check, GoTo
<1>5. ASSUME NEW l \in Loggers, Reopen(l) PROVE HoldsOK'
  BY <1>5 DEF Reopen, GoTo, OpenLog
<1>6. ASSUME NEW l \in Loggers, Write(l) PROVE HoldsOK'
  BY <1>6 DEF Write, GoTo
<1>7. ASSUME NEW l \in Loggers, TakeExclusive(l) PROVE HoldsOK'
  BY <1>7 DEF TakeExclusive, GoTo, GiveUp
<1>8. ASSUME NEW l \in Loggers, UnlinkPrevious(l) PROVE HoldsOK'
  BY <1>8 DEF UnlinkPrevious, GoTo, GiveUp
<1>9. ASSUME NEW l \in Loggers, LinkPrevious(l) PROVE HoldsOK'
  BY <1>9 DEF LinkPrevious, GoTo, GiveUp, LinkLog
<1>10. ASSUME NEW l \in Loggers, OpenNew(l) PROVE HoldsOK'
  BY <1>10 DEF OpenNew, GoTo, GiveUp
<1>11. ASSUME NEW l \in Loggers, LockNew(l) PROVE HoldsOK'
  BY <1>11 DEF LockNew, GoTo, GiveUp
<1>12. ASSUME NEW l \in Loggers, RenameNew(l) PROVE HoldsOK'
  BY <1>12 DEF RenameNew, GoTo, GiveUp
<1>13. ASSUME NEW l \in Loggers, Out(l) PROVE HoldsOK'
  BY <1>13 DEF Out, GoTo, ReturnedTo
<1>14. ASSUME NEW l \in Loggers, End(l) PROVE HoldsOK'
  BY <1>14 DEF End, GoTo
<1>15. CASE Delete
  BY <1>15 DEF Delete
<1>16. CASE UNCHANGED vars
  BY <1>16 DEF vars, nameVars, fdVars, newVars
<1> QED
  BY <1>1, <1>2, <1>3, <1>4, <1>5, <1>6, <1>7, <1>8, <1>9, <1>10, <1>11,
       <1>12, <1>13, <1>14, <1>15, <1>16
  DEF Next, LockStep, LineStep, RotateStep

\* Locks exclude each other, also where a file is opened before it is locked,
\* and where the locked temporary file becomes the log.
LEMMA ExclusiveNext ==
    ASSUME IInv, [Next]_vars, ~deleted'
    PROVE  ExclusiveOK'
<1> USE NoneAssumption, FreshFacts DEF IInv, TypeOK, Undisturbed, HoldsOK,
        ExclusiveOK, NewOK, PCs, RotatePCs, CheckedPCs, Kinds, nameVars,
        fdVars, newVars
<1>1. ASSUME NEW l \in Loggers, Setup(l) PROVE ExclusiveOK'
  BY <1>1 DEF Setup, GoTo, OpenLog
<1>2. ASSUME NEW l \in Loggers, LockLog(l) PROVE ExclusiveOK'
  BY <1>2 DEF LockLog, GoTo, MayShare, Locked
<1>3. ASSUME NEW l \in Loggers, Relock(l) PROVE ExclusiveOK'
  BY <1>3 DEF Relock, GoTo, MayShare, Locked, Relocked
<1>4. ASSUME NEW l \in Loggers, Check(l) PROVE ExclusiveOK'
  BY <1>4 DEF Check, GoTo
<1>5. ASSUME NEW l \in Loggers, Reopen(l) PROVE ExclusiveOK'
  BY <1>5 DEF Reopen, GoTo, OpenLog
<1>6. ASSUME NEW l \in Loggers, Write(l) PROVE ExclusiveOK'
  BY <1>6 DEF Write, GoTo
<1>7. ASSUME NEW l \in Loggers, TakeExclusive(l) PROVE ExclusiveOK'
  BY <1>7 DEF TakeExclusive, GoTo, GiveUp, MayExclude, Locked
<1>8. ASSUME NEW l \in Loggers, UnlinkPrevious(l) PROVE ExclusiveOK'
  BY <1>8 DEF UnlinkPrevious, GoTo, GiveUp
<1>9. ASSUME NEW l \in Loggers, LinkPrevious(l) PROVE ExclusiveOK'
  BY <1>9 DEF LinkPrevious, GoTo, GiveUp, LinkLog
<1>10. ASSUME NEW l \in Loggers, OpenNew(l) PROVE ExclusiveOK'
  BY <1>10 DEF OpenNew, GoTo, GiveUp
<1>11. ASSUME NEW l \in Loggers, LockNew(l) PROVE ExclusiveOK'
  BY <1>11 DEF LockNew, GoTo, GiveUp, MayExclude, Locked
<1>12. ASSUME NEW l \in Loggers, RenameNew(l) PROVE ExclusiveOK'
  BY <1>12 DEF RenameNew, GoTo, GiveUp
<1>13. ASSUME NEW l \in Loggers, Out(l) PROVE ExclusiveOK'
  BY <1>13 DEF Out, GoTo, ReturnedTo
<1>14. ASSUME NEW l \in Loggers, End(l) PROVE ExclusiveOK'
  BY <1>14 DEF End, GoTo
<1>15. CASE Delete
  BY <1>15 DEF Delete
<1>16. CASE UNCHANGED vars
  BY <1>16 DEF vars, nameVars, fdVars, newVars
<1> QED
  BY <1>1, <1>2, <1>3, <1>4, <1>5, <1>6, <1>7, <1>8, <1>9, <1>10, <1>11,
       <1>12, <1>13, <1>14, <1>15, <1>16
  DEF Next, LockStep, LineStep, RotateStep

\* Nobody takes the log away from a logger that has checked it.
LEMMA CheckedNext ==
    ASSUME IInv, [Next]_vars, ~deleted'
    PROVE  CheckedOK'
<1> USE NoneAssumption, FreshFacts DEF IInv, TypeOK, Undisturbed, HoldsOK,
        ExclusiveOK, CheckedOK, NewOK, PCs, RotatePCs, CheckedPCs, Kinds,
        nameVars, fdVars, newVars
<1>1. ASSUME NEW l \in Loggers, Setup(l) PROVE CheckedOK'
  BY <1>1 DEF Setup, GoTo, OpenLog
<1>2. ASSUME NEW l \in Loggers, LockLog(l) PROVE CheckedOK'
  BY <1>2 DEF LockLog, GoTo
<1>3. ASSUME NEW l \in Loggers, Relock(l) PROVE CheckedOK'
  BY <1>3 DEF Relock, GoTo, Relocked
<1>4. ASSUME NEW l \in Loggers, Check(l) PROVE CheckedOK'
  BY <1>4 DEF Check, GoTo
<1>5. ASSUME NEW l \in Loggers, Reopen(l) PROVE CheckedOK'
  BY <1>5 DEF Reopen, GoTo, OpenLog
<1>6. ASSUME NEW l \in Loggers, Write(l) PROVE CheckedOK'
  BY <1>6 DEF Write, GoTo
<1>7. ASSUME NEW l \in Loggers, TakeExclusive(l) PROVE CheckedOK'
  BY <1>7 DEF TakeExclusive, GoTo, GiveUp
<1>8. ASSUME NEW l \in Loggers, UnlinkPrevious(l) PROVE CheckedOK'
  BY <1>8 DEF UnlinkPrevious, GoTo, GiveUp
<1>9. ASSUME NEW l \in Loggers, LinkPrevious(l) PROVE CheckedOK'
  BY <1>9 DEF LinkPrevious, GoTo, GiveUp, LinkLog
<1>10. ASSUME NEW l \in Loggers, OpenNew(l) PROVE CheckedOK'
  BY <1>10 DEF OpenNew, GoTo, GiveUp
<1>11. ASSUME NEW l \in Loggers, LockNew(l) PROVE CheckedOK'
  BY <1>11 DEF LockNew, GoTo, GiveUp
<1>12. ASSUME NEW l \in Loggers, RenameNew(l) PROVE CheckedOK'
  BY <1>12 DEF RenameNew, GoTo, GiveUp
<1>13. ASSUME NEW l \in Loggers, Out(l) PROVE CheckedOK'
  BY <1>13 DEF Out, GoTo, ReturnedTo
<1>14. ASSUME NEW l \in Loggers, End(l) PROVE CheckedOK'
  BY <1>14 DEF End, GoTo
<1>15. CASE Delete
  BY <1>15 DEF Delete
<1>16. CASE UNCHANGED vars
  BY <1>16 DEF vars, nameVars, fdVars, newVars
<1> QED
  BY <1>1, <1>2, <1>3, <1>4, <1>5, <1>6, <1>7, <1>8, <1>9, <1>10, <1>11,
       <1>12, <1>13, <1>14, <1>15, <1>16
  DEF Next, LockStep, LineStep, RotateStep

\* The temporary file belongs to the logger that rotates.
LEMMA NewNext ==
    ASSUME IInv, [Next]_vars, ~deleted'
    PROVE  NewOK'
<1> USE NoneAssumption, FreshFacts, RotatesAlone DEF IInv, TypeOK,
        Undisturbed, HoldsOK, NewOK, PCs, RotatePCs, CheckedPCs, Kinds,
        nameVars, fdVars, newVars
<1>1. ASSUME NEW l \in Loggers, Setup(l) PROVE NewOK'
  BY <1>1 DEF Setup, GoTo, OpenLog
<1>2. ASSUME NEW l \in Loggers, LockLog(l) PROVE NewOK'
  BY <1>2 DEF LockLog, GoTo
<1>3. ASSUME NEW l \in Loggers, Relock(l) PROVE NewOK'
  BY <1>3 DEF Relock, GoTo, Relocked
<1>4. ASSUME NEW l \in Loggers, Check(l) PROVE NewOK'
  BY <1>4 DEF Check, GoTo
<1>5. ASSUME NEW l \in Loggers, Reopen(l) PROVE NewOK'
  BY <1>5 DEF Reopen, GoTo, OpenLog
<1>6. ASSUME NEW l \in Loggers, Write(l) PROVE NewOK'
  BY <1>6 DEF Write, GoTo
<1>7. ASSUME NEW l \in Loggers, TakeExclusive(l) PROVE NewOK'
  BY <1>7 DEF TakeExclusive, GoTo, GiveUp
<1>8. ASSUME NEW l \in Loggers, UnlinkPrevious(l) PROVE NewOK'
  BY <1>8 DEF UnlinkPrevious, GoTo, GiveUp
<1>9. ASSUME NEW l \in Loggers, LinkPrevious(l) PROVE NewOK'
  BY <1>9 DEF LinkPrevious, GoTo, GiveUp, LinkLog
<1>10. ASSUME NEW l \in Loggers, OpenNew(l) PROVE NewOK'
  BY <1>10 DEF OpenNew, GoTo, GiveUp
<1>11. ASSUME NEW l \in Loggers, LockNew(l) PROVE NewOK'
  BY <1>11 DEF LockNew, GoTo, GiveUp
<1>12. ASSUME NEW l \in Loggers, RenameNew(l) PROVE NewOK'
  BY <1>12 DEF RenameNew, GoTo, GiveUp
<1>13. ASSUME NEW l \in Loggers, Out(l) PROVE NewOK'
  BY <1>13 DEF Out, GoTo, ReturnedTo
<1>14. ASSUME NEW l \in Loggers, End(l) PROVE NewOK'
  BY <1>14 DEF End, GoTo
<1>15. CASE Delete
  BY <1>15 DEF Delete
<1>16. CASE UNCHANGED vars
  BY <1>16 DEF vars, nameVars, fdVars, newVars
<1> QED
  BY <1>1, <1>2, <1>3, <1>4, <1>5, <1>6, <1>7, <1>8, <1>9, <1>10, <1>11,
       <1>12, <1>13, <1>14, <1>15, <1>16
  DEF Next, LockStep, LineStep, RotateStep

\* The log keeps its second name until rotation is complete.
LEMMA LinkedNext ==
    ASSUME IInv, [Next]_vars, ~deleted'
    PROVE  LinkedOK'
<1> USE NoneAssumption, FreshFacts, RotatesAlone DEF IInv, TypeOK,
        Undisturbed, HoldsOK, CheckedOK, LinkedOK, PCs, RotatePCs, CheckedPCs,
        Kinds, nameVars, fdVars, newVars
<1>1. ASSUME NEW l \in Loggers, Setup(l) PROVE LinkedOK'
  BY <1>1 DEF Setup, GoTo, OpenLog
<1>2. ASSUME NEW l \in Loggers, LockLog(l) PROVE LinkedOK'
  BY <1>2 DEF LockLog, GoTo
<1>3. ASSUME NEW l \in Loggers, Relock(l) PROVE LinkedOK'
  BY <1>3 DEF Relock, GoTo, Relocked
<1>4. ASSUME NEW l \in Loggers, Check(l) PROVE LinkedOK'
  BY <1>4 DEF Check, GoTo
<1>5. ASSUME NEW l \in Loggers, Reopen(l) PROVE LinkedOK'
  BY <1>5 DEF Reopen, GoTo, OpenLog
<1>6. ASSUME NEW l \in Loggers, Write(l) PROVE LinkedOK'
  BY <1>6 DEF Write, GoTo
<1>7. ASSUME NEW l \in Loggers, TakeExclusive(l) PROVE LinkedOK'
  BY <1>7 DEF TakeExclusive, GoTo, GiveUp
<1>8. ASSUME NEW l \in Loggers, UnlinkPrevious(l) PROVE LinkedOK'
  BY <1>8 DEF UnlinkPrevious, GoTo, GiveUp
<1>9. ASSUME NEW l \in Loggers, LinkPrevious(l) PROVE LinkedOK'
  BY <1>9 DEF LinkPrevious, GoTo, GiveUp, LinkLog
<1>10. ASSUME NEW l \in Loggers, OpenNew(l) PROVE LinkedOK'
  BY <1>10 DEF OpenNew, GoTo, GiveUp
<1>11. ASSUME NEW l \in Loggers, LockNew(l) PROVE LinkedOK'
  BY <1>11 DEF LockNew, GoTo, GiveUp
<1>12. ASSUME NEW l \in Loggers, RenameNew(l) PROVE LinkedOK'
  BY <1>12 DEF RenameNew, GoTo, GiveUp
<1>13. ASSUME NEW l \in Loggers, Out(l) PROVE LinkedOK'
  BY <1>13 DEF Out, GoTo, ReturnedTo
<1>14. ASSUME NEW l \in Loggers, End(l) PROVE LinkedOK'
  BY <1>14 DEF End, GoTo
<1>15. CASE Delete
  BY <1>15 DEF Delete
<1>16. CASE UNCHANGED vars
  BY <1>16 DEF vars, nameVars, fdVars, newVars
<1> QED
  BY <1>1, <1>2, <1>3, <1>4, <1>5, <1>6, <1>7, <1>8, <1>9, <1>10, <1>11,
       <1>12, <1>13, <1>14, <1>15, <1>16
  DEF Next, LockStep, LineStep, RotateStep

-----------------------------------------------------------------------------
(* The theorems.                                                           *)

\* The initial state satisfies the invariant.
LEMMA InitInv == Init => IInv
BY NoneAssumption
   DEF Init, IInv, TypeOK, Undisturbed, HoldsOK, ExclusiveOK, CheckedOK, NewOK,
       LinkedOK, PCs, RotatePCs, CheckedPCs, Kinds

\* Every step preserves the invariant.
LEMMA NextInv == IInv /\ [Next]_vars => IInv'
<1> SUFFICES ASSUME IInv, [Next]_vars PROVE IInv'
  OBVIOUS
<1>1. TypeOK'
  BY TypeNext DEF IInv
<1>2. HoldsOK'
  BY HoldsNext
<1>3. ASSUME ~deleted' PROVE Undisturbed'
  BY <1>3, ExclusiveNext, CheckedNext, NewNext, LinkedNext
     DEF Undisturbed
<1> QED
  BY <1>1, <1>2, <1>3 DEF IInv

\* The inductive invariant holds in every reachable state.
THEOREM Invariance == Spec => []IInv
<1> QED
  BY InitInv, NextInv, PTL DEF Spec

\* The variables of logger.c keep their types, for any number of loggers.
THEOREM TypeCorrect == Spec => []TypeOK
<1>1. IInv => TypeOK
  BY DEF IInv
<1> QED
  BY <1>1, Invariance, PTL

\* Two loggers never rotate one log at the same time.
THEOREM RotationExcludes == Spec => []OneRotator
<1>1. IInv => OneRotator
  BY RotatesAlone DEF OneRotator
<1> QED
  BY <1>1, Invariance, PTL

\* A line that is written after a check goes to the file called filename.
THEOREM WritesWhereItChecked == Spec => []WritesToLog
<1>1. IInv => WritesToLog
  BY DEF IInv, Undisturbed, CheckedOK, WritesToLog
<1> QED
  BY <1>1, Invariance, PTL

\* No step takes the name away from the log before it has its second name.
THEOREM RotationKeepsTheLog == Spec => KeepsOldLog
<1>1. ASSUME IInv, [Next]_vars, ~deleted', log # None, log' # log
      PROVE  previous' = log
  <2>1. PICK l \in Loggers : RenameNew(l)
    BY <1>1 DEF Next, LockStep, LineStep, RotateStep, Setup, LockLog, Relock,
       Check, Reopen, Write, TakeExclusive, UnlinkPrevious, LinkPrevious,
       OpenNew, LockNew, Out, End, Delete, OpenLog, LinkLog, vars, nameVars
  <2> QED
    BY <1>1, <2>1 DEF RenameNew, IInv, Undisturbed, LinkedOK
<1>2. IInv /\ [Next]_vars =>
        [~deleted' /\ log # None /\ log' # log => previous' = log]_vars
  BY <1>1
<1> QED
  BY <1>2, Invariance, PTL DEF Spec, KeepsOldLog

-----------------------------------------------------------------------------
(* LogLines.                                                               *)

-----------------------------------------------------------------------------
(* Numbers, sequences and sets in order.                                   *)

LEMMA SmallMultiple ==
    ASSUME NEW B \in Nat \ {0}, NEW d \in Int, B * d < B, B * d > -B PROVE d = 0
<1>1. ASSUME d >= 1 PROVE FALSE
  <2>1. B * d = B + B * (d - 1) 
    BY SMT
  <2>2. B * (d-1) >= 0
    BY <1>1, SMT
  <2> QED BY <2>1, <2>2
<1>2. ASSUME d <= -1 PROVE FALSE
  <2>1. B * d = -B + B * (d + 1) 
    BY SMT
  <2>2. B * (d+1) <= 0
    BY <1>2, SMT
  <2> QED BY <2>1, <2>2
<1> QED BY <1>1, <1>2

LEMMA Modulo ==
    ASSUME NEW B \in Nat \ {0}, NEW a \in Nat, a % B = 0, NEW x \in 0..B - 1
    PROVE  (a + x) % B = x /\ (a + B) % B = 0
<1> DEFINE q == a \div B
<1>1. a = B * q /\ q \in Int
    OBVIOUS
<1>2. ASSUME NEW y \in Nat, NEW p \in Int, NEW r \in 0..B - 1, a + x = B * p + r
      PROVE  r = x
    <2>1. B * (p - q) = x - r
        BY <1>1, <1>2
    <2>2. p - q = 0
        BY <2>1, SmallMultiple
    <2> QED BY <2>1, <2>2
<1>3. (a + x) % B = x
    <2> DEFINE p == (a + x) \div B
               r == (a + x) % B
    <2>1. p \in Int /\ r \in 0..B - 1 /\ a + x = B * p + r
        OBVIOUS
    <2> HIDE DEF p, r
    <2>2. r = x
        BY <2>1, <1>2
    <2> QED BY <2>2 DEF r
<1>4. (a + B) % B = 0
    <2> DEFINE p == (a + B) \div B
               r == (a + B) % B
    <2>1. p \in Int /\ r \in 0..B - 1 /\ a + B = B * p + r
        OBVIOUS
    <2> HIDE DEF p, r
    <2>2. B * (p - q - 1) = 0 - r
        BY <2>1, <1>1
    <2>3. p - q - 1 = 0
        BY <2>1, <2>2, <1>1, SmallMultiple
    <2> QED BY <2>2, <2>3, <2>1, <1>1
<1> QED BY <1>3, <1>4

LEMMA HasMinimum ==
    ASSUME NEW S \in SUBSET Nat, S # {}
    PROVE  \E m \in S : \A i \in S : m <= i
<1> DEFINE R == {ss \in Nat \X Nat : ss[1] < ss[2]}
<1>1. IsWellFoundedOn(R, Nat)
    BY NatLessThanWellFounded DEF OpToRel
<1>2. \A i, m \in S : <<i, m>> \notin R => m <= i
    OBVIOUS
<1> HIDE DEF R
<1>3. \E m \in S : \A i \in S : <<i, m>> \notin R
    BY <1>1, WFMin
<1> QED BY <1>2, <1>3

LEMMA DropFacts ==
    ASSUME NEW V, NEW s \in Seq(V), NEW n \in 0..Len(s)
    PROVE  /\ Drop(s, n) \in Seq(V) /\ Len(Drop(s, n)) = Len(s) - n
           /\ \A i \in 1..Len(s) - n : Drop(s, n)[i] = s[n + i]
BY SubSeqProperties DEF Drop

LEMMA AppendFacts ==
    ASSUME NEW V, NEW s \in Seq(V), NEW e \in V
    PROVE  /\ Append(s, e) \in Seq(V) /\ Len(Append(s, e)) = Len(s) + 1
           /\ Append(s, e)[Len(s) + 1] = e
           /\ \A i \in 1..Len(s) : Append(s, e)[i] = s[i]
OBVIOUS

LEMMA SameSubSeq ==
    ASSUME NEW V, NEW s \in Seq(V), NEW t \in Seq(V), NEW m \in Nat, m + Len(t) <= Len(s)
    PROVE  SubSeq(s, m + 1, m + Len(t)) = t <=> \A k \in 1..Len(t) : s[m + k] = t[k]
<1> DEFINE u == SubSeq(s, m + 1, m + Len(t))
<1>1. Len(s) \in Nat /\ Len(t) \in Nat /\ \A k \in 1..Len(s) : s[k] \in V
    BY LenProperties, ElementOfSeq
<1>2. m + 1 \in Int /\ m + Len(t) \in Int /\ \A k \in m + 1..m + Len(t) : s[k] \in V
    BY <1>1
<1>3. /\ u \in Seq(V) /\ Len(u) = IF m + 1 <= m + Len(t) THEN m + Len(t) - (m + 1) + 1 ELSE 0
      /\ \A k \in 1..m + Len(t) - (m + 1) + 1 : u[k] = s[m + 1 + k - 1]
    BY <1>2, SubSeqProperties
<1>4. u \in Seq(V) /\ Len(u) = Len(t) /\ \A k \in 1..Len(t) : u[k] = s[m + k]
    BY <1>1, <1>3
<1>5. (\A k \in 1..Len(t) : s[m + k] = t[k]) => u = t
    BY <1>1, <1>4, SeqEqual
<1> QED BY <1>4, <1>5

\* Positions up to a number, in a finite set.
LEMMA RankFacts ==
    ASSUME NEW S \in SUBSET Nat, IsFiniteSet(S), NEW x \in S
    PROVE  Rank(S, x) \in 1..Cardinality(S)
<1> DEFINE T == {y \in S : y <= x}
<1>1. IsFiniteSet(T) /\ Cardinality(T) \in Nat /\ Cardinality(T) <= Cardinality(S)
    BY FS_Subset, FS_CardinalityType
<1>2. T # {}
    OBVIOUS
<1>3. Cardinality(T) # 0
    BY <1>1, <1>2, FS_EmptySet
<1> QED BY <1>1, <1>3, FS_CardinalityType DEF Rank

LEMMA RankBelow ==
    ASSUME NEW S \in SUBSET Nat, NEW T \in SUBSET Nat, NEW x \in S,
           \A y \in T : y > x
    PROVE  Rank(S \cup T, x) = Rank(S, x)
<1>1. x \in Nat /\ \A y \in S \cup T : y \in Nat
    OBVIOUS
<1>2. \A y \in T : ~(y <= x)
    BY <1>1
<1>3. {y \in S \cup T : y <= x} = {y \in S : y <= x}
    BY <1>2
<1> QED BY <1>3 DEF Rank

\* An element that is greater than all others comes last.
LEMMA AppendInOrder ==
    ASSUME NEW V, NEW q \in Seq(V), NEW S \in SUBSET Nat, IsFiniteSet(S), NEW f,
           InOrder(q, S, f), NEW e \in Nat, \A x \in S : x < e, f[e] \in V
    PROVE  InOrder(Append(q, f[e]), S \cup {e}, f)
<1>1. Cardinality(S \cup {e}) = Cardinality(S) + 1
    <2>1. e \notin S /\ \A x \in S : x \in Nat
        OBVIOUS
    <2> QED BY <2>1, FS_AddElement
<1>2. \A x \in S : Rank(S \cup {e}, x) = Rank(S, x) /\ Rank(S, x) \in 1..Len(q)
    BY RankBelow, RankFacts DEF InOrder
<1>3. Rank(S \cup {e}, e) = Len(q) + 1
    <2>1. \A y \in S \cup {e} : y <= e
        <3>1. \A x \in S : x \in Nat
            OBVIOUS
        <3> QED BY <3>1
    <2>2. {y \in S \cup {e} : y <= e} = S \cup {e}
        BY <2>1
    <2> QED BY <1>1, <2>2 DEF Rank, InOrder
<1>4. /\ Len(Append(q, f[e])) = Len(q) + 1 /\ Append(q, f[e])[Len(q) + 1] = f[e]
      /\ \A i \in 1..Len(q) : Append(q, f[e])[i] = q[i]
    OBVIOUS
<1>5. Len(Append(q, f[e])) = Cardinality(S \cup {e})
    BY <1>1, <1>4 DEF InOrder
<1>6. \A x \in S : Append(q, f[e])[Rank(S \cup {e}, x)] = f[x]
    BY <1>2, <1>4 DEF InOrder
<1> QED BY <1>3, <1>4, <1>5, <1>6 DEF InOrder

\* The even numbers from 2 * a on: n of them.
Evens(a, n) == {2 * i : i \in a..a + n - 1}

LEMMA EvensCardinality ==
    ASSUME NEW a \in Nat, NEW n \in Nat
    PROVE  IsFiniteSet(Evens(a, n)) /\ Cardinality(Evens(a, n)) = n
<1> DEFINE g == [i \in a..a + n - 1 |-> 2 * i]
<1>1. /\ g \in [a..a + n - 1 -> Evens(a, n)]
      /\ \A i, j \in a..a + n - 1 : g[i] = g[j] => i = j
      /\ \A t \in Evens(a, n) : \E i \in a..a + n - 1 : g[i] = t
    BY DEF Evens
<1>2. g \in Bijection(a..a + n - 1, Evens(a, n))
    <2> HIDE DEF g
    <2> QED BY <1>1, Fun_IsBij
<1>3. ExistsBijection(a..a + n - 1, Evens(a, n))
    BY <1>2 DEF ExistsBijection
<1>4. IsFiniteSet(a..a + n - 1) /\ Cardinality(a..a + n - 1) = n
    BY FS_Interval
<1> QED BY <1>3, <1>4, FS_Bijection

LEMMA ConcatInOrder ==
    ASSUME NEW V, NEW q \in Seq(V), NEW r \in Seq(V), NEW S \in SUBSET Nat,
           IsFiniteSet(S), NEW f, InOrder(q, S, f),
           NEW a \in Nat, \A x \in S : x < 2 * a,
           \A k \in 1..Len(r) : r[k] = f[2 * (a + k - 1)]
    PROVE  InOrder(q \o r, S \cup Evens(a, Len(r)), f)
<1> DEFINE n == Len(r)
           T == Evens(a, n)
<1>0. n \in Nat /\ Len(q) \in Nat
    BY LenProperties
<1>1. IsFiniteSet(T) /\ Cardinality(T) = n /\ T \in SUBSET Nat
    <2>1. \A m \in Nat : Evens(a, m) \in SUBSET Nat
        BY DEF Evens
    <2> QED BY <1>0, <2>1, EvensCardinality
<1>2. \A x \in S, m \in Nat : \A y \in Evens(a, m) : y > x /\ x \in Nat /\ y \in Nat
    <2>1. \A x \in S : x \in Nat /\ x < 2 * a
        OBVIOUS
    <2> QED BY <2>1 DEF Evens
<1>3. ASSUME NEW m \in Nat
      PROVE  Cardinality(S \cup Evens(a, m)) = Len(q) + m
    <2>1. S \cap Evens(a, m) = {}
        <3>1. ASSUME NEW x \in S, x \in Evens(a, m) PROVE FALSE
            <4>1. x > x /\ x \in Nat
                BY <1>2, <3>1
            <4> QED BY <4>1
        <3> QED BY <3>1
    <2>2. IsFiniteSet(Evens(a, m)) /\ Cardinality(Evens(a, m)) = m
        BY EvensCardinality
    <2>3. Cardinality(S \cup Evens(a, m)) = Cardinality(S) + m - Cardinality({})
        BY <2>1, <2>2, FS_Union
    <2> QED BY <1>0, <2>3, FS_EmptySet DEF InOrder
<1>4. \A x \in S : Rank(S \cup T, x) = Rank(S, x) /\ Rank(S, x) \in 1..Len(q)
    BY <1>0, <1>1, <1>2, RankBelow, RankFacts DEF InOrder
<1>5. ASSUME NEW k \in 1..n
      PROVE  Rank(S \cup T, 2 * (a + k - 1)) = Len(q) + k
    <2> DEFINE x == 2 * (a + k - 1)
    <2>1. \A y \in S : y <= x
        BY <1>0
    <2>2. \A y \in T : y <= x <=> y \in Evens(a, k)
        BY <1>0 DEF Evens
    <2>3. Evens(a, k) \subseteq T
        <3>1. \A i \in a..a + k - 1 : i \in a..a + n - 1
            BY <1>0
        <3> QED BY <3>1 DEF Evens
    <2>4. {y \in S \cup T : y <= x} = S \cup Evens(a, k)
        BY <2>1, <2>2, <2>3
    <2>5. k \in Nat
        BY <1>0
    <2> QED BY <1>3, <2>4, <2>5 DEF Rank
<1>6. Len(q \o r) = Len(q) + n
    BY ConcatProperties
<1>7. \A x \in S : (q \o r)[Rank(S \cup T, x)] = f[x]
    <2>1. \A i \in 1..Len(q) : (q \o r)[i] = q[i]
        BY <1>0, ConcatProperties
    <2> QED BY <1>4, <2>1 DEF InOrder
<1>8. ASSUME NEW x \in T
      PROVE  (q \o r)[Rank(S \cup T, x)] = f[x]
    <2>1. PICK k \in 1..n : x = 2 * (a + k - 1)
        <3>1. PICK i \in a..a + n - 1 : x = 2 * i
            BY DEF Evens
        <3>2. i - a + 1 \in 1..n /\ x = 2 * (a + (i - a + 1) - 1)
            BY <3>1, <1>0
        <3> QED BY <3>2
    <2>2. (q \o r)[Len(q) + k] = r[k]
        BY <1>0, ConcatProperties
    <2> QED BY <2>1, <2>2, <1>5
<1> QED BY <1>0, <1>3, <1>6, <1>7, <1>8 DEF InOrder

-----------------------------------------------------------------------------
(* Lines and their prefixes.                                               *)

LEMMA LineOfIs ==
    ASSUME NEW s \in Seq(STRING), NEW i \in Nat, NEW j \in Begins(s), j <= i,
           \A k \in j..i - 1 : s[k] # Newline
    PROVE  LineOf(s, i) = j
<1> DEFINE P(l) == l \in Begins(s) /\ l <= i /\ \A k \in l..i - 1 : s[k] # Newline
<1>1. ASSUME NEW l, P(l), NEW m, P(m), l < m
      PROVE  FALSE
    <2>1. m - 1 \in l..i - 1 /\ m # 1 /\ s[m - 1] = Newline
        BY <1>1 DEF Begins
    <2> QED BY <1>1, <2>1
<1>2. P(LineOf(s, i))
    BY DEF LineOf
<1>3. P(j)
    OBVIOUS
<1>4. LineOf(s, i) \in Int /\ j \in Int
    BY <1>2, <1>3 DEF Begins
<1> HIDE DEF P
<1> QED BY <1>1, <1>2, <1>3, <1>4

LEMMA OneDirective ==
    ASSUME NEW s \in Seq(STRING), NEW d \in Directives(s), NEW e \in Directives(s)
    PROVE  d = e
BY DEF Directives, Begins

LEMMA StartsWithFacts ==
    ASSUME NEW V, NEW s \in Seq(V), NEW t \in Seq(V)
    PROVE  StartsWith(s, t) <=> Len(t) <= Len(s) /\ \A k \in 1..Len(t) : s[k] = t[k]
<1>1. ASSUME Len(t) <= Len(s)
      PROVE  SubSeq(s, 0 + 1, 0 + Len(t)) = t <=> \A k \in 1..Len(t) : s[0 + k] = t[k]
    BY <1>1, SameSubSeq
<1>2. Len(t) \in Nat
    OBVIOUS
<1> QED BY <1>1, <1>2 DEF StartsWith

LEMMA TagFacts ==
    ASSUME NEW s \in Seq(STRING), NEW i \in 1..Len(s), NEW t \in Seq(STRING)
    PROVE  LET d == i + Len(t)
           IN  HasTag(s, i, t) <=>
                 /\ d + 2 <= Len(s) /\ s[i] = "<" /\ \A k \in 1..Len(t) : s[i + k] = t[k]
                 /\ IsDigit(s[d + 1]) /\ LevelOf[s[d + 1]] <= MaxLevel /\ s[d + 2] = ">"
<1>1. i \in Nat /\ Len(t) \in Nat /\ Len(s) \in Nat
    OBVIOUS
<1>2. ASSUME i + Len(t) + 2 <= Len(s)
      PROVE  SubSeq(s, i + 1, i + Len(t)) = t <=> \A k \in 1..Len(t) : s[i + k] = t[k]
    BY <1>1, <1>2, SameSubSeq
<1> QED BY <1>2 DEF HasTag

LEMMA DirectiveFacts ==
    /\ Directive \in Seq(STRING) /\ Len(Directive) \in Nat \ {0}
    /\ BufSize \in Nat /\ BufSize >= Len(Directive) + 4
    /\ ~IsDigit(Directive[1]) /\ \A k \in 1..Len(Directive) : Directive[k] # Newline
    /\ ~IsDigit(Newline) /\ ~IsDigit(">")
<1>1. Directive \in Seq(STRING) /\ Directive # <<>>
    BY BytesAssumption
<1>2. Len(Directive) \in Nat \ {0} /\ Head(Directive) = Directive[1]
    BY <1>1, EmptySeq
<1>3. BufSize \in Nat /\ BufSize >= Len(Directive) + 4
    BY <1>2, BufferAssumption
<1> QED BY <1>1, <1>2, <1>3, BytesAssumption DEF IsDigit

\* What follows the byte i of s: n bytes, and perhaps a newline that has been
\* put after them because the buffer is full or s ends.
Follows(a, s, i, n) ==
    /\ a \in Seq(STRING) /\ \A k \in 1..n : a[k] = s[i + k]
    /\ \A k \in 1..Len(a) - 1 : a[k] # Newline
    /\ \/ Len(a) = n
       \/ /\ Len(a) = n + 1 /\ a[n + 1] = Newline
          /\ n >= Len(Directive) + 3 \/ i + n = Len(s)

LEMMA FollowsFacts ==
    ASSUME NEW s \in Seq(STRING), NEW i \in 1..Len(s), NEW n \in 0..Len(s) - i,
           NEW a, Follows(a, s, i, n)
    PROVE  /\ a \in Seq(STRING) /\ Len(a) \in {n, n + 1} /\ n \in Nat /\ Len(s) \in Nat
           /\ i \in Nat
           /\ \A k \in 1..Len(a) : a[k] # Newline \/ k < Len(a) =>
                k <= n /\ a[k] = s[i + k] /\ i + k <= Len(s)
           /\ \A k \in 1..Len(a) : k <= n => a[k] = s[i + k] /\ i + k <= Len(s)
           /\ \A k \in 1..Len(a) : k <= Len(Directive) + 3 /\ k > n => i + k > Len(s)
           /\ \A k \in 1..Len(a) : a[k] = Newline => k = Len(a)
<1>1. a \in Seq(STRING) /\ Len(a) \in {n, n + 1} /\ n \in Nat /\ Len(s) \in Nat /\ i \in Nat
    BY DEF Follows
<1>2. \A k \in 1..Len(a) : k <= n => a[k] = s[i + k] /\ i + k <= Len(s)
    BY <1>1 DEF Follows
<1>3. \A k \in 1..Len(a) : k > n => Len(a) = n + 1 /\ k = n + 1 /\ a[k] = Newline
    BY <1>1 DEF Follows
<1>4. \A k \in 1..Len(a) : k <= Len(Directive) + 3 /\ k > n => i + k > Len(s)
    BY <1>1, DirectiveFacts DEF Follows
<1>5. \A k \in 1..Len(a) : a[k] = Newline => k = Len(a)
    BY <1>1 DEF Follows
<1> QED BY <1>1, <1>2, <1>3, <1>4, <1>5

\* After "<" comes the beginning of a directive, or not.
LEMMA ParsesDirective ==
    ASSUME NEW s \in Seq(STRING), NEW i \in 1..Len(s), NEW n \in 0..Len(s) - i,
           NEW a, Follows(a, s, i, n), s[i] = "<", StartsWith(a, Directive)
    PROVE  LET N == Len(Directive)
               q == ParseLevel(Drop(a, N), 1 + N, TRUE)
           IN  /\ a # <<>> /\ (a[Len(a)] = Newline => q # NotEnough)
               /\ ~HasTag(s, i, <<>>)
               /\ q # NotEnough =>
                    q = IF IsDirective(s, i)
                        THEN Directed(Len(a) + 1, LevelOf[s[i + N + 1]]) ELSE Unprefixed
               /\ q # NotEnough /\ IsDirective(s, i) =>
                    Len(a) = N + 3 /\ a[Len(a)] = Newline
<1> DEFINE N == Len(Directive)
           u == Drop(a, N)
           q == ParseLevel(u, 1 + N, TRUE)
<1>1. /\ a \in Seq(STRING) /\ Len(a) \in {n, n + 1} /\ n \in Nat /\ Len(s) \in Nat
      /\ i \in Nat
      /\ \A k \in 1..Len(a) : a[k] # Newline \/ k < Len(a) =>
           k <= n /\ a[k] = s[i + k] /\ i + k <= Len(s)
      /\ \A k \in 1..Len(a) : k <= n => a[k] = s[i + k] /\ i + k <= Len(s)
      /\ \A k \in 1..Len(a) : k <= N + 3 /\ k > n => i + k > Len(s)
      /\ \A k \in 1..Len(a) : a[k] = Newline => k = Len(a)
    BY FollowsFacts
<1>2. N \in Nat \ {0} /\ N <= Len(a) /\ \A k \in 1..N : a[k] = Directive[k]
    BY <1>1, DirectiveFacts, StartsWithFacts
<1>3. \A k \in 1..N : a[k] # Newline /\ k <= n /\ s[i + k] = Directive[k] /\ i + k <= Len(s)
    BY <1>1, <1>2, DirectiveFacts
<1>4. /\ u \in Seq(STRING) /\ Len(u) = Len(a) - N /\ N \in 0..Len(a)
      /\ \A k \in 1..Len(a) - N : u[k] = a[N + k]
    BY <1>1, <1>2, DropFacts
<1>5. HasTag(s, i, Directive) <=>
        /\ i + N + 2 <= Len(s) /\ IsDigit(s[i + N + 1])
        /\ LevelOf[s[i + N + 1]] <= MaxLevel /\ s[i + N + 2] = ">"
    BY <1>3, TagFacts, DirectiveFacts
<1>6. ~HasTag(s, i, <<>>)
    <2>1. s[i + 1] = Directive[1] /\ ~IsDigit(s[i + 1])
        BY <1>2, <1>3, DirectiveFacts
    <2>2. <<>> \in Seq(STRING) /\ Len(<<>>) = 0
        BY EmptySeq
    <2>3. HasTag(s, i, <<>>) => IsDigit(s[i + Len(<<>>) + 1])
        BY <2>2, TagFacts
    <2> QED BY <1>1, <2>1, <2>2, <2>3
<1>7. a # <<>> /\ Len(a) \in Nat \ {0}
    BY <1>1, <1>2
<1> DEFINE At(j) ==
             Len(a) >= N + j =>
               /\ u[j] = a[N + j]
               /\ a[N + j] # Newline => N + j <= n
               /\ N + j <= n => s[i + N + j] = a[N + j] /\ i + N + j <= Len(s)
               /\ N + j > n => i + N + j > Len(s)
               /\ a[N + j] = Newline => Len(a) = N + j
<1>8a. ASSUME NEW j \in 1..3, Len(a) >= N + j
      PROVE  At(j)
    <2> DEFINE k == N + j
    <2>1. k \in 1..Len(a) /\ k <= N + 3 /\ j \in 1..Len(a) - N
        BY <1>1, <1>2, <1>8a
    <2>2. u[j] = a[k]
        BY <1>4, <2>1
    <2>3. i + N + j = i + k
        BY <1>1, <1>2
    <2> HIDE DEF k
    <2>4. /\ a[k] # Newline => k <= n
          /\ k <= n => s[i + k] = a[k] /\ i + k <= Len(s)
          /\ k > n => i + k > Len(s)
          /\ a[k] = Newline => Len(a) = k
        BY <1>1, <2>1
    <2> QED BY <2>2, <2>3, <2>4 DEF k
<1>8. At(1) /\ At(2) /\ At(3)
    BY <1>8a
<1>9. /\ u = <<>> <=> Len(a) = N
      /\ \A j \in 1..3 : Len(u) = j <=> Len(a) = N + j
      /\ u # <<>> => Head(u) = u[1]
      /\ Len(a) = N \/ Len(a) >= N + 1
    BY <1>1, <1>2, <1>4
<1>10. ~IsDigit(Newline) /\ ~IsDigit(">") /\ Newline # ">"
    BY DirectiveFacts DEF Newline
<1>11. IsDirective(s, i) <=>
         HasTag(s, i, Directive) /\ (i + N + 3 <= Len(s) => s[i + N + 3] = Newline)
    BY DEF IsDirective
<1> DEFINE Result ==
             /\ a[Len(a)] = Newline => q # NotEnough
             /\ q # NotEnough =>
                  q = IF IsDirective(s, i)
                      THEN Directed(Len(a) + 1, LevelOf[s[i + N + 1]]) ELSE Unprefixed
             /\ q # NotEnough /\ IsDirective(s, i) =>
                    Len(a) = N + 3 /\ a[Len(a)] = Newline
<1>12. SUFFICES Result
    BY <1>6, <1>7
<1>13. Unprefixed # NotEnough /\ \A k, l \in Nat : Directed(k, l) # NotEnough
    BY DEF Unprefixed, NotEnough, Directed
<1> HIDE DEF u, N, q
<1>14. q = IF u = <<>> THEN NotEnough
           ELSE IF ~IsDigit(Head(u)) \/ LevelOf[Head(u)] > MaxLevel THEN Unprefixed
           ELSE IF Len(u) = 1 THEN NotEnough
           ELSE IF u[2] # ">" THEN Unprefixed
           ELSE IF Len(u) = 2 THEN NotEnough
           ELSE IF u[3] # Newline THEN Unprefixed
           ELSE Directed(1 + N + 3, LevelOf[Head(u)])
    BY DEF ParseLevel, q
<1>15. CASE Len(a) = N
    <2>1. q = NotEnough
        BY <1>9, <1>14, <1>15
    <2> QED BY <1>2, <1>3, <1>15, <2>1
<1>16. CASE Len(a) > N /\ (~IsDigit(a[N + 1]) \/ LevelOf[a[N + 1]] > MaxLevel)
    <2>1. q = Unprefixed
        BY <1>1, <1>2, <1>8, <1>9, <1>14, <1>16
    <2>2. \A c : IsDigit(c) => LevelOf[c] \in Nat /\ MaxLevel \in Nat
        BY BytesAssumption DEF IsDigit
    <2>3. CASE N + 1 <= n
        <3>1. s[i + N + 1] = a[N + 1]
            BY <1>1, <1>2, <1>8, <1>16, <2>3
        <3>2. ~HasTag(s, i, Directive)
            BY <1>5, <1>16, <2>2, <3>1
        <3> QED BY <2>1, <3>2, <1>11, <1>13
    <2>4. CASE N + 1 > n
        <3>1. i + N + 1 > Len(s)
            BY <1>1, <1>2, <1>8, <1>16, <2>4
        <3>2. ~HasTag(s, i, Directive)
            BY <1>1, <1>2, <1>5, <3>1
        <3> QED BY <2>1, <3>2, <1>11, <1>13
    <2> QED BY <1>1, <1>2, <2>3, <2>4
<1>17. CASE Len(a) > N /\ IsDigit(a[N + 1]) /\ ~(LevelOf[a[N + 1]] > MaxLevel)
    <2>1. /\ a[N + 1] # Newline /\ N + 1 <= n /\ s[i + N + 1] = a[N + 1]
          /\ i + N + 1 <= Len(s) /\ Head(u) = a[N + 1] /\ u # <<>>
        BY <1>1, <1>2, <1>8, <1>9, <1>10, <1>17
    <2>2. LevelOf[a[N + 1]] <= MaxLevel /\ LevelOf[a[N + 1]] \in Nat
        BY <1>17, BytesAssumption DEF IsDigit
    <2>3. CASE Len(a) = N + 1
        <3>1. q = NotEnough
            BY <1>9, <1>14, <1>17, <2>1, <2>3
        <3> QED BY <2>1, <2>3, <3>1
    <2>4. CASE Len(a) > N + 1 /\ a[N + 2] # ">"
        <3>0. Len(a) >= N + 2 /\ Len(u) # 1 /\ u[2] # ">"
            <4>1. Len(a) >= N + 2
                BY <1>1, <1>2, <2>4
            <4>2. Len(u) # 1
                BY <1>1, <1>2, <1>9, <2>4
            <4>3. u[2] = a[N + 2]
                BY <1>8, <4>1
            <4> QED BY <2>4, <4>1, <4>2, <4>3
        <3>1. q = Unprefixed
            BY <1>14, <1>17, <2>1, <3>0
        <3>2. ~HasTag(s, i, Directive)
            BY <1>1, <1>2, <1>5, <1>8, <2>4
        <3> QED BY <3>1, <3>2, <1>11, <1>13
    <2>5. CASE Len(a) > N + 1 /\ a[N + 2] = ">"
        <3>1. /\ Len(u) # 1 /\ u[2] = ">" /\ N + 2 <= n /\ s[i + N + 2] = ">"
              /\ i + N + 2 <= Len(s)
            BY <1>1, <1>2, <1>8, <1>9, <1>10, <2>5
        <3>2. HasTag(s, i, Directive)
            BY <1>5, <1>17, <2>1, <2>2, <3>1
        <3>3. CASE Len(a) = N + 2
            <4>1. q = NotEnough
                BY <1>9, <1>14, <1>17, <2>1, <3>1, <3>3
            <4> QED BY <1>10, <2>5, <3>3, <4>1
        <3>4. CASE Len(a) > N + 2 /\ a[N + 3] # Newline
            <4>1. q = Unprefixed
                BY <1>1, <1>2, <1>8, <1>9, <1>14, <1>17, <2>1, <3>1, <3>4
            <4>2. s[i + N + 3] # Newline /\ i + N + 3 <= Len(s)
                <5>1. Len(a) >= N + 3 /\ N + 3 <= n
                    BY <1>1, <1>2, <1>8, <3>4
                <5> QED BY <1>8, <3>4, <5>1
            <4> QED BY <4>1, <4>2, <1>11, <1>13
        <3>5. CASE Len(a) > N + 2 /\ a[N + 3] = Newline
            <4>1. Len(a) = N + 3 /\ Len(u) # 2 /\ u[3] = Newline
                BY <1>1, <1>2, <1>8, <1>9, <3>5
            <4>2. q = Directed(1 + N + 3, LevelOf[a[N + 1]])
                BY <1>14, <1>17, <2>1, <3>1, <4>1
            <4>3. i + N + 3 <= Len(s) => s[i + N + 3] = Newline
                BY <1>1, <1>2, <1>8, <3>5
            <4>4. IsDirective(s, i)
                BY <1>11, <3>2, <4>3
            <4>5. 1 + N + 3 = Len(a) + 1 /\ 1 + N + 3 \in Nat
                BY <1>2, <4>1
            <4>6. q = Directed(Len(a) + 1, LevelOf[s[i + N + 1]]) /\ q # NotEnough
                BY <1>13, <2>1, <2>2, <4>2, <4>5
            <4> QED BY <3>5, <4>1, <4>4, <4>6
        <3> QED BY <1>1, <1>2, <2>5, <3>3, <3>4, <3>5
    <2> QED BY <1>1, <1>2, <1>17, <2>3, <2>4, <2>5
<1> QED BY <1>1, <1>2, <1>15, <1>16, <1>17

LEMMA ParsesLevel ==
    ASSUME NEW s \in Seq(STRING), NEW i \in 1..Len(s), NEW n \in 0..Len(s) - i,
           NEW a, Follows(a, s, i, n), s[i] = "<", ~StartsWith(a, Directive)
    PROVE  LET q == IF StartsWith(Directive, a) THEN NotEnough ELSE ParseLevel(a, 1, FALSE)
           IN  /\ a # <<>> /\ a[Len(a)] = Newline => q # NotEnough
               /\ q # NotEnough =>
                    /\ ~IsDirective(s, i)
                    /\ q = IF HasTag(s, i, <<>>)
                           THEN Prefixed(3, LevelOf[s[i + 1]]) ELSE Unprefixed
                    /\ HasTag(s, i, <<>>) => Len(a) >= 2
<1> DEFINE N == Len(Directive)
           q == IF StartsWith(Directive, a) THEN NotEnough ELSE ParseLevel(a, 1, FALSE)
<1>1. /\ a \in Seq(STRING) /\ Len(a) \in {n, n + 1} /\ n \in Nat /\ Len(s) \in Nat
      /\ i \in Nat
      /\ \A k \in 1..Len(a) : a[k] # Newline \/ k < Len(a) =>
           k <= n /\ a[k] = s[i + k] /\ i + k <= Len(s)
      /\ \A k \in 1..Len(a) : k <= n => a[k] = s[i + k] /\ i + k <= Len(s)
      /\ \A k \in 1..Len(a) : k <= N + 3 /\ k > n => i + k > Len(s)
      /\ \A k \in 1..Len(a) : a[k] = Newline => k = Len(a)
    BY FollowsFacts
<1>2. /\ N \in Nat \ {0} /\ Directive \in Seq(STRING)
      /\ \A k \in 1..N : Directive[k] # Newline
      /\ ~IsDigit(Newline) /\ ~IsDigit(">") /\ Newline # ">"
    BY DirectiveFacts DEF Newline
<1>3. \A c : IsDigit(c) => LevelOf[c] \in Nat /\ MaxLevel \in Nat
    BY BytesAssumption DEF IsDigit
<1>4. HasTag(s, i, <<>>) <=>
        /\ i + 2 <= Len(s) /\ IsDigit(s[i + 1])
        /\ LevelOf[s[i + 1]] <= MaxLevel /\ s[i + 2] = ">"
    <2>1. <<>> \in Seq(STRING) /\ Len(<<>>) = 0 /\ \A k \in 1..0 : s[i + k] = <<>>[k]
        BY EmptySeq
    <2>2. HasTag(s, i, <<>>) <=>
            /\ i + Len(<<>>) + 2 <= Len(s) /\ s[i] = "<"
            /\ \A k \in 1..Len(<<>>) : s[i + k] = <<>>[k]
            /\ IsDigit(s[i + Len(<<>>) + 1]) /\ LevelOf[s[i + Len(<<>>) + 1]] <= MaxLevel
            /\ s[i + Len(<<>>) + 2] = ">"
        BY <2>1, TagFacts
    <2> QED BY <1>1, <2>1, <2>2
<1>5. CASE StartsWith(Directive, a)
    <2>1. q = NotEnough /\ Len(a) <= N /\ \A k \in 1..Len(a) : Directive[k] = a[k]
        BY <1>1, <1>2, <1>5, StartsWithFacts
    <2>2. a # <<>> => a[Len(a)] = Directive[Len(a)] /\ Len(a) \in 1..N
        BY <1>1, <1>2, <2>1
    <2> QED BY <1>2, <2>1, <2>2
<1>6. CASE ~StartsWith(Directive, a)
    <2> DEFINE At(k) ==
                 Len(a) >= k =>
                   /\ a[k] # Newline => k <= n
                   /\ k <= n => s[i + k] = a[k] /\ i + k <= Len(s)
                   /\ k > n => i + k > Len(s)
                   /\ a[k] = Newline => Len(a) = k
    <2>1. ASSUME NEW k \in 1..N + 1
          PROVE  At(k)
        BY <1>1, <1>2
    <2>2. At(1) /\ At(2)
        <3>1. 1 \in 1..N + 1 /\ 2 \in 1..N + 1
            BY <1>2
        <3> HIDE DEF At
        <3> QED BY <2>1, <3>1
    <2>3. ~HasTag(s, i, Directive)
        <3>1. SUFFICES ASSUME HasTag(s, i, Directive) PROVE FALSE
            OBVIOUS
        <3>2. i + N + 2 <= Len(s) /\ \A k \in 1..N : s[i + k] = Directive[k]
            BY <1>2, <3>1, TagFacts
        <3>3. ASSUME NEW k \in 1..N, k <= Len(a) PROVE a[k] = Directive[k]
            <4>1. k <= n
                BY <1>1, <1>2, <2>1, <3>2, <3>3
            <4> QED BY <1>1, <1>2, <3>2, <3>3, <4>1
        <3>4. CASE Len(a) <= N
            <4>1. StartsWith(Directive, a)
                BY <1>1, <1>2, <3>3, <3>4, StartsWithFacts
            <4> QED BY <1>6, <4>1
        <3>5. CASE Len(a) >= N
            <4>1. StartsWith(a, Directive)
                BY <1>1, <1>2, <3>3, <3>5, StartsWithFacts
            <4> QED BY <4>1
        <3> QED BY <1>1, <1>2, <3>4, <3>5
    <2>4. ~IsDirective(s, i)
        BY <2>3 DEF IsDirective
    <2>5. a # <<>> /\ Len(a) \in Nat /\ Len(a) >= 1 /\ Head(a) = a[1]
        <3>1. StartsWith(Directive, <<>>)
            <4>1. <<>> \in Seq(STRING) /\ Len(<<>>) = 0 /\ \A k \in 1..0 : FALSE
                BY EmptySeq
            <4>2. StartsWith(Directive, <<>>) <=>
                    Len(<<>>) <= Len(Directive) /\ \A k \in 1..Len(<<>>) : Directive[k] = <<>>[k]
                BY <1>2, <4>1, StartsWithFacts
            <4> QED BY <1>2, <4>1, <4>2
        <3> QED BY <1>1, <1>6, <3>1
    <2> SUFFICES /\ a # <<>> /\ a[Len(a)] = Newline => q # NotEnough
                 /\ q # NotEnough =>
                      /\ ~IsDirective(s, i)
                      /\ q = IF HasTag(s, i, <<>>)
                             THEN Prefixed(3, LevelOf[s[i + 1]]) ELSE Unprefixed
                      /\ HasTag(s, i, <<>>) => Len(a) >= 2
        OBVIOUS
    <2> HIDE DEF q
    <2>6. q = IF ~IsDigit(Head(a)) \/ LevelOf[Head(a)] > MaxLevel THEN Unprefixed
              ELSE IF Len(a) = 1 THEN NotEnough
              ELSE IF a[2] # ">" THEN Unprefixed
              ELSE Prefixed(3, LevelOf[Head(a)])
        BY <1>6, <2>5 DEF q, ParseLevel
    <2>7. Unprefixed # NotEnough /\ \A l : Prefixed(3, l) # NotEnough
        BY DEF Unprefixed, NotEnough, Prefixed
    <2>8. CASE ~IsDigit(a[1]) \/ LevelOf[a[1]] > MaxLevel
        <3>1. q = Unprefixed
            BY <2>5, <2>6, <2>8
        <3>2. ~HasTag(s, i, <<>>)
            BY <1>1, <1>3, <1>4, <2>2, <2>5, <2>8
        <3> QED BY <2>4, <2>7, <3>1, <3>2
    <2>9. CASE IsDigit(a[1]) /\ ~(LevelOf[a[1]] > MaxLevel)
        <3>1. s[i + 1] = a[1] /\ LevelOf[a[1]] <= MaxLevel /\ a[1] # Newline
            BY <1>1, <1>2, <1>3, <2>2, <2>5, <2>9
        <3>2. CASE Len(a) = 1
            <4>1. q = NotEnough
                BY <2>5, <2>6, <2>9, <3>2
            <4> QED BY <3>1, <3>2, <4>1
        <3>3. CASE Len(a) > 1 /\ a[2] # ">"
            <4>1. q = Unprefixed
                BY <1>1, <2>5, <2>6, <2>9, <3>3
            <4>2. Len(a) >= 2
                BY <1>1, <3>3
            <4>3. ~HasTag(s, i, <<>>)
                BY <1>1, <1>4, <2>2, <3>3, <4>2
            <4> QED BY <2>4, <2>7, <4>1, <4>3
        <3>4. CASE Len(a) > 1 /\ a[2] = ">"
            <4>1. q = Prefixed(3, LevelOf[s[i + 1]]) /\ q # NotEnough
                BY <1>1, <2>5, <2>6, <2>7, <2>9, <3>1, <3>4
            <4>2. Len(a) >= 2
                BY <1>1, <3>4
            <4>3. HasTag(s, i, <<>>)
                BY <1>1, <1>2, <1>4, <2>2, <2>9, <3>1, <3>4, <4>2
            <4> QED BY <2>4, <4>1, <4>2, <4>3
        <3>5. Len(a) = 1 \/ Len(a) > 1
            <4>1. \A x \in Nat : x >= 1 => x = 1 \/ x > 1
                OBVIOUS
            <4> QED BY <2>5, <4>1
        <3> QED BY <3>2, <3>3, <3>4, <3>5
    <2> QED BY <2>8, <2>9
<1> QED BY <1>5, <1>6

\* n bytes of s from i on, and perhaps a newline that has been put after them.
IsPiece(t, s, i, n) ==
    /\ t \in Seq(STRING) /\ \A k \in 1..n : t[k] = s[i + k - 1]
    /\ \A k \in 1..Len(t) - 1 : t[k] # Newline
    /\ \/ Len(t) = n
       \/ /\ Len(t) = n + 1 /\ t[n + 1] = Newline
          /\ n = BufSize \/ i + n - 1 = Len(s)

\* What is said of the beginning of a line, or of a line, is so.
LEMMA ParsesPrefix ==
    ASSUME NEW s \in Seq(STRING), NEW i \in 1..Len(s), NEW n \in 1..Len(s) - i + 1,
           NEW t, IsPiece(t, s, i, n), parse
    PROVE  LET p == ParseLevelPrefix(t)
           IN  /\ t[Len(t)] = Newline => p # NotEnough
               /\ p # NotEnough =>
                    p = IF IsDirective(s, i)
                        THEN Directed(Len(t), LevelOf[s[i + Len(Directive) + 1]])
                        ELSE IF HasTag(s, i, <<>>)
                        THEN Prefixed(3, LevelOf[s[i + 1]]) ELSE Unprefixed
               /\ p # NotEnough /\ IsDirective(s, i) =>
                    Len(t) = Len(Directive) + 4 /\ t[Len(t)] = Newline
               /\ p # NotEnough /\ HasTag(s, i, <<>>) => Len(t) >= 3
<1> DEFINE N == Len(Directive)
           a == Tail(t)
           p == ParseLevelPrefix(t)
<1>1. /\ t \in Seq(STRING) /\ n \in Nat /\ n >= 1 /\ Len(t) \in {n, n + 1} /\ t # <<>>
      /\ Head(t) = t[1] /\ t[1] = s[i] /\ i \in Nat /\ Len(s) \in Nat
    BY DEF IsPiece
<1>2. /\ a \in Seq(STRING) /\ Len(a) = Len(t) - 1
      /\ \A k \in 1..Len(t) - 1 : a[k] = t[k + 1]
    BY <1>1, HeadTailProperties
<1> HIDE DEF a
<1>3. Follows(a, s, i, n - 1)
    <2>1. ASSUME NEW k \in 1..n - 1
          PROVE  a[k] = s[i + k]
        <3>1. k + 1 \in 1..n /\ i + (k + 1) - 1 = i + k /\ k \in 1..Len(t) - 1
            BY <1>1
        <3> QED BY <1>2, <3>1 DEF IsPiece
    <2>2. ASSUME NEW k \in 1..Len(a) - 1
          PROVE  a[k] # Newline
        <3>1. k + 1 \in 1..Len(t) - 1 /\ k \in 1..Len(t) - 1
            BY <1>1, <1>2
        <3> QED BY <1>2, <3>1 DEF IsPiece
    <2>3. \/ Len(a) = n - 1
          \/ /\ Len(a) = n /\ a[n] = Newline
             /\ n = BufSize \/ i + n - 1 = Len(s)
        BY <1>1, <1>2 DEF IsPiece
    <2> QED BY <1>1, <1>2, <2>1, <2>2, <2>3, DirectiveFacts DEF Follows
<1>4. n - 1 \in 0..Len(s) - i
    BY <1>1
<1>5. a # <<>> => a[Len(a)] = t[Len(t)]
    BY <1>1, <1>2
<1>6. a = <<>> => Len(t) = 1
    BY <1>1, <1>2
<1>7. p = IF t[1] # "<" THEN Unprefixed
          ELSE IF StartsWith(a, Directive) THEN ParseLevel(Drop(a, N), 1 + N, TRUE)
          ELSE IF StartsWith(Directive, a) THEN NotEnough
          ELSE ParseLevel(a, 1, FALSE)
    BY <1>1 DEF ParseLevelPrefix, a
<1> HIDE DEF p
<1>8. CASE t[1] # "<"
    <2>1. p = Unprefixed /\ Unprefixed # NotEnough
        BY <1>7, <1>8 DEF Unprefixed, NotEnough
    <2>2. \A d : ~HasTag(s, i, d)
        BY <1>1, <1>8 DEF HasTag
    <2> QED BY <2>1, <2>2 DEF IsDirective, p
<1>9. CASE t[1] = "<" /\ StartsWith(a, Directive)
    <2> DEFINE q == ParseLevel(Drop(a, N), 1 + N, TRUE)
    <2>1. p = q
        BY <1>7, <1>9
    <2>2. /\ a # <<>> /\ (a[Len(a)] = Newline => q # NotEnough)
          /\ ~HasTag(s, i, <<>>)
          /\ q # NotEnough =>
               q = IF IsDirective(s, i)
                   THEN Directed(Len(a) + 1, LevelOf[s[i + N + 1]]) ELSE Unprefixed
          /\ q # NotEnough /\ IsDirective(s, i) =>
                    Len(a) = N + 3 /\ a[Len(a)] = Newline
        BY <1>1, <1>3, <1>4, <1>9, ParsesDirective
    <2>3. Len(a) + 1 = Len(t) /\ (Len(a) = N + 3 => Len(t) = N + 4)
        BY <1>1, <1>2, DirectiveFacts
    <2> HIDE DEF q
    <2> QED BY <1>5, <2>1, <2>2, <2>3 DEF p
<1>10. CASE t[1] = "<" /\ ~StartsWith(a, Directive)
    <2> DEFINE q == IF StartsWith(Directive, a) THEN NotEnough ELSE ParseLevel(a, 1, FALSE)
    <2>1. p = q
        BY <1>7, <1>10
    <2>2. /\ a # <<>> /\ a[Len(a)] = Newline => q # NotEnough
          /\ q # NotEnough =>
               /\ ~IsDirective(s, i)
               /\ q = IF HasTag(s, i, <<>>)
                      THEN Prefixed(3, LevelOf[s[i + 1]]) ELSE Unprefixed
               /\ HasTag(s, i, <<>>) => Len(a) >= 2
        BY <1>1, <1>3, <1>4, <1>10, ParsesLevel
    <2>3. /\ a = <<>> => t[Len(t)] # Newline
          /\ Len(a) >= 2 => Len(t) >= 3
        BY <1>1, <1>2, <1>6, <1>10 DEF Newline
    <2> HIDE DEF q
    <2> QED BY <1>5, <2>1, <2>2, <2>3 DEF p
<1> QED BY <1>8, <1>9, <1>10

-----------------------------------------------------------------------------
(* The inductive invariant: the lines and bytes so far are those of what    *)
(* has been taken out of the buffer, and the variables say the truth about  *)
(* the line that begins or goes on there.                                  *)

Consumed == Len(input) - Len(rest) - Len(buf)
Line     == LineOf(input, Consumed + 1)

BufferOK ==
    /\ input \in Seq(STRING) /\ rest \in Seq(STRING) /\ buf \in Seq(STRING)
    /\ Consumed \in Nat
    /\ \A i \in 1..Len(buf) : buf[i] = input[Consumed + i]
    /\ \A i \in 1..Len(rest) : rest[i] = input[Consumed + Len(buf) + i]
    /\ \A i \in 1..processed : buf[i] # Newline
    /\ eof => rest = <<>>
    /\ loop = "read" => ~eof
    /\ loop = "done" => eof /\ buf = <<>>

LineOK ==
    Consumed < Len(input) =>
        /\ Line \in Begins(input) /\ Line <= Consumed + 1
        /\ \A i \in Line..Consumed : input[i] # Newline
        /\ (Consumed + 1 - Line) % BufSize = 0
        /\ Line <= Consumed => prefix = 0
        /\ prefix >= 0 => Line \notin Directives(input) /\ level = LineLevel(input, Line)
        /\ prefix >= 0 /\ Line = Consumed + 1 =>
             prefix = PrefixSize(input, Line) /\ prefix <= processed /\ processed > 0

DirectiveOK ==
    /\ parsing \in BOOLEAN
    /\ parse => /\ parsing /\ default = DefaultLevel
                /\ \A d \in Begins(input) : IsDirective(input, d) => d > Consumed
    /\ ~parse /\ parsing => \E d \in Directives(input) :
                  d <= Consumed /\ default = LevelOf[input[d + Len(Directive) + 1]]
    /\ ~parsing => default = DefaultLevel

DoneEnds  == {e \in Ends(input) : e <= Consumed}
DoneBytes ==
    {2 * i : i \in {k \in Kept(input) : k <= Consumed + processed}} \cup
    {2 * i + 1 : i \in {e \in DoneEnds : input[e] # Newline}}

EntryAt == [e \in Ends(input) |-> Entry(input, e)]
ByteAt  == [x \in Bytes(input) |-> Byte(input, x)]

LinesOK ==
    /\ lines \in Seq([level : 0..MaxLevel, text : Seq(STRING)])
    /\ InOrder(lines, DoneEnds, EntryAt)
ShownOK ==
    /\ shown \in Seq([level : 0..MaxLevel, byte : STRING])
    /\ InOrder(shown, DoneBytes, ByteAt)

LinesIInv ==
    LinesTypeOK /\ BufferOK /\ LineOK /\ DirectiveOK /\ LinesOK /\ ShownOK

-----------------------------------------------------------------------------
\* The reference depends on the input and the option only.
LEMMA SameReference ==
    ASSUME input' = input, parsing' = parsing
    PROVE  /\ Directives(input)' = Directives(input) /\ Ends(input)' = Ends(input)
           /\ Kept(input)' = Kept(input) /\ Bytes(input)' = Bytes(input)
           /\ \A i : PrefixSize(input, i)' = PrefixSize(input, i)
           /\ \A i : LineLevel(input, i)' = LineLevel(input, i)
           /\ EntryAt' = EntryAt /\ ByteAt' = ByteAt
<1>1. Directives(input)' = Directives(input)
    BY DEF Directives
<1>2. \A i : Before(input, i)' = Before(input, i)
    BY <1>1 DEF Before
<1>3. \A i : PrefixSize(input, i)' = PrefixSize(input, i)
    BY <1>2 DEF PrefixSize
<1>4. \A i : LineLevel(input, i)' = LineLevel(input, i)
    BY <1>1, <1>2, <1>3 DEF LineLevel
<1>5. Ends(input)' = Ends(input) /\ Kept(input)' = Kept(input)
    BY <1>1, <1>3 DEF Ends, Kept
<1>6. Bytes(input)' = Bytes(input)
    BY <1>5 DEF Bytes
<1>7. \A e : Entry(input, e)' = Entry(input, e) /\ Byte(input, e)' = Byte(input, e)
    BY <1>3, <1>4 DEF Entry, Byte
<1>8. EntryAt' = EntryAt /\ ByteAt' = ByteAt
    BY <1>5, <1>6, <1>7 DEF EntryAt, ByteAt
<1> QED BY <1>1, <1>3, <1>4, <1>5, <1>6, <1>8

\* Where the buffer is in the input.
LEMMA BufferFacts ==
    ASSUME BufferOK
    PROVE  /\ Consumed \in Nat /\ Len(buf) \in Nat /\ Len(rest) \in Nat /\ Len(input) \in Nat
           /\ Len(input) = Consumed + Len(buf) + Len(rest)
           /\ buf # <<>> => Consumed < Len(input)
           /\ buf = <<>> <=> Len(buf) = 0
           /\ rest = <<>> <=> Len(rest) = 0
BY DEF BufferOK, Consumed

LEMMA DoneFacts ==
    ASSUME BufferOK, processed \in 0..Len(buf)
    PROVE  /\ DoneEnds \in SUBSET Nat /\ IsFiniteSet(DoneEnds)
           /\ \A e \in DoneEnds : e <= Consumed
           /\ DoneBytes \in SUBSET Nat /\ IsFiniteSet(DoneBytes)
           /\ \A x \in DoneBytes : x < 2 * (Consumed + processed + 1)
<1>1. /\ Consumed \in Nat /\ Len(buf) \in Nat /\ Len(rest) \in Nat /\ Len(input) \in Nat
      /\ Len(input) = Consumed + Len(buf) + Len(rest)
    BY BufferFacts
<1>2. DoneEnds \in SUBSET Nat /\ \A e \in DoneEnds : e <= Consumed
    BY <1>1 DEF DoneEnds, Ends
<1>3. DoneBytes \in SUBSET Nat /\ \A x \in DoneBytes : x < 2 * (Consumed + processed + 1)
    <2>1. Kept(input) \in SUBSET Nat
        BY <1>1 DEF Kept
    <2> QED BY <1>1, <1>2, <2>1 DEF DoneBytes
<1>4. IsFiniteSet(DoneEnds)
    BY <1>1, <1>2, FS_BoundedSetOfNaturals
<1>5. 2 * (Consumed + processed + 1) \in Nat
    BY <1>1
<1>6. IsFiniteSet(DoneBytes)
    BY <1>3, <1>5, FS_BoundedSetOfNaturals
<1> QED BY <1>2, <1>3, <1>4, <1>6

\* What is known of a line that begins at the buffer.
LEMMA DirectiveKnown ==
    ASSUME BufferOK, DirectiveOK, NEW i \in Begins(input), i = Consumed + 1
    PROVE  /\ i \in Directives(input) <=> parse /\ IsDirective(input, i)
           /\ PrefixSize(input, i) = IF parse /\ HasTag(input, i, <<>>) THEN 3 ELSE 0
           /\ LineLevel(input, i) = IF parse /\ HasTag(input, i, <<>>)
                                    THEN LevelOf[input[i + 1]] ELSE default
<1>1. Consumed \in Nat /\ i \in Nat
    BY BufferFacts
<1>2. \A d \in Directives(input) : d \in Begins(input) /\ IsDirective(input, d) /\ d \in Nat
    BY DEF Directives, Begins
<1>3. CASE parse
    <2>1. parsing /\ default = DefaultLevel
        BY <1>3 DEF DirectiveOK
    <2>2. \A d \in Begins(input) : IsDirective(input, d) => i <= d
        BY <1>1, <1>3 DEF DirectiveOK, Begins
    <2>3. i \in Directives(input) <=> IsDirective(input, i)
        BY <2>1, <2>2 DEF Directives
    <2>4. Before(input, i) = {}
        BY <1>1, <1>2, <2>2 DEF Before
    <2> QED BY <1>3, <2>1, <2>3, <2>4 DEF PrefixSize, LineLevel
<1>4. CASE ~parse /\ parsing
    <2>1. PICK d \in Directives(input) :
              d <= Consumed /\ default = LevelOf[input[d + Len(Directive) + 1]]
        BY <1>4 DEF DirectiveOK
    <2>2. \A e \in Directives(input) : e = d
        BY <2>1, OneDirective DEF BufferOK
    <2>3. d \in Before(input, i) /\ i \notin Directives(input)
        BY <1>1, <1>2, <2>1, <2>2 DEF Before
    <2>4. (CHOOSE e \in Directives(input) : TRUE) = d
        BY <2>1, <2>2
    <2>5. PrefixSize(input, i) = 0 /\ Before(input, i) # {}
        BY <2>3 DEF PrefixSize
    <2>6. LineLevel(input, i) = LevelOf[input[d + Len(Directive) + 1]]
        <3>1. ~(PrefixSize(input, i) > 0)
            BY <2>5
        <3>2. LineLevel(input, i) =
                LevelOf[input[(CHOOSE e \in Directives(input) : TRUE) + Len(Directive) + 1]]
            BY <2>5, <3>1, Zenon DEF LineLevel
        <3> QED BY <2>4, <3>2
    <2> QED BY <1>4, <2>1, <2>3, <2>5, <2>6
<1>5. CASE ~parse /\ ~parsing
    <2>1. Directives(input) = {} /\ Before(input, i) = {}
        BY <1>5 DEF Directives, Before
    <2>2. PrefixSize(input, i) = 0 /\ default = DefaultLevel
        BY <1>5 DEF PrefixSize, DirectiveOK
    <2> QED BY <1>5, <2>1, <2>2 DEF LineLevel
<1> QED BY <1>3, <1>4, <1>5

-----------------------------------------------------------------------------
LEMMA LinesInit_IInv == LinesInit => LinesIInv
<1> SUFFICES ASSUME LinesInit PROVE LinesIInv
    OBVIOUS
<1>1. input \in Seq(STRING) /\ rest = input /\ buf = <<>> /\ Len(buf) = 0
    BY BytesAssumption DEF LinesInit
<1>2. Consumed = 0 /\ Len(input) \in Nat
    <2>1. Len(input) \in Nat
        BY <1>1
    <2>2. Consumed = Len(input) - Len(input) - 0
        BY <1>1 DEF Consumed
    <2> QED BY <2>1, <2>2
<1>3. LinesTypeOK
    <2>1. /\ parse \in BOOLEAN /\ default = DefaultLevel /\ level = DefaultLevel
          /\ processed = 0 /\ prefix = -1 /\ loop = "read" /\ eof = FALSE
        BY DEF LinesInit
    <2>2. DefaultLevel \in 0..MaxLevel /\ BufSize \in Nat /\ BufSize > 0
        BY BytesAssumption, DirectiveFacts
    <2>3. Len(buf) <= BufSize /\ processed \in 0..Len(buf) /\ prefix \in -1 .. Len(buf)
          /\ Len(buf) < BufSize /\ ~(processed > 0)
        BY <1>1, <2>1, <2>2
    <2>4. /\ default \in 0..MaxLevel /\ level \in 0..MaxLevel /\ eof \in BOOLEAN
          /\ loop \in {"read", "split", "done"}
        BY <2>1, <2>2
    <2> QED BY <2>1, <2>3, <2>4, Zenon DEF LinesTypeOK
<1>4. BufferOK
    BY <1>1, <1>2 DEF LinesInit, BufferOK
<1>5. LineOK
    <2> SUFFICES ASSUME 0 < Len(input)
                 PROVE  LineOK
        BY <1>2 DEF LineOK
    <2>1. 1 \in Begins(input)
        BY <1>2 DEF Begins
    <2>2. Line = 1
        BY <1>1, <1>2, <2>1, LineOfIs DEF Line
    <2>3. (Consumed + 1 - Line) % BufSize = 0
        BY <1>2, <2>2, DirectiveFacts
    <2>4. prefix = -1
        BY DEF LinesInit
    <2> QED BY <1>2, <2>1, <2>2, <2>3, <2>4 DEF LineOK
<1>6. DirectiveOK
    <2>1. \A d \in Begins(input) : d > Consumed
        BY <1>2 DEF Begins
    <2> QED BY <1>2, <2>1 DEF LinesInit, DirectiveOK
<1>7. DoneEnds = {} /\ DoneBytes = {}
    <2>1. DoneEnds = {}
        BY <1>2 DEF DoneEnds, Ends
    <2>2. processed = 0
        BY DEF LinesInit
    <2> QED BY <1>2, <2>1, <2>2 DEF DoneBytes, Kept
<1>8. LinesOK /\ ShownOK
    BY <1>7, FS_EmptySet DEF LinesInit, LinesOK, ShownOK, InOrder
<1> QED BY <1>3, <1>4, <1>5, <1>6, <1>8 DEF LinesIInv

\* read() puts bytes of the rest behind those of the buffer.
LEMMA Read_Buffer ==
    ASSUME LinesIInv, Read
    PROVE  /\ BufferOK' /\ Consumed' = Consumed /\ LinesTypeOK'
<1>1. PICK n \in 0..Len(rest) :
        /\ n <= BufSize - Len(buf)
        /\ n = 0 <=> rest = <<>>
        /\ buf' = buf \o SubSeq(rest, 1, n)
        /\ rest' = Drop(rest, n)
        /\ eof' = (n = 0)
    BY DEF Read
<1>2. /\ Consumed \in Nat /\ Len(buf) \in Nat /\ Len(rest) \in Nat /\ Len(input) \in Nat
      /\ Len(input) = Consumed + Len(buf) + Len(rest)
    BY BufferFacts DEF LinesIInv
<1>3. /\ input \in Seq(STRING) /\ rest \in Seq(STRING) /\ buf \in Seq(STRING)
      /\ \A i \in 1..Len(buf) : buf[i] = input[Consumed + i]
      /\ \A i \in 1..Len(rest) : rest[i] = input[Consumed + Len(buf) + i]
      /\ \A i \in 1..processed : buf[i] # Newline
    BY DEF LinesIInv, BufferOK
<1>4. /\ SubSeq(rest, 1, n) \in Seq(STRING) /\ Len(SubSeq(rest, 1, n)) = n
      /\ \A i \in 1..n : SubSeq(rest, 1, n)[i] = rest[i]
    <2>1. n \in Nat /\ \A i \in 1..n : rest[i] \in STRING
        BY <1>2, <1>3, ElementOfSeq
    <2>2. /\ SubSeq(rest, 1, n) \in Seq(STRING)
          /\ Len(SubSeq(rest, 1, n)) = IF 1 <= n THEN n - 1 + 1 ELSE 0
          /\ \A i \in 1..n - 1 + 1 : SubSeq(rest, 1, n)[i] = rest[1 + i - 1]
        BY <2>1, SubSeqProperties
    <2> QED BY <2>1, <2>2
<1>5. /\ buf' \in Seq(STRING) /\ Len(buf') = Len(buf) + n
      /\ \A i \in 1..Len(buf) + n :
           buf'[i] = IF i <= Len(buf) THEN buf[i] ELSE rest[i - Len(buf)]
    <2>1. /\ buf' \in Seq(STRING) /\ Len(buf') = Len(buf) + n
          /\ \A i \in 1..Len(buf) + n :
               buf'[i] = IF i <= Len(buf) THEN buf[i] ELSE SubSeq(rest, 1, n)[i - Len(buf)]
        BY <1>1, <1>3, <1>4, ConcatProperties
    <2> QED BY <1>2, <1>4, <2>1
<1>6. /\ rest' \in Seq(STRING) /\ Len(rest') = Len(rest) - n
      /\ \A i \in 1..Len(rest) - n : rest'[i] = rest[n + i]
    <2>1. /\ Drop(rest, n) \in Seq(STRING) /\ Len(Drop(rest, n)) = Len(rest) - n
          /\ \A i \in 1..Len(rest) - n : Drop(rest, n)[i] = rest[n + i]
        <3>1. rest \in Seq(STRING)
            BY <1>3
        <3> QED BY <3>1, DropFacts
    <2> QED BY <1>1, <2>1
<1>7. input' = input /\ processed' = processed /\ loop' = "split"
    BY DEF Read, lineVars
<1>8. Consumed' = Consumed
    BY <1>2, <1>5, <1>6, <1>7 DEF Consumed
<1>9. processed \in 0..Len(buf) /\ prefix \in -1 .. Len(buf)
    BY DEF LinesIInv, LinesTypeOK
<1>10. BufferOK'
    <2>1. \A i \in 1..Len(buf') : buf'[i] = input'[Consumed' + i]
        <3>1. ASSUME NEW i \in 1..Len(buf) + n PROVE buf'[i] = input[Consumed + i]
            <4>1. CASE i <= Len(buf)
                <5>1. i \in 1..Len(buf) /\ buf'[i] = buf[i]
                    BY <1>2, <1>5, <4>1
                <5> QED BY <1>3, <5>1
            <4>2. CASE i > Len(buf)
                <5>1. i - Len(buf) \in 1..Len(rest) /\
                      Consumed + Len(buf) + (i - Len(buf)) = Consumed + i
                    BY <1>2, <4>2
                <5>2. buf'[i] = rest[i - Len(buf)]
                    BY <1>2, <1>5, <4>2
                <5> QED BY <1>3, <5>1, <5>2
            <4> QED BY <1>2, <4>1, <4>2
        <3> QED BY <1>5, <1>7, <1>8, <3>1
    <2>2. \A i \in 1..Len(rest') : rest'[i] = input'[Consumed' + Len(buf') + i]
        <3>1. ASSUME NEW i \in 1..Len(rest) - n
              PROVE  rest'[i] = input[Consumed + (Len(buf) + n) + i]
            <4>1. n + i \in 1..Len(rest) /\
                  Consumed + Len(buf) + (n + i) = Consumed + (Len(buf) + n) + i
                BY <1>2
            <4> QED BY <1>3, <1>6, <4>1
        <3> QED BY <1>5, <1>6, <1>7, <1>8, <3>1
    <2>3. \A i \in 1..processed' : buf'[i] # Newline
        BY <1>2, <1>3, <1>5, <1>7, <1>9
    <2>4. eof' => rest' = <<>>
        <3>1. eof' => Len(rest) = 0 /\ n = 0
            BY <1>1, <1>2
        <3>2. eof' => Len(rest') = 0
            BY <1>6, <3>1
        <3> QED BY <1>6, <3>2
    <2> QED BY <1>2, <1>3, <1>5, <1>6, <1>7, <1>8, <2>1, <2>2, <2>3, <2>4 DEF BufferOK
<1>11. LinesTypeOK'
    <2>1. /\ parse' = parse /\ default' = default /\ level' = level /\ prefix' = prefix
          /\ processed' = processed /\ loop' = "split" /\ eof' \in BOOLEAN
        BY <1>1 DEF Read, lineVars
    <2>2. /\ parse \in BOOLEAN /\ default \in 0..MaxLevel /\ level \in 0..MaxLevel
          /\ processed > 0 => prefix >= 0
        BY DEF LinesIInv, LinesTypeOK
    <2>3. Len(buf') <= BufSize /\ processed \in 0..Len(buf') /\ prefix \in -1 .. Len(buf')
        BY <1>1, <1>2, <1>5, <1>9, DirectiveFacts
    <2>4. /\ loop' \in {"read", "split", "done"} /\ loop' # "read"
        BY <2>1
    <2> QED BY <2>1, <2>2, <2>3, <2>4, Zenon DEF LinesTypeOK
<1> QED BY <1>8, <1>10, <1>11

LEMMA Read_IInv == LinesIInv /\ Read => LinesIInv'
<1> SUFFICES ASSUME LinesIInv, Read PROVE LinesIInv'
    OBVIOUS
<1>1. BufferOK' /\ Consumed' = Consumed /\ LinesTypeOK'
    BY Read_Buffer
<1>2. /\ input' = input /\ parsing' = parsing /\ parse' = parse /\ default' = default
      /\ processed' = processed /\ prefix' = prefix /\ level' = level
      /\ lines' = lines /\ shown' = shown
    BY DEF Read, lineVars
<1>3. /\ Directives(input)' = Directives(input) /\ Ends(input)' = Ends(input)
      /\ Kept(input)' = Kept(input) /\ Bytes(input)' = Bytes(input)
      /\ \A i : PrefixSize(input, i)' = PrefixSize(input, i)
      /\ \A i : LineLevel(input, i)' = LineLevel(input, i)
      /\ EntryAt' = EntryAt /\ ByteAt' = ByteAt
    BY <1>2, SameReference
<1>4. Line' = Line
    BY <1>1, <1>2 DEF Line
<1>5. LineOK'
    BY <1>1, <1>2, <1>3, <1>4 DEF LinesIInv, LineOK
<1>6. DirectiveOK'
    BY <1>1, <1>2, <1>3 DEF LinesIInv, DirectiveOK
<1>7. DoneEnds' = DoneEnds /\ DoneBytes' = DoneBytes
    BY <1>1, <1>2, <1>3 DEF DoneEnds, DoneBytes
<1>8. LinesOK' /\ ShownOK'
    BY <1>2, <1>3, <1>7 DEF LinesIInv, LinesOK, ShownOK
<1> QED BY <1>1, <1>5, <1>6, <1>8 DEF LinesIInv

LEMMA Stutter_IInv == LinesIInv /\ UNCHANGED linesVars => LinesIInv'
<1> SUFFICES ASSUME LinesIInv, UNCHANGED linesVars PROVE LinesIInv'
    OBVIOUS
<1>1. /\ input' = input /\ parsing' = parsing /\ parse' = parse /\ default' = default
      /\ processed' = processed /\ prefix' = prefix /\ level' = level /\ rest' = rest
      /\ buf' = buf /\ loop' = loop /\ eof' = eof /\ lines' = lines /\ shown' = shown
    BY DEF linesVars, lineVars
<1>2. /\ Directives(input)' = Directives(input) /\ Ends(input)' = Ends(input)
      /\ Kept(input)' = Kept(input) /\ Bytes(input)' = Bytes(input)
      /\ \A i : PrefixSize(input, i)' = PrefixSize(input, i)
      /\ \A i : LineLevel(input, i)' = LineLevel(input, i)
      /\ EntryAt' = EntryAt /\ ByteAt' = ByteAt
    BY <1>1, SameReference
<1>3. Consumed' = Consumed /\ Line' = Line
    BY <1>1 DEF Consumed, Line
<1>4. DoneEnds' = DoneEnds /\ DoneBytes' = DoneBytes
    BY <1>1, <1>2, <1>3 DEF DoneEnds, DoneBytes
<1>5. LinesTypeOK' /\ BufferOK' /\ LineOK' /\ DirectiveOK'
    BY <1>1, <1>2, <1>3 DEF LinesIInv, LinesTypeOK, BufferOK, LineOK, DirectiveOK
<1>6. LinesOK' /\ ShownOK'
    BY <1>1, <1>2, <1>4 DEF LinesIInv, LinesOK, ShownOK
<1> QED BY <1>5, <1>6 DEF LinesIInv

-----------------------------------------------------------------------------
(* The first n bytes of the buffer, if they are part of one line.          *)
OneLine(n) ==
    n \in 1..Len(buf) /\ n <= BufSize /\ \A k \in 1..n - 1 : buf[k] # Newline

LEMMA InLine ==
    ASSUME LinesIInv, NEW n, OneLine(n)
    PROVE  \A k \in 1..n :
             /\ Consumed + k \in 1..Len(input) /\ input[Consumed + k] = buf[k]
             /\ LineOf(input, Consumed + k) = Line /\ Column(input, Consumed + k) = k - 1
             /\ k < n => input[Consumed + k] # Newline
<1>1. /\ Consumed \in Nat /\ Len(buf) \in Nat /\ Len(rest) \in Nat /\ Len(input) \in Nat
      /\ Len(input) = Consumed + Len(buf) + Len(rest) /\ n \in Nat /\ n >= 1
      /\ Consumed < Len(input)
    BY BufferFacts DEF LinesIInv, OneLine
<1>2. /\ Line \in Begins(input) /\ Line <= Consumed + 1 /\ Line \in Nat
      /\ \A i \in Line..Consumed : input[i] # Newline
      /\ (Consumed + 1 - Line) % BufSize = 0
    BY <1>1 DEF LinesIInv, LineOK, Begins
<1>3. \A k \in 1..Len(buf) : buf[k] = input[Consumed + k]
    BY DEF LinesIInv, BufferOK
<1> SUFFICES ASSUME NEW k \in 1..n
             PROVE  /\ Consumed + k \in 1..Len(input) /\ input[Consumed + k] = buf[k]
                    /\ LineOf(input, Consumed + k) = Line
                    /\ Column(input, Consumed + k) = k - 1
                    /\ k < n => input[Consumed + k] # Newline
    OBVIOUS
<1>4. k \in 1..Len(buf) /\ Consumed + k \in 1..Len(input)
    BY <1>1 DEF OneLine
<1>5. input[Consumed + k] = buf[k] /\ (k < n => input[Consumed + k] # Newline)
    BY <1>1, <1>3, <1>4 DEF OneLine
<1>6. LineOf(input, Consumed + k) = Line
    <2>1. ASSUME NEW m \in Line..(Consumed + k) - 1
          PROVE  input[m] # Newline
        <3>1. CASE m <= Consumed
            BY <1>1, <1>2, <3>1
        <3>2. CASE m > Consumed
            <4>1. m - Consumed \in 1..n - 1 /\ Consumed + (m - Consumed) = m
                BY <1>1, <1>2, <3>2
            <4>2. m - Consumed \in 1..Len(buf)
                BY <1>1, <1>4, <4>1
            <4> QED BY <1>3, <4>1, <4>2 DEF OneLine
        <3> QED BY <1>1, <1>2, <3>1, <3>2
    <2> DEFINE i == Consumed + k
    <2>2. Line <= i /\ i \in Nat /\ input \in Seq(STRING)
        BY <1>1, <1>2 DEF LinesIInv, BufferOK
    <2>3. \A m \in Line..i - 1 : input[m] # Newline
        BY <2>1, Zenon
    <2> HIDE DEF i
    <2>4. LineOf(input, i) = Line
        BY <1>2, <2>2, <2>3, LineOfIs
    <2> QED BY <2>4 DEF i
<1>7. Column(input, Consumed + k) = k - 1
    <2>1. Consumed + 1 - Line \in Nat /\ k - 1 \in 0..BufSize - 1 /\ BufSize \in Nat \ {0}
        BY <1>1, <1>2, DirectiveFacts DEF OneLine
    <2>2. ((Consumed + 1 - Line) + (k - 1)) % BufSize = k - 1
        BY <1>2, <2>1, Modulo
    <2>3. (Consumed + k) - Line = (Consumed + 1 - Line) + (k - 1)
        BY <1>1, <1>2
    <2>4. Column(input, Consumed + k) = ((Consumed + k) - Line) % BufSize
        BY <1>6, Zenon DEF Column
    <2>5. ((Consumed + k) - Line) % BufSize = ((Consumed + 1 - Line) + (k - 1)) % BufSize
        BY <2>3
    <2> QED BY <2>2, <2>4, <2>5
<1> QED BY <1>4, <1>5, <1>6, <1>7

\* A line that goes on has no prefix in the buffer.
LEMMA NoPrefixLater ==
    ASSUME LinesIInv, Consumed < Len(input), Line <= Consumed
    PROVE  Line + PrefixSize(input, Line) <= Consumed + 1
<1>1. Line \in Nat /\ Consumed \in Nat /\ (Consumed + 1 - Line) % BufSize = 0
    BY BufferFacts DEF LinesIInv, LineOK, Begins
<1>2. BufSize \in Nat \ {0} /\ BufSize >= 3
    BY DirectiveFacts
<1>3. PrefixSize(input, Line) \in {0, 3}
    BY DEF PrefixSize
<1>4. CASE Consumed + 1 - Line >= BufSize
    BY <1>1, <1>2, <1>3, <1>4
<1>5. CASE Consumed + 1 - Line < BufSize
    <2> DEFINE x == Consumed + 1 - Line
    <2>1. x \in 0..BufSize - 1 /\ x >= 1
        BY <1>1, <1>2, <1>5
    <2>2. 0 \in Nat /\ 0 % BufSize = 0
        BY <1>2
    <2> HIDE DEF x
    <2>3. (0 + x) % BufSize = x
        BY <1>2, <2>1, <2>2, Modulo
    <2>4. 0 + x = x
        BY <2>1
    <2>5. x % BufSize = 0
        BY <1>1 DEF x
    <2> QED BY <2>1, <2>3, <2>4, <2>5
<1> QED BY <1>1, <1>2, <1>4, <1>5

\* What a terminal gets of the line: the bytes after the first p of the buffer.
LEMMA ShowInOrder ==
    ASSUME LinesIInv, NEW n, OneLine(n), NEW p \in processed..n,
           \A k \in processed + 1..n : Consumed + k \in Kept(input) <=> k > p,
           LineLevel(input, Line) \in 0..MaxLevel,
           NEW r \in Seq(STRING), Len(r) = n - p, \A k \in 1..n - p : r[k] = buf[p + k]
    PROVE  LET t    == Tagged(LineLevel(input, Line), r)
               more == Evens(Consumed + p + 1, n - p)
           IN  /\ shown \o t \in Seq([level : 0..MaxLevel, byte : STRING])
               /\ InOrder(shown \o t, DoneBytes \cup more, ByteAt)
               /\ {2 * i : i \in {k \in Kept(input) : k <= Consumed + n}} =
                     {2 * i : i \in {k \in Kept(input) : k <= Consumed + processed}} \cup more
<1> DEFINE V == [level : 0..MaxLevel, byte : STRING]
           l == LineLevel(input, Line)
           t == Tagged(l, r)
           a == Consumed + p + 1
           more == Evens(a, n - p)
<1>1. /\ Consumed \in Nat /\ Len(buf) \in Nat /\ Len(input) \in Nat /\ n \in 1..Len(buf)
      /\ processed \in 0..Len(buf) /\ p \in Nat /\ n \in Nat /\ p <= n /\ processed <= p
      /\ n - p \in Nat /\ a \in Nat
    <2>1. /\ Consumed \in Nat /\ Len(buf) \in Nat /\ Len(input) \in Nat
        BY BufferFacts DEF LinesIInv
    <2>2. processed \in 0..Len(buf) /\ n \in 1..Len(buf)
        BY DEF LinesIInv, LinesTypeOK, OneLine
    <2> QED BY <2>1, <2>2
<1>2. \A k \in 1..n :
        /\ Consumed + k \in 1..Len(input) /\ input[Consumed + k] = buf[k]
        /\ LineOf(input, Consumed + k) = Line
    BY InLine
<1>3. /\ t \in Seq(V) /\ Len(t) = n - p
      /\ \A k \in 1..n - p : t[k] = [level |-> l, byte |-> buf[p + k]]
    <2>1. \A k \in 1..Len(r) : r[k] \in STRING
        BY ElementOfSeq
    <2>2. t = [k \in 1..Len(r) |-> [level |-> l, byte |-> r[k]]]
        BY DEF Tagged
    <2>3. \A k \in 1..Len(r) : [level |-> l, byte |-> r[k]] \in V
        BY <2>1
    <2> HIDE DEF V, l
    <2>4. t \in Seq(V) /\ Len(t) = Len(r)
        BY <1>1, <2>2, <2>3
    <2> QED BY <1>1, <2>2, <2>4
<1>4. ASSUME NEW k \in 1..n - p
      PROVE  t[k] = ByteAt[2 * (a + k - 1)]
    <2> DEFINE i == Consumed + (p + k)
    <2>1. a + k - 1 = i /\ p + k \in processed + 1..n /\ p + k > p /\ p + k \in 1..n
        BY <1>1
    <2>2. i \in Kept(input) /\ i \in Nat
        <3> DEFINE j == p + k
        <3>1. j \in processed + 1..n /\ j > p /\ Consumed + j \in Nat
            BY <1>1, <2>1
        <3> HIDE DEF j
        <3>2. Consumed + j \in Kept(input)
            BY <3>1
        <3> QED BY <3>1, <3>2 DEF j
    <2>3. 2 * i \in Bytes(input)
        BY <2>2 DEF Bytes
    <2>4. (2 * i) \div 2 = i /\ (2 * i) % 2 = 0
        BY <2>2
    <2>5. LineOf(input, i) = Line /\ input[i] = buf[p + k]
        BY <1>2, <2>1
    <2> HIDE DEF i
    <2>6. Byte(input, 2 * i) = [level |-> l, byte |-> buf[p + k]]
        BY <2>4, <2>5 DEF Byte
    <2>7. ByteAt[2 * i] = Byte(input, 2 * i)
        BY <2>3 DEF ByteAt
    <2> QED BY <1>3, <2>1, <2>6, <2>7
<1>5. /\ DoneBytes \in SUBSET Nat /\ IsFiniteSet(DoneBytes)
      /\ \A x \in DoneBytes : x < 2 * (Consumed + processed + 1)
    BY <1>1, DoneFacts DEF LinesIInv
<1>6. \A x \in DoneBytes : x < 2 * a
    BY <1>1, <1>5
<1>7. shown \in Seq(V) /\ InOrder(shown, DoneBytes, ByteAt)
    BY DEF LinesIInv, ShownOK
<1>8. shown \o t \in Seq(V)
    BY <1>3, <1>7, ConcatProperties
<1>9. InOrder(shown \o t, DoneBytes \cup more, ByteAt)
    <2> HIDE DEF V, t, a
    <2> QED BY <1>1, <1>3, <1>4, <1>5, <1>6, <1>7, ConcatInOrder
<1>10. {2 * i : i \in {k \in Kept(input) : k <= Consumed + n}} =
          {2 * i : i \in {k \in Kept(input) : k <= Consumed + processed}} \cup more
    <2>1. \A i \in Kept(input) : i \in Nat
        BY <1>1 DEF Kept
    <2>2. ASSUME NEW i \in Kept(input), i <= Consumed + n, ~(i <= Consumed + processed)
          PROVE  i \in a..a + (n - p) - 1
        <3>1. i - Consumed \in processed + 1..n /\ Consumed + (i - Consumed) = i
            BY <1>1, <2>1, <2>2
        <3>2. i - Consumed > p
            BY <2>2, <3>1
        <3> QED BY <1>1, <2>1, <2>2, <3>2
    <2>3. ASSUME NEW i \in a..a + (n - p) - 1
          PROVE  i \in Kept(input) /\ i <= Consumed + n
        <3> DEFINE k == i - Consumed
        <3>1. k \in processed + 1..n /\ Consumed + k = i /\ k > p /\ i <= Consumed + n
            BY <1>1
        <3> HIDE DEF k
        <3>2. Consumed + k \in Kept(input)
            BY <3>1
        <3> QED BY <3>1, <3>2
    <2>4. \A i \in Kept(input) : i <= Consumed + processed => i <= Consumed + n
        BY <1>1, <2>1
    <2>5. {k \in Kept(input) : k <= Consumed + n} =
             {k \in Kept(input) : k <= Consumed + processed} \cup (a..a + (n - p) - 1)
        BY <2>2, <2>3, <2>4
    <2> HIDE DEF a
    <2> QED BY <2>5 DEF Evens
<1> QED BY <1>8, <1>9, <1>10

\* The size of the prefix if it is in the buffer.
Size == IF Line = Consumed + 1 THEN PrefixSize(input, Line) ELSE 0

LEMMA KeptInLine ==
    ASSUME LinesIInv, NEW n, OneLine(n), NEW k \in 1..n
    PROVE  Consumed + k \in Kept(input) <=> Line \notin Directives(input) /\ k > Size
<1>1. /\ Consumed + k \in 1..Len(input) /\ LineOf(input, Consumed + k) = Line
    BY InLine
<1>2. /\ Consumed \in Nat /\ Len(buf) \in Nat /\ Consumed < Len(input) /\ k \in Nat
    BY BufferFacts DEF LinesIInv, OneLine
<1>3. Line \in Nat /\ Line <= Consumed + 1
    BY <1>2 DEF LinesIInv, LineOK, Begins
<1>4. Consumed + k \in Kept(input) <=>
        Line \notin Directives(input) /\ Consumed + k >= Line + PrefixSize(input, Line)
    BY <1>1 DEF Kept
<1>5. PrefixSize(input, Line) \in Nat
    BY DEF PrefixSize
<1>6. CASE Line = Consumed + 1
    BY <1>2, <1>3, <1>4, <1>5, <1>6 DEF Size
<1>7. CASE Line <= Consumed
    <2>1. Line + PrefixSize(input, Line) <= Consumed + 1 /\ Size = 0
        BY <1>2, <1>3, <1>7, NoPrefixLater DEF Size
    <2> QED BY <1>2, <1>3, <1>4, <1>5, <2>1
<1> QED BY <1>2, <1>3, <1>6, <1>7

\* What the code knows of the line, before or after it has parsed its prefix.
Parsed(t) ==
    IF prefix < 0 THEN ParseLevelPrefix(t)
    ELSE [size |-> prefix, level |-> level, parse |-> parse, default |-> default]

LEMMA KnownLine ==
    ASSUME LinesIInv, NEW n, OneLine(n), NEW t, IsPiece(t, input, Consumed + 1, n)
    PROVE  \/ prefix < 0 /\ Parsed(t) = NotEnough /\ t[Len(t)] # Newline
           \/ /\ Line \in Directives(input) /\ Line = Consumed + 1
              /\ prefix < 0 /\ processed = 0 /\ parse /\ HasTag(input, Line, Directive)
              /\ Len(t) = Len(Directive) + 4 /\ t[Len(t)] = Newline
              /\ Parsed(t) = Directed(Len(t), LevelOf[input[Line + Len(Directive) + 1]])
           \/ /\ Line \notin Directives(input) /\ LineLevel(input, Line) \in 0..MaxLevel
              /\ Parsed(t) = [size |-> Size, level |-> LineLevel(input, Line),
                              parse |-> parse, default |-> default]
              /\ prefix < 0 => processed = 0 /\ Size <= Len(t)
<1>1. /\ Consumed \in Nat /\ Consumed < Len(input) /\ Len(input) \in Nat
      /\ Len(buf) \in Nat /\ n \in 1..Len(buf)
      /\ Len(input) = Consumed + Len(buf) + Len(rest) /\ Len(rest) \in Nat
    BY BufferFacts DEF LinesIInv, OneLine
<1>2. /\ Line \in Begins(input) /\ Line <= Consumed + 1 /\ Line \in Nat
      /\ Line <= Consumed => prefix = 0
      /\ prefix >= 0 => Line \notin Directives(input) /\ level = LineLevel(input, Line)
      /\ prefix >= 0 /\ Line = Consumed + 1 => prefix = PrefixSize(input, Line)
    BY <1>1 DEF LinesIInv, LineOK, Begins
<1>3. /\ prefix \in Int /\ level \in 0..MaxLevel /\ default \in 0..MaxLevel
      /\ processed \in Nat /\ (processed > 0 => prefix >= 0) /\ parse \in BOOLEAN
    BY <1>1 DEF LinesIInv, LinesTypeOK
<1>4. CASE prefix >= 0
    <2>1. Parsed(t) = [size |-> prefix, level |-> level, parse |-> parse,
                       default |-> default]
        BY <1>3, <1>4 DEF Parsed
    <2>2. prefix = Size
        BY <1>1, <1>2, <1>4 DEF Size
    <2> QED BY <1>2, <1>3, <1>4, <2>1, <2>2
<1>5. CASE prefix < 0
    <2>1. Line = Consumed + 1 /\ processed = 0 /\ Parsed(t) = ParseLevelPrefix(t)
        BY <1>1, <1>2, <1>3, <1>5 DEF Parsed
    <2>2. Size = PrefixSize(input, Line)
        BY <2>1 DEF Size
    <2>3. /\ Line \in Directives(input) <=> parse /\ IsDirective(input, Line)
          /\ PrefixSize(input, Line) = IF parse /\ HasTag(input, Line, <<>>) THEN 3 ELSE 0
          /\ LineLevel(input, Line) = IF parse /\ HasTag(input, Line, <<>>)
                                      THEN LevelOf[input[Line + 1]] ELSE default
        BY <1>2, <2>1, DirectiveKnown DEF LinesIInv
    <2>4. LineLevel(input, Line) \in 0..MaxLevel
        <3>1. ASSUME HasTag(input, Line, <<>>)
              PROVE  LevelOf[input[Line + 1]] \in 0..MaxLevel
            <4>1. IsDigit(input[Line + Len(<<>>) + 1])
                  /\ LevelOf[input[Line + Len(<<>>) + 1]] <= MaxLevel
                BY <3>1 DEF HasTag
            <4>2. Line + Len(<<>>) + 1 = Line + 1
                BY <1>2, EmptySeq
            <4> QED BY <4>1, <4>2, BytesAssumption DEF IsDigit
        <3> QED BY <1>3, <2>3, <3>1
    <2>5. CASE ~parse
        <3>1. Parsed(t) = Unprefixed
            BY <2>1, <2>5 DEF ParseLevelPrefix
        <3>2. Len(t) \in Nat
            BY <1>1 DEF IsPiece
        <3> QED BY <2>1, <2>2, <2>3, <2>4, <2>5, <3>1, <3>2 DEF Unprefixed
    <2>6. CASE parse
        <3>1. /\ Line \in 1..Len(input) /\ n \in 1..Len(input) - Line + 1
              /\ input \in Seq(STRING) /\ IsPiece(t, input, Line, n)
            BY <1>1, <2>1 DEF LinesIInv, BufferOK
        <3>2. /\ t[Len(t)] = Newline => ParseLevelPrefix(t) # NotEnough
              /\ ParseLevelPrefix(t) # NotEnough =>
                   ParseLevelPrefix(t) =
                       IF IsDirective(input, Line)
                       THEN Directed(Len(t), LevelOf[input[Line + Len(Directive) + 1]])
                       ELSE IF HasTag(input, Line, <<>>)
                       THEN Prefixed(3, LevelOf[input[Line + 1]]) ELSE Unprefixed
              /\ ParseLevelPrefix(t) # NotEnough /\ IsDirective(input, Line) =>
                   Len(t) = Len(Directive) + 4 /\ t[Len(t)] = Newline
              /\ ParseLevelPrefix(t) # NotEnough /\ HasTag(input, Line, <<>>) => Len(t) >= 3
            BY <2>6, <3>1, ParsesPrefix
        <3>3. CASE ParseLevelPrefix(t) = NotEnough
            BY <1>5, <2>1, <3>2, <3>3
        <3>4. CASE ParseLevelPrefix(t) # NotEnough /\ IsDirective(input, Line)
            <4>1. HasTag(input, Line, Directive)
                BY <3>4 DEF IsDirective
            <4> QED BY <1>5, <2>1, <2>3, <2>6, <3>2, <3>4, <4>1
        <3>5. CASE ParseLevelPrefix(t) # NotEnough /\ ~IsDirective(input, Line)
            <4>1. Len(t) \in Nat
                BY <1>1 DEF IsPiece
            <4>2. Parsed(t) = IF HasTag(input, Line, <<>>)
                              THEN Prefixed(3, LevelOf[input[Line + 1]]) ELSE Unprefixed
                BY <2>1, <3>2, <3>5
            <4>3. Parsed(t) = [size |-> Size, level |-> LineLevel(input, Line),
                               parse |-> parse, default |-> default]
                BY <2>2, <2>3, <2>6, <4>2 DEF Prefixed, Unprefixed
            <4>4. Size <= Len(t)
                BY <2>2, <2>3, <3>2, <3>5, <4>1
            <4> QED BY <2>1, <2>3, <2>4, <3>5, <4>3, <4>4
        <3> QED BY <3>3, <3>4, <3>5
    <2> QED BY <2>5, <2>6
<1> QED BY <1>3, <1>4, <1>5

\* A prefix is in the line.
LEMMA PrefixFits ==
    ASSUME LinesIInv, NEW n, OneLine(n), NEW t, IsPiece(t, input, Consumed + 1, n),
           t[Len(t)] = Newline
    PROVE  Size \in Nat /\ Size < Len(t) /\ Size <= n
<1>1. /\ Consumed \in Nat /\ Len(input) \in Nat /\ n \in Nat /\ n >= 1
      /\ Len(t) \in {n, n + 1}
    BY BufferFacts DEF LinesIInv, OneLine, IsPiece
<1>2. Size \in {0, 3}
    BY DEF Size, PrefixSize
<1>3. CASE Size = 0
    BY <1>1, <1>3
<1>4. CASE Size = 3
    <2>1. Line = Consumed + 1 /\ HasTag(input, Line, <<>>)
        BY <1>4 DEF Size, PrefixSize
    <2>2. Line \in 1..Len(input) /\ input \in Seq(STRING)
        <3>1. Line + Len(<<>>) + 2 <= Len(input) /\ Len(<<>>) = 0
            BY <2>1, EmptySeq DEF HasTag
        <3> QED BY <1>1, <2>1, <3>1 DEF LinesIInv, BufferOK
    <2>3. /\ Line + 2 <= Len(input) /\ input[Line] = "<" /\ IsDigit(input[Line + 1])
          /\ input[Line + 2] = ">"
        <3>1. <<>> \in Seq(STRING) /\ Len(<<>>) = 0
            BY EmptySeq
        <3>2. /\ Line + Len(<<>>) + 2 <= Len(input) /\ input[Line] = "<"
              /\ IsDigit(input[Line + Len(<<>>) + 1]) /\ input[Line + Len(<<>>) + 2] = ">"
            BY <2>1, Zenon DEF HasTag
        <3> QED BY <2>2, <3>1, <3>2
    <2>4. Len(t) > 3
        <3>1. CASE Len(t) = n
            <4>1. t[n] = input[Line + n - 1]
                BY <1>1, <2>1 DEF IsPiece
            <4>2. n # 1 /\ n # 2 /\ n # 3
                BY <2>1, <2>2, <2>3, <3>1, <4>1, <1>1, DirectiveFacts DEF Newline
            <4> QED BY <1>1, <3>1, <4>2
        <3>2. CASE Len(t) = n + 1
            <4>1. n = BufSize \/ Line + n - 1 = Len(input)
                BY <1>1, <2>1, <3>2 DEF IsPiece
            <4> QED BY <1>1, <2>2, <2>3, <3>2, <4>1, DirectiveFacts
        <3> QED BY <1>1, <3>1, <3>2
    <2> QED BY <1>1, <1>4, <2>4
<1> QED BY <1>2, <1>3, <1>4

\* Where what has not been shown of the line begins in the buffer.
From == IF prefix < 0 THEN Size ELSE processed

LEMMA FromFacts ==
    ASSUME LinesIInv, NEW n, OneLine(n), processed <= n, Line \notin Directives(input),
           prefix < 0 => Size <= n
    PROVE  /\ From \in processed..n
           /\ \A k \in processed + 1..n : Consumed + k \in Kept(input) <=> k > From
           /\ From = IF processed > 0 THEN processed ELSE Size
           /\ Size \in 0..n
<1>1. /\ Consumed \in Nat /\ Consumed < Len(input) /\ Len(input) \in Nat
      /\ Len(buf) \in Nat /\ n \in 1..Len(buf)
    BY BufferFacts DEF LinesIInv, OneLine
<1>2. /\ Line <= Consumed + 1 /\ Line \in Nat
      /\ Line <= Consumed => prefix = 0
      /\ prefix >= 0 /\ Line = Consumed + 1 =>
           prefix = PrefixSize(input, Line) /\ prefix <= processed /\ processed > 0
    BY <1>1 DEF LinesIInv, LineOK, Begins
<1>3. prefix \in Int /\ processed \in Nat /\ (processed > 0 => prefix >= 0)
    BY <1>1 DEF LinesIInv, LinesTypeOK
<1>4. Size \in Nat
    BY DEF Size, PrefixSize
<1>5. /\ Line = Consumed + 1 => Size = PrefixSize(input, Line)
      /\ Line <= Consumed => Size = 0
    BY <1>1, <1>2 DEF Size
<1>6. prefix >= 0 => Size <= processed /\ (processed = 0 => Size = 0)
    BY <1>1, <1>2, <1>3, <1>4, <1>5
<1>7. From \in processed..n /\ From = IF processed > 0 THEN processed ELSE Size
    BY <1>1, <1>3, <1>4, <1>6 DEF From
<1>8. \A k \in processed + 1..n : k > From <=> k > Size
    BY <1>1, <1>3, <1>4, <1>6 DEF From
<1>9. \A k \in processed + 1..n : Consumed + k \in Kept(input) <=> k > Size
    BY <1>1, <1>3, KeptInLine
<1> QED BY <1>1, <1>3, <1>4, <1>6, <1>7, <1>8, <1>9

LEMMA PartialLine_IInv == LinesIInv /\ PartialLine => LinesIInv'
<1> SUFFICES ASSUME LinesIInv, PartialLine PROVE LinesIInv'
    OBVIOUS
<1> DEFINE known == [size |-> prefix, level |-> level, parse |-> parse, default |-> default]
           parsed == IF prefix < 0 /\ Len(buf) > processed
                     THEN ParseLevelPrefix(buf) ELSE known
<1>1. /\ loop' = (IF eof THEN "done" ELSE "read")
      /\ prefix' = parsed.size /\ level' = parsed.level
      /\ parse' = parsed.parse /\ default' = parsed.default
      /\ IF parsed.size >= 0 /\ Len(buf) > processed
         THEN /\ shown' = shown \o Tagged(parsed.level, Drop(buf, Unshown(parsed.size)))
              /\ processed' = Len(buf)
         ELSE shown' = shown /\ processed' = processed
    BY DEF PartialLine
<1>2. /\ input' = input /\ parsing' = parsing /\ rest' = rest /\ buf' = buf
      /\ eof' = eof /\ lines' = lines
    BY DEF PartialLine
<1>3. buf = <<>> \/ (Newlines = {} /\ ~eof /\ Len(buf) # BufSize)
    BY DEF PartialLine, Overflows
<1>4. /\ Directives(input)' = Directives(input) /\ Ends(input)' = Ends(input)
      /\ Kept(input)' = Kept(input) /\ Bytes(input)' = Bytes(input)
      /\ \A i : PrefixSize(input, i)' = PrefixSize(input, i)
      /\ \A i : LineLevel(input, i)' = LineLevel(input, i)
      /\ EntryAt' = EntryAt /\ ByteAt' = ByteAt
    BY <1>2, SameReference
<1>5. Consumed' = Consumed /\ Line' = Line
    BY <1>2 DEF Consumed, Line
<1>6. DoneEnds' = DoneEnds /\ LinesOK'
    BY <1>2, <1>4, <1>5 DEF DoneEnds, LinesIInv, LinesOK
<1>7. /\ Consumed \in Nat /\ Len(buf) \in Nat /\ Len(input) \in Nat /\ Len(rest) \in Nat
      /\ Len(input) = Consumed + Len(buf) + Len(rest)
      /\ processed \in 0..Len(buf) /\ prefix \in -1..Len(buf)
      /\ Len(buf) <= BufSize /\ BufSize \in Nat \ {0} /\ (buf = <<>> <=> Len(buf) = 0)
      /\ processed > 0 => prefix >= 0
    BY BufferFacts, DirectiveFacts DEF LinesIInv, LinesTypeOK
<1>8. /\ parse \in BOOLEAN /\ default \in 0..MaxLevel /\ level \in 0..MaxLevel
      /\ eof \in BOOLEAN /\ MaxLevel \in Nat
    BY BytesAssumption DEF LinesIInv, LinesTypeOK
<1>9. /\ loop' \in {"read", "split", "done"} /\ (loop' = "read" => Len(buf) < BufSize)
      /\ loop' = "read" => ~eof
      /\ loop' = "done" => eof /\ buf = <<>>
    <2>1. CASE eof
        BY <1>1, <1>3, <2>1
    <2>2. CASE ~eof
        BY <1>1, <1>3, <1>7, <2>2
    <2> QED BY <2>1, <2>2
<1>10. ASSUME processed' = processed, prefix' = prefix, level' = level, parse' = parse,
              default' = default, shown' = shown
       PROVE  LinesIInv'
    <2>1. LinesTypeOK'
        BY <1>2, <1>7, <1>8, <1>9, <1>10 DEF LinesTypeOK
    <2>2. BufferOK'
        BY <1>2, <1>5, <1>9, <1>10 DEF LinesIInv, BufferOK
    <2>3. LineOK'
        BY <1>2, <1>4, <1>5, <1>10 DEF LinesIInv, LineOK
    <2>4. DirectiveOK'
        BY <1>2, <1>4, <1>5, <1>10 DEF LinesIInv, DirectiveOK
    <2>5. DoneBytes' = DoneBytes
        BY <1>2, <1>4, <1>5, <1>6, <1>10 DEF DoneBytes
    <2>6. ShownOK'
        BY <1>4, <1>10, <2>5 DEF LinesIInv, ShownOK
    <2> QED BY <1>6, <2>1, <2>2, <2>3, <2>4, <2>6 DEF LinesIInv
<1>11. CASE Len(buf) = processed
    <2>1. parsed = known
        BY <1>7, <1>11
    <2>2. shown' = shown /\ processed' = processed
        BY <1>1, <1>7, <1>11
    <2>3. prefix' = prefix /\ level' = level /\ parse' = parse /\ default' = default
        BY <1>1, <2>1
    <2> QED BY <1>10, <2>2, <2>3
<1>12. CASE Len(buf) > processed
    <2> DEFINE n == Len(buf)
    <2>1. Newlines = {} /\ ~eof /\ loop' = "read" /\ buf # <<>>
        BY <1>1, <1>3, <1>7, <1>12
    <2>2. \A k \in 1..n : buf[k] # Newline
        <3>1. \A k \in 1..processed : buf[k] # Newline
            BY DEF LinesIInv, BufferOK
        <3> QED BY <1>7, <2>1, <3>1 DEF Newlines
    <2>3. OneLine(n) /\ IsPiece(buf, input, Consumed + 1, n)
        <3>1. \A k \in 1..n : buf[k] = input[Consumed + 1 + k - 1]
            BY <1>7 DEF LinesIInv, BufferOK
        <3>2. OneLine(n)
            BY <1>7, <1>12, <2>2 DEF OneLine
        <3>3. buf \in Seq(STRING)
            BY DEF LinesIInv, BufferOK
        <3> QED BY <1>7, <2>2, <3>1, <3>2, <3>3 DEF IsPiece
    <2>4. parsed = Parsed(buf)
        BY <1>12 DEF Parsed
    <2> HIDE DEF parsed
    <2>5. n \in 1..n /\ buf[n] # Newline
        BY <1>7, <1>12, <2>2
    <2>6. \/ prefix < 0 /\ parsed = NotEnough
          \/ /\ Line \notin Directives(input) /\ LineLevel(input, Line) \in 0..MaxLevel
             /\ parsed = [size |-> Size, level |-> LineLevel(input, Line),
                          parse |-> parse, default |-> default]
             /\ prefix < 0 => processed = 0 /\ Size <= n
        BY <2>3, <2>4, <2>5, KnownLine
    <2>7. CASE prefix < 0 /\ parsed = NotEnough
        <3>1. /\ parsed.size = -1 /\ parsed.level = level /\ parsed.parse = parse
              /\ parsed.default = default /\ prefix = -1
            BY <1>7, <2>7 DEF NotEnough
        <3> QED BY <1>1, <1>10, <3>1
    <2>8. CASE /\ Line \notin Directives(input) /\ LineLevel(input, Line) \in 0..MaxLevel
               /\ parsed = [size |-> Size, level |-> LineLevel(input, Line),
                            parse |-> parse, default |-> default]
               /\ prefix < 0 => processed = 0 /\ Size <= n
        <3> DEFINE l == LineLevel(input, Line)
                   r == Drop(buf, From)
        <3>1. /\ From \in processed..n
              /\ \A k \in processed + 1..n : Consumed + k \in Kept(input) <=> k > From
              /\ Size \in 0..n /\ From \in 0..n
            BY <1>7, <2>3, <2>8, FromFacts
        <3>2. parsed.size = Size /\ parsed.level = l /\ parsed.parse = parse
              /\ parsed.default = default /\ Size \in Nat
            BY <2>8 DEF Size, PrefixSize
        <3>3. Unshown(parsed.size) = From
            BY <3>2 DEF Unshown, From
        <3>4. /\ prefix' = Size /\ level' = l /\ parse' = parse /\ default' = default
              /\ processed' = n /\ shown' = shown \o Tagged(l, r)
            BY <1>1, <1>12, <3>2, <3>3
        <3>5. buf \in Seq(STRING) /\ From \in Nat /\ n \in Nat \ {0}
            BY <1>7, <1>12, <3>1 DEF LinesIInv, BufferOK
        <3>6. /\ r \in Seq(STRING) /\ Len(r) = n - From
              /\ \A k \in 1..n - From : r[k] = buf[From + k]
            BY <3>1, <3>5, DropFacts
        <3>7. /\ shown' \in Seq([level : 0..MaxLevel, byte : STRING])
              /\ InOrder(shown', DoneBytes \cup Evens(Consumed + From + 1, n - From), ByteAt)
              /\ {2 * i : i \in {k \in Kept(input) : k <= Consumed + n}} =
                    {2 * i : i \in {k \in Kept(input) : k <= Consumed + processed}}
                      \cup Evens(Consumed + From + 1, n - From)
            BY <2>3, <2>8, <3>1, <3>4, <3>6, ShowInOrder
        <3>8. DoneBytes' = DoneBytes \cup Evens(Consumed + From + 1, n - From)
            <4>1. DoneBytes' = {2 * i : i \in {k \in Kept(input) : k <= Consumed + n}} \cup
                               {2 * i + 1 : i \in {e \in DoneEnds : input[e] # Newline}}
                BY <1>2, <1>4, <1>5, <1>6, <3>4 DEF DoneBytes
            <4> HIDE DEF n
            <4> QED BY <3>7, <4>1, Zenon DEF DoneBytes
        <3>9. ShownOK'
            BY <1>4, <3>7, <3>8 DEF ShownOK
        <3>10. LinesTypeOK'
            <4>1. prefix' >= 0 /\ prefix' \in -1..Len(buf') /\ processed' \in 0..Len(buf')
                BY <1>2, <3>1, <3>4, <3>5
            <4> QED BY <1>2, <1>7, <1>8, <1>9, <2>8, <3>4, <4>1 DEF LinesTypeOK
        <3>11. BufferOK'
            <4>1. \A i \in 1..processed' : buf'[i] # Newline
                BY <1>2, <2>2, <3>4
            <4> QED BY <1>2, <1>5, <1>9, <4>1 DEF LinesIInv, BufferOK
        <3>12. DirectiveOK'
            BY <1>2, <1>4, <1>5, <3>4 DEF LinesIInv, DirectiveOK
        <3>13. LineOK'
            <4>1. Consumed < Len(input)
                BY <2>1, BufferFacts DEF LinesIInv
            <4>2. Line = Consumed + 1 => Size = PrefixSize(input, Line)
                BY DEF Size
            <4>3. Line <= Consumed => Size = 0
                BY <1>7 DEF Size
            <4> QED BY <1>2, <1>4, <1>5, <2>8, <3>1, <3>4, <3>5, <4>1, <4>2, <4>3
                    DEF LinesIInv, LineOK
        <3> QED BY <1>6, <3>9, <3>10, <3>11, <3>12, <3>13 DEF LinesIInv
    <2> QED BY <2>6, <2>7, <2>8
<1> QED BY <1>7, <1>11, <1>12

-----------------------------------------------------------------------------
\* The step takes n bytes from the buffer, up to a newline or to be cut.
Taken(n) ==
    /\ OneLine(n) /\ processed <= n
    /\ IsPiece(FirstLine, input, Consumed + 1, n)
    /\ FirstLine[Len(FirstLine)] = Newline
    /\ Consumed' = Consumed + n
    /\ \/ Len(FirstLine) = n /\ prefix' = -1 /\ input[Consumed + n] = Newline
       \/ /\ Len(FirstLine) = n + 1 /\ n = Len(buf) /\ prefix' = 0
          /\ input[Consumed + n] # Newline
          /\ n = BufSize \/ Consumed + n = Len(input)

LEMMA TakesLine ==
    ASSUME LinesIInv, CompleteLine
    PROVE  BufferOK' /\ Len(buf') <= BufSize /\ \E n : Taken(n)
<1>1. /\ Consumed \in Nat /\ Len(buf) \in Nat \ {0} /\ Len(input) \in Nat /\ Len(rest) \in Nat
      /\ Len(input) = Consumed + Len(buf) + Len(rest)
      /\ processed \in 0..Len(buf) /\ Len(buf) <= BufSize /\ BufSize \in Nat
      /\ (rest = <<>> <=> Len(rest) = 0)
    BY BufferFacts, DirectiveFacts DEF LinesIInv, LinesTypeOK, CompleteLine
<1>2. /\ input' = input /\ rest' = rest /\ loop' = loop /\ eof' = eof /\ loop = "split"
      /\ processed' = 0 /\ prefix' = NextPrefix /\ buf' = Drop(buf, Len(FirstLine))
    BY DEF CompleteLine
<1>3. /\ input \in Seq(STRING) /\ rest \in Seq(STRING) /\ buf \in Seq(STRING)
      /\ \A i \in 1..Len(buf) : buf[i] = input[Consumed + i]
      /\ \A i \in 1..Len(rest) : rest[i] = input[Consumed + Len(buf) + i]
      /\ \A i \in 1..processed : buf[i] # Newline
      /\ eof => rest = <<>>
    BY DEF LinesIInv, BufferOK
<1>4. ASSUME NEW n \in 1..Len(buf), Len(buf') = Len(buf) - n, buf' \in Seq(STRING),
             \A k \in 1..Len(buf) - n : buf'[k] = buf[n + k]
      PROVE  BufferOK' /\ Len(buf') <= BufSize /\ Consumed' = Consumed + n
    <2>1. Consumed' = Consumed + n
        BY <1>1, <1>2, <1>4 DEF Consumed
    <2>2. ASSUME NEW i \in 1..Len(buf') PROVE buf'[i] = input[Consumed' + i]
        <3>1. n + i \in 1..Len(buf) /\ Consumed + (n + i) = Consumed' + i
            BY <1>1, <1>4, <2>1
        <3> QED BY <1>3, <1>4, <3>1
    <2>3. ASSUME NEW i \in 1..Len(rest) PROVE rest[i] = input[Consumed' + Len(buf') + i]
        <3>1. Consumed' + Len(buf') + i = Consumed + Len(buf) + i
            BY <1>1, <1>4, <2>1
        <3> QED BY <1>3, <3>1
    <2>4. Consumed' \in Nat /\ Len(buf') <= BufSize
        BY <1>1, <1>4, <2>1
    <2>5. BufferOK'
        BY <1>2, <1>3, <1>4, <2>2, <2>3, <2>4 DEF BufferOK
    <2> QED BY <2>1, <2>4, <2>5
<1>5. CASE Overflows
    <2> DEFINE n == Len(buf)
    <2>1. FirstLine = Append(buf, Newline) /\ prefix' = 0
        BY <1>2, <1>5 DEF FirstLine, NextPrefix
    <2>2. Newlines = {} /\ (eof \/ Len(buf) = BufSize)
        BY <1>5 DEF Overflows
    <2>3. \A k \in 1..n : buf[k] # Newline
        BY <1>1, <1>3, <2>2 DEF Newlines
    <2>4. /\ FirstLine \in Seq(STRING) /\ Len(FirstLine) = n + 1
          /\ FirstLine[n + 1] = Newline /\ \A k \in 1..n : FirstLine[k] = buf[k]
        <3>1. Newline \in STRING
            BY BytesAssumption
        <3>2. /\ Append(buf, Newline) \in Seq(STRING)
              /\ Len(Append(buf, Newline)) = Len(buf) + 1
              /\ \A i \in 1..Len(buf) : Append(buf, Newline)[i] = buf[i]
              /\ Append(buf, Newline)[Len(buf) + 1] = Newline
            <4> DEFINE V == STRING
            <4>1. buf \in Seq(V) /\ Newline \in V
                BY <1>3, <3>1
            <4> HIDE DEF V
            <4>2. /\ Append(buf, Newline) \in Seq(V)
                  /\ Len(Append(buf, Newline)) = Len(buf) + 1
                  /\ \A i \in 1..Len(buf) : Append(buf, Newline)[i] = buf[i]
                  /\ Append(buf, Newline)[Len(buf) + 1] = Newline
                BY <4>1, AppendFacts
            <4> QED BY <4>2 DEF V
        <3> QED BY <2>1, <3>2
    <2>5. buf' = <<>>
        <3>1. buf' = SubSeq(buf, n + 2, n)
            BY <1>1, <1>2, <2>4 DEF Drop
        <3>2. SubSeq(buf, n + 2, n) = <<>>
            BY <1>1, <1>3, SubSeqEmpty
        <3> QED BY <3>1, <3>2
    <2>6. BufferOK' /\ Len(buf') <= BufSize /\ Consumed' = Consumed + n
        <3>1. buf' \in Seq(STRING) /\ Len(buf') = 0
            BY <2>5
        <3>2. n \in 1..Len(buf) /\ Len(buf) - n = 0
            BY <1>1
        <3> QED BY <1>4, <3>1, <3>2
    <2>7. OneLine(n)
        BY <1>1, <2>3 DEF OneLine
    <2>8. n = BufSize \/ Consumed + n = Len(input)
        <3>1. CASE eof
            <4>1. Len(rest) = 0
                BY <1>3, <3>1
            <4> QED BY <1>1, <4>1
        <3> QED BY <2>2, <3>1
    <2>9. IsPiece(FirstLine, input, Consumed + 1, n)
        <3>1. \A k \in 1..n : FirstLine[k] = input[Consumed + 1 + k - 1]
            BY <1>1, <1>3, <2>4
        <3>2. \A k \in 1..Len(FirstLine) - 1 : FirstLine[k] # Newline
            BY <1>1, <2>3, <2>4
        <3>3. n = BufSize \/ Consumed + 1 + n - 1 = Len(input)
            BY <1>1, <2>8
        <3> QED BY <2>4, <3>1, <3>2, <3>3 DEF IsPiece
    <2>10. input[Consumed + n] # Newline /\ processed <= n
        <3>1. n \in 1..n /\ processed <= n
            BY <1>1
        <3>2. buf[n] # Newline /\ buf[n] = input[Consumed + n]
            BY <1>3, <2>3, <3>1
        <3> QED BY <3>1, <3>2
    <2>11. Taken(n)
        BY <2>1, <2>4, <2>6, <2>7, <2>8, <2>9, <2>10 DEF Taken
    <2> QED BY <2>6, <2>11
<1>6. CASE ~Overflows
    <2>1. Newlines # {}
        BY <1>6 DEF CompleteLine
    <2>2. Newlines \subseteq Nat
        BY <1>1 DEF Newlines
    <2>3. PICK m \in Newlines : \A j \in Newlines : m <= j
        BY <2>1, <2>2, HasMinimum
    <2> DEFINE n == CHOOSE i \in Newlines : \A j \in Newlines : i <= j
    <2>4. n \in Newlines /\ \A j \in Newlines : n <= j
        BY <2>3
    <2>5. FirstLine = SubSeq(buf, 1, n) /\ prefix' = -1
        BY <1>2, <1>6 DEF FirstLine, NextPrefix
    <2> HIDE DEF n
    <2>6. n \in processed + 1..Len(buf) /\ n \in 1..Len(buf) /\ buf[n] = Newline /\ n \in Nat
        BY <1>1, <2>4 DEF Newlines
    <2>7. \A k \in 1..n - 1 : buf[k] # Newline
        <3>1. ASSUME NEW k \in 1..n - 1, buf[k] = Newline PROVE FALSE
            <4>1. k > processed /\ k \in Nat
                BY <1>1, <1>3, <2>6, <3>1
            <4>2. k \in Newlines
                BY <1>1, <2>6, <3>1, <4>1 DEF Newlines
            <4> QED BY <2>4, <2>6, <4>1, <4>2
        <3> QED BY <3>1
    <2>8. /\ FirstLine \in Seq(STRING) /\ Len(FirstLine) = n
          /\ \A k \in 1..n : FirstLine[k] = buf[k]
        <3>1. \A k \in 1..n : buf[k] \in STRING
            BY <1>1, <1>3, <2>6, ElementOfSeq
        <3>2. /\ SubSeq(buf, 1, n) \in Seq(STRING)
              /\ Len(SubSeq(buf, 1, n)) = IF 1 <= n THEN n - 1 + 1 ELSE 0
              /\ \A k \in 1..n - 1 + 1 : SubSeq(buf, 1, n)[k] = buf[1 + k - 1]
            BY <2>6, <3>1, SubSeqProperties
        <3> QED BY <2>5, <2>6, <3>2
    <2>9. /\ buf' \in Seq(STRING) /\ Len(buf') = Len(buf) - n
          /\ \A k \in 1..Len(buf) - n : buf'[k] = buf[n + k]
        <3>1. n \in 0..Len(buf)
            BY <2>6
        <3>2. /\ Drop(buf, n) \in Seq(STRING) /\ Len(Drop(buf, n)) = Len(buf) - n
              /\ \A k \in 1..Len(buf) - n : Drop(buf, n)[k] = buf[n + k]
            <4>1. buf \in Seq(STRING)
                BY <1>3
            <4> QED BY <3>1, <4>1, DropFacts
        <3> QED BY <1>2, <2>8, <3>2
    <2>10. BufferOK' /\ Len(buf') <= BufSize /\ Consumed' = Consumed + n
        BY <1>4, <2>6, <2>9
    <2>11. OneLine(n)
        BY <1>1, <2>6, <2>7 DEF OneLine
    <2>12. IsPiece(FirstLine, input, Consumed + 1, n)
        <3>1. ASSUME NEW k \in 1..n PROVE FirstLine[k] = input[Consumed + 1 + k - 1]
            <4>1. k \in 1..Len(buf) /\ Consumed + 1 + k - 1 = Consumed + k
                BY <1>1, <2>6
            <4> QED BY <1>3, <2>8, <4>1
        <3>2. \A k \in 1..Len(FirstLine) - 1 : FirstLine[k] # Newline
            BY <2>6, <2>7, <2>8
        <3> QED BY <2>8, <3>1, <3>2 DEF IsPiece
    <2>13. input[Consumed + n] = Newline /\ processed <= n /\ FirstLine[n] = Newline
        BY <1>1, <1>3, <2>6, <2>8
    <2>14. Taken(n)
        BY <2>5, <2>8, <2>10, <2>11, <2>12, <2>13 DEF Taken
    <2> QED BY <2>10, <2>14
<1> QED BY <1>5, <1>6

LEMMA TakenFacts ==
    ASSUME LinesIInv, CompleteLine, NEW n, Taken(n)
    PROVE  /\ Consumed \in Nat /\ Len(input) \in Nat /\ Len(buf) \in Nat
           /\ n \in 1..Len(buf) /\ n <= BufSize /\ processed <= n /\ processed \in Nat
           /\ Consumed + n <= Len(input) /\ Consumed' = Consumed + n
           /\ Line \in Begins(input) /\ Line \in Nat /\ Line <= Consumed + 1
           /\ input' = input /\ parsing' = parsing /\ processed' = 0
           /\ Directives(input)' = Directives(input) /\ Ends(input)' = Ends(input)
           /\ Kept(input)' = Kept(input) /\ Bytes(input)' = Bytes(input)
           /\ \A i : PrefixSize(input, i)' = PrefixSize(input, i)
           /\ \A i : LineLevel(input, i)' = LineLevel(input, i)
           /\ EntryAt' = EntryAt /\ ByteAt' = ByteAt
           /\ input \in Seq(STRING) /\ \A i \in Line..Consumed : input[i] # Newline
<1>1. /\ input' = input /\ parsing' = parsing /\ processed' = 0
    BY DEF CompleteLine
<1>2. /\ Consumed \in Nat /\ Len(input) \in Nat /\ Len(buf) \in Nat
      /\ n \in 1..Len(buf) /\ n <= BufSize /\ processed <= n /\ processed \in Nat
      /\ Consumed + n <= Len(input) /\ Consumed' = Consumed + n
    BY BufferFacts DEF Taken, OneLine, LinesIInv, LinesTypeOK
<1>3. /\ Line \in Begins(input) /\ Line \in Nat /\ Line <= Consumed + 1
      /\ \A i \in Line..Consumed : input[i] # Newline
    BY <1>2 DEF LinesIInv, LineOK, Begins
<1>4. input \in Seq(STRING)
    BY DEF LinesIInv, BufferOK
<1> QED BY <1>1, <1>2, <1>3, <1>4, SameReference

\* The line that begins after what has been taken, or goes on there.
LEMMA NextLineOK ==
    ASSUME LinesIInv, CompleteLine, NEW n, Taken(n),
           Len(FirstLine) # n /\ n = BufSize =>
             Line \notin Directives(input) /\ level' = LineLevel(input, Line)
    PROVE  LineOK'
<1> DEFINE e == Consumed + n
<1>1. /\ Consumed \in Nat /\ Len(input) \in Nat /\ Len(buf) \in Nat
      /\ n \in 1..Len(buf) /\ n <= BufSize
      /\ Consumed + n <= Len(input) /\ Consumed' = Consumed + n
      /\ Line \in Begins(input) /\ Line \in Nat /\ Line <= Consumed + 1
      /\ input' = input
      /\ Directives(input)' = Directives(input)
      /\ \A i : PrefixSize(input, i)' = PrefixSize(input, i)
      /\ \A i : LineLevel(input, i)' = LineLevel(input, i)
      /\ input \in Seq(STRING) /\ \A i \in Line..Consumed : input[i] # Newline
    BY TakenFacts
<1>2. Line' = LineOf(input, e + 1)
    BY <1>1 DEF Line
<1>3. e \in Nat /\ e + 1 \in Nat /\ BufSize \in Nat \ {0}
    BY <1>1, DirectiveFacts
<1> SUFFICES ASSUME e < Len(input) PROVE LineOK'
    BY <1>1 DEF LineOK
<1>4. CASE Len(FirstLine) = n
    <2>1. prefix' = -1 /\ input[e] = Newline
        BY <1>1, <1>4 DEF Taken
    <2>2. e + 1 \in Begins(input)
        BY <1>1, <1>3, <2>1 DEF Begins
    <2>3. Line' = e + 1
        BY <1>1, <1>2, <1>3, <2>2, LineOfIs
    <2>4. (e + 1 - Line') % BufSize = 0
        BY <1>3, <2>3
    <2> QED BY <1>1, <1>3, <2>1, <2>2, <2>3, <2>4 DEF LineOK
<1>5. CASE Len(FirstLine) # n
    <2>1. n = BufSize /\ prefix' = 0 /\ input[e] # Newline
        BY <1>1, <1>5 DEF Taken
    <2>2. \A i \in Line..e : input[i] # Newline
        <3>1. ASSUME NEW i \in Consumed + 1..e PROVE input[i] # Newline
            <4> DEFINE k == i - Consumed
            <4>1. k \in 1..n /\ Consumed + k = i /\ (k = n => i = e)
                BY <1>1
            <4> HIDE DEF k
            <4>2. k < n => input[Consumed + k] # Newline
                BY <4>1, InLine DEF Taken
            <4> QED BY <1>1, <2>1, <4>1, <4>2
        <3> QED BY <1>1, <3>1
    <2>3. Line' = Line
        <3>1. Line <= e + 1
            BY <1>1
        <3>2. \A i \in Line..(e + 1) - 1 : input[i] # Newline
            BY <1>3, <2>2
        <3> HIDE DEF e
        <3>3. LineOf(input, e + 1) = Line
            BY <1>1, <1>3, <3>1, <3>2, LineOfIs
        <3> QED BY <1>2, <3>3
    <2>4. (e + 1 - Line) % BufSize = 0
        <3>1. (Consumed + 1 - Line) % BufSize = 0 /\ Consumed + 1 - Line \in Nat
            BY <1>1 DEF LinesIInv, LineOK
        <3>2. ((Consumed + 1 - Line) + BufSize) % BufSize = 0
            <4>1. 0 \in 0..BufSize - 1
                BY <1>3
            <4> QED BY <1>3, <3>1, <4>1, Modulo
        <3>3. e + 1 - Line = (Consumed + 1 - Line) + BufSize
            BY <1>1, <2>1
        <3> QED BY <3>2, <3>3
    <2>5. Line < e + 1 /\ Line <= e
        BY <1>1
    <2>6. Line \notin Directives(input) /\ level' = LineLevel(input, Line)
        BY <1>5, <2>1
    <2> QED BY <1>1, <1>3, <2>1, <2>2, <2>3, <2>4, <2>5, <2>6 DEF LineOK
<1> QED BY <1>4, <1>5

\* A directive has been taken, or there is none in what has been.
LEMMA NextDirectiveOK ==
    ASSUME LinesIInv, CompleteLine, NEW n, Taken(n),
           \/ Line \notin Directives(input) /\ parse' = parse /\ default' = default
           \/ /\ Line \in Directives(input) /\ Line = Consumed + 1 /\ parse' = FALSE
              /\ default' = LevelOf[input[Line + Len(Directive) + 1]]
    PROVE  DirectiveOK'
<1>1. /\ Consumed \in Nat /\ Len(input) \in Nat /\ Len(buf) \in Nat
      /\ n \in 1..Len(buf) /\ n <= BufSize
      /\ Consumed + n <= Len(input) /\ Consumed' = Consumed + n
      /\ input' = input /\ parsing' = parsing
      /\ Directives(input)' = Directives(input)
      /\ input \in Seq(STRING) /\ parsing \in BOOLEAN
    BY TakenFacts DEF LinesIInv, DirectiveOK
<1>2. CASE Line \notin Directives(input) /\ parse' = parse /\ default' = default
    <2>1. ASSUME parse, NEW d \in Begins(input), IsDirective(input, d), d <= Consumed + n
          PROVE  FALSE
        <3>1. d > Consumed /\ d \in Nat
            BY <2>1 DEF LinesIInv, DirectiveOK, Begins
        <3>2. CASE d = Consumed + 1
            <4>1. d \in Directives(input)
                BY <2>1, <3>2, DirectiveKnown DEF LinesIInv
            <4>2. LineOf(input, Consumed + 1) = d
                BY <1>1, <3>1, <3>2, LineOfIs
            <4> QED BY <1>2, <4>1, <4>2 DEF Line
        <3>3. CASE d > Consumed + 1
            <4> DEFINE k == d - 1 - Consumed
            <4>1. k \in 1..n /\ k < n /\ Consumed + k = d - 1
                BY <1>1, <2>1, <3>1, <3>3
            <4> HIDE DEF k
            <4>2. input[d - 1] # Newline
                BY <4>1, InLine DEF Taken
            <4>3. input[d - 1] = Newline
                BY <1>1, <3>1, <3>3 DEF Begins
            <4> QED BY <4>2, <4>3
        <3> QED BY <1>1, <3>1, <3>2, <3>3
    <2>2. \A d \in Begins(input) : d \in Nat
        BY DEF Begins
    <2>3. parse => \A d \in Begins(input) : IsDirective(input, d) => d > Consumed + n
        BY <1>1, <2>1, <2>2
    <2>4. ~parse /\ parsing => \E d \in Directives(input) :
              d <= Consumed + n /\ default = LevelOf[input[d + Len(Directive) + 1]]
        <3> SUFFICES ASSUME ~parse /\ parsing
                     PROVE  \E d \in Directives(input) :
                              d <= Consumed + n /\ default = LevelOf[input[d + Len(Directive) + 1]]
            OBVIOUS
        <3>1. PICK d \in Directives(input) :
                  d <= Consumed /\ default = LevelOf[input[d + Len(Directive) + 1]]
            BY DEF LinesIInv, DirectiveOK
        <3>2. d <= Consumed + n
            BY <1>1, <2>2, <3>1 DEF Directives
        <3> QED BY <3>1, <3>2
    <2> QED BY <1>1, <1>2, <2>3, <2>4 DEF LinesIInv, DirectiveOK
<1>3. CASE /\ Line \in Directives(input) /\ Line = Consumed + 1 /\ parse' = FALSE
           /\ default' = LevelOf[input[Line + Len(Directive) + 1]]
    <2>1. parsing /\ Line <= Consumed + n
        BY <1>1, <1>3 DEF Directives
    <2> QED BY <1>1, <1>3, <2>1 DEF DirectiveOK
<1> QED BY <1>2, <1>3

\* What ends in what has been taken: the line, unless it is a directive.
LEMMA NextEnds ==
    ASSUME LinesIInv, CompleteLine, NEW n, Taken(n)
    PROVE  DoneEnds' = IF Line \in Directives(input) THEN DoneEnds
                       ELSE DoneEnds \cup {Consumed + n}
<1> DEFINE e == Consumed + n
<1>1. /\ Consumed \in Nat /\ Len(input) \in Nat /\ Len(buf) \in Nat
      /\ n \in 1..Len(buf) /\ n <= BufSize /\ e \in Nat
      /\ Consumed + n <= Len(input) /\ Consumed' = Consumed + n
      /\ Ends(input)' = Ends(input) /\ BufSize \in Nat
    BY TakenFacts, DirectiveFacts
<1>2. DoneEnds' = {i \in Ends(input) : i <= e}
    BY <1>1 DEF DoneEnds
<1>3. ASSUME NEW i \in Ends(input), i <= e, ~(i <= Consumed)
      PROVE  i = e /\ Line \notin Directives(input)
    <2> DEFINE k == i - Consumed
    <2>1. k \in 1..n /\ Consumed + k = i /\ i \in 1..Len(input) /\ k \in Nat
        BY <1>1, <1>3 DEF Ends
    <2> HIDE DEF k
    <2>2. /\ LineOf(input, i) = Line /\ Column(input, i) = k - 1
          /\ k < n => input[i] # Newline
        BY <2>1, InLine DEF Taken
    <2>3. Line \notin Directives(input)
        BY <1>3, <2>2 DEF Ends
    <2>4. input[i] = Newline \/ Column(input, i) = BufSize - 1 \/ i = Len(input)
        BY <1>3 DEF Ends
    <2>5. k = n
        <3> SUFFICES ASSUME k < n PROVE FALSE
            BY <1>1, <2>1
        <3>1. input[i] # Newline /\ Column(input, i) # BufSize - 1 /\ i # Len(input)
            BY <1>1, <2>1, <2>2
        <3> QED BY <2>4, <3>1
    <2> QED BY <2>1, <2>3, <2>5
<1>4. ASSUME Line \notin Directives(input)
      PROVE  e \in Ends(input)
    <2>1. n \in 1..n
        BY <1>1
    <2>2. LineOf(input, e) = Line /\ Column(input, e) = n - 1 /\ e \in 1..Len(input)
        BY <2>1, InLine DEF Taken
    <2>3. input[e] = Newline \/ n = BufSize \/ e = Len(input)
        BY DEF Taken
    <2>4. input[e] = Newline \/ Column(input, e) = BufSize - 1 \/ e = Len(input)
        BY <1>1, <2>2, <2>3
    <2> HIDE DEF e
    <2> QED BY <1>4, <2>2, <2>4 DEF Ends
<1>5. \A i \in Ends(input) : i \in Nat
    BY <1>1 DEF Ends
<1>6. \A i \in Ends(input) : i <= Consumed => i <= e
    BY <1>1, <1>5
<1> HIDE DEF e
<1>7. e <= e
    BY <1>1
<1> QED BY <1>2, <1>3, <1>4, <1>6, <1>7 DEF DoneEnds, e

\* The line is the entry of what ends there.
LEMMA EntryOfLine ==
    ASSUME LinesIInv, CompleteLine, NEW n, Taken(n), Line \notin Directives(input)
    PROVE  /\ EntryAt[Consumed + n] =
                [level |-> LineLevel(input, Line), text |-> Drop(FirstLine, Size)]
           /\ Drop(FirstLine, Size) \in Seq(STRING) /\ Drop(FirstLine, Size) # <<>>
<1> DEFINE e    == Consumed + n
           text == Drop(FirstLine, Size)
           m    == Consumed + 1 + Size
           u    == SubSeq(input, m, e)
           w    == IF input[e] = Newline THEN <<>> ELSE <<Newline>>
<1>1. /\ Consumed \in Nat /\ Len(input) \in Nat /\ Len(buf) \in Nat
      /\ n \in 1..Len(buf) /\ n <= BufSize /\ e \in Nat /\ n \in Nat
      /\ Consumed + n <= Len(input) /\ Consumed' = Consumed + n
      /\ input \in Seq(STRING) /\ Line \in Nat
    BY TakenFacts
<1>2. /\ Size \in Nat /\ Size < Len(FirstLine) /\ Size <= n
      /\ FirstLine \in Seq(STRING) /\ Len(FirstLine) \in Nat
      /\ \A k \in 1..n : FirstLine[k] = input[Consumed + 1 + k - 1]
      /\ Len(FirstLine) = n + 1 => FirstLine[n + 1] = Newline
    <2>1. /\ OneLine(n) /\ IsPiece(FirstLine, input, Consumed + 1, n)
          /\ FirstLine[Len(FirstLine)] = Newline
        BY DEF Taken
    <2>2. Size \in Nat /\ Size < Len(FirstLine) /\ Size <= n
        BY <2>1, PrefixFits
    <2>3. /\ FirstLine \in Seq(STRING)
          /\ \A k \in 1..n : FirstLine[k] = input[Consumed + 1 + k - 1]
        BY <2>1 DEF IsPiece
    <2>4. Len(FirstLine) \in Nat /\ (Len(FirstLine) = n + 1 => FirstLine[n + 1] = Newline)
        BY <2>1, <2>3
    <2> QED BY <2>2, <2>3, <2>4
<1>2a. Size \in 0..Len(FirstLine) /\ Size \in 0..n /\ n - Size \in Nat
    BY <1>1, <1>2
<1>3. /\ text \in Seq(STRING) /\ Len(text) = Len(FirstLine) - Size
      /\ \A k \in 1..Len(FirstLine) - Size : text[k] = FirstLine[Size + k]
    BY <1>2, <1>2a, DropFacts
<1>4. /\ u \in Seq(STRING) /\ Len(u) = n - Size
      /\ \A k \in 1..n - Size : u[k] = input[Consumed + (Size + k)]
    <2>1. m \in Int /\ e \in Int /\ \A k \in m..e : input[k] \in STRING
        BY <1>1, <1>2, ElementOfSeq
    <2>2. /\ u \in Seq(STRING) /\ Len(u) = IF m <= e THEN e - m + 1 ELSE 0
          /\ \A k \in 1..e - m + 1 : u[k] = input[m + k - 1]
        <3> HIDE DEF m, e
        <3> QED BY <2>1, SubSeqProperties
    <2>3. Len(u) = n - Size
        BY <1>1, <1>2, <2>2
    <2>4. ASSUME NEW k \in 1..n - Size PROVE u[k] = input[Consumed + (Size + k)]
        <3>1. k \in 1..e - m + 1 /\ m + k - 1 = Consumed + (Size + k)
            BY <1>1, <1>2
        <3> QED BY <2>2, <3>1
    <2> QED BY <2>2, <2>3, <2>4
<1>5. \A k \in 1..n - Size : u[k] = FirstLine[Size + k]
    <2>1. ASSUME NEW k \in 1..n - Size PROVE input[Consumed + (Size + k)] = FirstLine[Size + k]
        <3> DEFINE i == Size + k
        <3>1. i \in 1..n /\ Consumed + 1 + i - 1 = Consumed + i
            BY <1>1, <1>2a
        <3> HIDE DEF i
        <3>2. FirstLine[i] = input[Consumed + i]
            BY <1>2, <3>1
        <3> QED BY <3>2 DEF i
    <2> QED BY <1>4, <2>1
<1> HIDE DEF text, u
<1>6. text = u \o w
    <2>1. CASE Len(FirstLine) = n
        <3>1. w = <<>>
            BY <1>1, <2>1 DEF Taken
        <3>2. Len(text) = Len(u) /\ \A k \in 1..Len(text) : text[k] = u[k]
            BY <1>1, <1>2, <1>3, <1>4, <1>5, <2>1
        <3>3. text = u
            BY <1>3, <1>4, <3>2, SeqEqual
        <3> QED BY <1>4, <3>1, <3>3
    <2>2. CASE Len(FirstLine) # n
        <3>1. w = <<Newline>> /\ Len(FirstLine) = n + 1
            BY <1>1, <2>2 DEF Taken
        <3>2. <<Newline>> \in Seq(STRING) /\ Len(<<Newline>>) = 1 /\ <<Newline>>[1] = Newline
            <4> DEFINE V == STRING
            <4>1. Newline \in V
                BY BytesAssumption
            <4> HIDE DEF V
            <4>2. <<Newline>> \in Seq(V)
                BY <4>1
            <4> QED BY <4>2 DEF V
        <3>3. /\ u \o w \in Seq(STRING) /\ Len(u \o w) = n - Size + 1
              /\ \A k \in 1..n - Size : (u \o w)[k] = u[k]
              /\ (u \o w)[n - Size + 1] = Newline
            <4>1. /\ u \o w \in Seq(STRING) /\ Len(u \o w) = Len(u) + Len(w)
                  /\ \A i \in 1..Len(u) + Len(w) :
                       (u \o w)[i] = IF i <= Len(u) THEN u[i] ELSE w[i - Len(u)]
                BY <1>4, <3>1, <3>2, ConcatProperties
            <4>2. n - Size \in Nat /\ Len(w) = 1 /\ w[1] = Newline
                BY <1>1, <1>2, <3>1, <3>2
            <4> HIDE DEF w
            <4> QED BY <1>4, <4>1, <4>2
        <3>4. Len(text) = n - Size + 1 /\ text[n - Size + 1] = Newline
            <4>1. n - Size + 1 \in 1..Len(FirstLine) - Size /\ Size + (n - Size + 1) = n + 1
                BY <1>1, <1>2, <3>1
            <4> QED BY <1>2, <1>3, <3>1, <4>1
        <3>5. \A k \in 1..n - Size : text[k] = u[k]
            BY <1>1, <1>2, <1>3, <1>5, <3>1
        <3>6. \A k \in 1..Len(text) : text[k] = (u \o w)[k]
            <4>1. \A k \in 1..Len(text) : k \in 1..n - Size \/ k = n - Size + 1
                BY <1>2a, <3>4
            <4> HIDE DEF w
            <4> QED BY <3>3, <3>4, <3>5, <4>1
        <3> HIDE DEF w
        <3> QED BY <1>3, <3>3, <3>4, <3>6, SeqEqual
    <2> QED BY <2>1, <2>2
<1>7. e \in Ends(input)
    <2>1. DoneEnds' = DoneEnds \cup {e} /\ Ends(input)' = Ends(input)
        BY NextEnds, TakenFacts
    <2> QED BY <2>1 DEF DoneEnds
<1>8. Entry(input, e) = [level |-> LineLevel(input, Line), text |-> text]
    <2>1. n \in 1..n
        BY <1>1
    <2>2. LineOf(input, e) = Line /\ Column(input, e) = n - 1
        BY <2>1, InLine DEF Taken
    <2>3. e - Column(input, e) = Consumed + 1
        BY <1>1, <2>2
    <2>4. Entry(input, e) = [level |-> LineLevel(input, Line),
                             text  |-> SubSeq(input, Consumed + 1 + Size, e) \o w]
        BY <1>1, <2>2, <2>3 DEF Entry, Size
    <2> QED BY <1>6, <2>4 DEF u
<1>9. EntryAt[e] = Entry(input, e)
    BY <1>7 DEF EntryAt
<1>10. text # <<>>
    BY <1>2, <1>3
<1> QED BY <1>3, <1>8, <1>9, <1>10 DEF text

\* A newline that has been put after the bytes comes last.
LEMMA TaggedNewline ==
    ASSUME NEW V, NEW q \in Seq(V), NEW l, NEW S, NEW r \in Seq(S), NEW fresh \in Seq(S),
           Tagged(l, r) \in Seq(V), NEW c, NEW b \in V, b = [level |-> l, byte |-> c],
           Len(fresh) = Len(r) + 1, \A k \in 1..Len(r) : fresh[k] = r[k],
           fresh[Len(r) + 1] = c
    PROVE  q \o Tagged(l, fresh) = Append(q \o Tagged(l, r), b)
<1> DEFINE t == Tagged(l, r)
           u == Tagged(l, fresh)
<1>1. /\ Len(r) \in Nat /\ Len(t) = Len(r)
      /\ \A k \in 1..Len(r) : t[k] = [level |-> l, byte |-> r[k]]
    BY DEF Tagged
<1>2. /\ Len(u) = Len(r) + 1 /\ \A k \in 1..Len(r) : u[k] = t[k]
      /\ u[Len(r) + 1] = b
      /\ u = [k \in 1..Len(r) + 1 |-> IF k <= Len(r) THEN t[k] ELSE b]
    <2>1. u = [k \in 1..Len(r) + 1 |-> [level |-> l, byte |-> fresh[k]]]
        BY DEF Tagged
    <2>2. \A k \in 1..Len(r) + 1 : [level |-> l, byte |-> fresh[k]] =
                                     IF k <= Len(r) THEN t[k] ELSE b
        BY <1>1
    <2> HIDE DEF u, t
    <2> QED BY <1>1, <2>1, <2>2
<1> HIDE DEF t, u
<1>3. u = Append(t, b)
    <2>1. t \in Seq(V) /\ b \in V
        BY DEF t
    <2>2. u \in Seq(V)
        <3>1. \A k \in 1..Len(r) + 1 : (IF k <= Len(r) THEN t[k] ELSE b) \in V
            BY <1>1, <2>1
        <3> QED BY <1>1, <1>2, <3>1
    <2>3. /\ Append(t, b) \in Seq(V) /\ Len(Append(t, b)) = Len(r) + 1
          /\ Append(t, b)[Len(r) + 1] = b
          /\ \A k \in 1..Len(r) : Append(t, b)[k] = t[k]
        BY <1>1, <2>1, AppendFacts
    <2>4. \A k \in 1..Len(u) : u[k] = Append(t, b)[k]
        BY <1>1, <1>2, <2>3
    <2> QED BY <1>2, <2>2, <2>3, <2>4, SeqEqual
<1>4. Append(t, b) = t \o <<b>> /\ Append(q \o t, b) = (q \o t) \o <<b>>
    <2>1. t \in Seq(V) /\ b \in V /\ q \o t \in Seq(V)
        BY ConcatProperties DEF t
    <2> QED BY <2>1, AppendIsConcat
<1>5. q \o (t \o <<b>>) = (q \o t) \o <<b>>
    <2>1. t \in Seq(V) /\ <<b>> \in Seq(V)
        BY DEF t
    <2> QED BY <2>1, ConcatAssociative
<1> QED BY <1>3, <1>4, <1>5 DEF t, u

LEMMA NextShownOK ==
    ASSUME LinesIInv, CompleteLine, NEW n, Taken(n), Line \notin Directives(input),
           LineLevel(input, Line) \in 0..MaxLevel,
           shown' = shown \o Tagged(LineLevel(input, Line),
                                    IF processed > 0 THEN Drop(FirstLine, processed)
                                    ELSE Drop(FirstLine, Size))
    PROVE  ShownOK'
<1> DEFINE V    == [level : 0..MaxLevel, byte : STRING]
           e    == Consumed + n
           l    == LineLevel(input, Line)
           fresh  == Drop(FirstLine, From)
           r    == SubSeq(buf, From + 1, n)
           more == Evens(Consumed + From + 1, n - From)
           evens == {2 * i : i \in {k \in Kept(input) : k <= e}}
           odds == {2 * i + 1 : i \in {k \in DoneEnds : input[k] # Newline}}
<1>1. /\ Consumed \in Nat /\ Len(input) \in Nat /\ Len(buf) \in Nat
      /\ n \in 1..Len(buf) /\ processed <= n /\ processed \in Nat /\ e \in Nat /\ n \in Nat
      /\ Consumed' = e /\ input' = input /\ processed' = 0
      /\ Kept(input)' = Kept(input) /\ ByteAt' = ByteAt
      /\ OneLine(n) /\ IsPiece(FirstLine, input, Consumed + 1, n)
    BY TakenFacts DEF Taken
<1>2. Size \in Nat /\ Size < Len(FirstLine) /\ Size <= n
    BY <1>1, PrefixFits DEF Taken
<1>3. /\ From \in processed..n
      /\ \A k \in processed + 1..n : Consumed + k \in Kept(input) <=> k > From
      /\ From = IF processed > 0 THEN processed ELSE Size
    BY <1>1, <1>2, FromFacts
<1>4. From \in Nat /\ From <= n /\ From \in 0..n /\ n - From \in Nat
    BY <1>1, <1>3
<1>5. shown' = shown \o Tagged(l, fresh)
    BY <1>3
<1>6. /\ r \in Seq(STRING) /\ Len(r) = n - From
      /\ \A k \in 1..n - From : r[k] = buf[From + k]
    <2>1. buf \in Seq(STRING) /\ \A k \in From + 1..n : buf[k] \in STRING
        BY <1>1, <1>4, ElementOfSeq DEF LinesIInv, BufferOK
    <2>2. /\ r \in Seq(STRING) /\ Len(r) = IF From + 1 <= n THEN n - (From + 1) + 1 ELSE 0
          /\ \A k \in 1..n - (From + 1) + 1 : r[k] = buf[From + 1 + k - 1]
        BY <1>1, <1>4, <2>1, SubSeqProperties
    <2> QED BY <1>1, <1>4, <2>2
<1>7. /\ shown \o Tagged(l, r) \in Seq(V)
      /\ InOrder(shown \o Tagged(l, r), DoneBytes \cup more, ByteAt)
      /\ evens = {2 * i : i \in {k \in Kept(input) : k <= Consumed + processed}} \cup more
    <2>1. /\ \A k \in processed + 1..n : Consumed + k \in Kept(input) <=> k > From
          /\ From \in processed..n /\ OneLine(n) /\ r \in Seq(STRING) /\ Len(r) = n - From
          /\ \A k \in 1..n - From : r[k] = buf[From + k]
        BY <1>1, <1>3, <1>6
    <2> HIDE DEF r
    <2> QED BY <2>1, ShowInOrder
<1>8. /\ FirstLine \in Seq(STRING) /\ Len(FirstLine) \in {n, n + 1}
      /\ \A k \in 1..n : FirstLine[k] = buf[k]
    <2>1. /\ FirstLine \in Seq(STRING) /\ Len(FirstLine) \in {n, n + 1}
          /\ \A k \in 1..n : FirstLine[k] = input[Consumed + 1 + k - 1]
        BY <1>1 DEF IsPiece
    <2>2. \A k \in 1..n : buf[k] = input[Consumed + k]
        BY <1>1, InLine
    <2>3. \A k \in 1..n : Consumed + 1 + k - 1 = Consumed + k
        BY <1>1
    <2> QED BY <2>1, <2>2, <2>3
<1>9. /\ fresh \in Seq(STRING) /\ Len(fresh) = Len(FirstLine) - From
      /\ \A k \in 1..Len(FirstLine) - From : fresh[k] = FirstLine[From + k]
    <2>1. From \in 0..Len(FirstLine)
        BY <1>1, <1>4, <1>8
    <2> QED BY <1>8, <2>1, DropFacts
<1>10. \A k \in 1..n - From : fresh[k] = r[k]
    <2> SUFFICES ASSUME NEW k \in 1..n - From PROVE fresh[k] = r[k]
        OBVIOUS
    <2> DEFINE i == From + k
    <2>1. i \in 1..n /\ k \in 1..Len(FirstLine) - From
        BY <1>1, <1>4, <1>8
    <2>2. r[k] = buf[i] /\ fresh[k] = FirstLine[i]
        BY <1>6, <1>9, <2>1
    <2> HIDE DEF i, r, fresh
    <2> QED BY <1>8, <2>1, <2>2
<1>11. DoneEnds' = DoneEnds \cup {e}
    BY NextEnds
<1>12. DoneBytes' = evens \cup {2 * i + 1 : i \in {k \in DoneEnds \cup {e} : input[k] # Newline}}
    <2>1. Consumed' + processed' = e
        BY <1>1
    <2> HIDE DEF e
    <2> QED BY <1>1, <1>11, <2>1 DEF DoneBytes
<1>13. DoneBytes \cup more = evens \cup odds
    BY <1>7 DEF DoneBytes
<1> HIDE DEF V, e, l, fresh, r, more, evens, odds
<1>14. CASE Len(FirstLine) = n
    <2>1. input[e] = Newline
        BY <1>1, <1>14 DEF Taken, e
    <2>2. DoneBytes' = DoneBytes \cup more
        BY <1>12, <1>13, <2>1 DEF odds
    <2>3. fresh = r
        BY <1>6, <1>9, <1>10, <1>14, SeqEqual
    <2> QED BY <1>1, <1>5, <1>7, <2>2, <2>3 DEF ShownOK, V
<1>15. CASE Len(FirstLine) # n
    <2> DEFINE x == 2 * e + 1
               b == [level |-> l, byte |-> Newline]
               q == shown \o Tagged(l, r)
    <2>1. input[e] # Newline /\ Len(FirstLine) = n + 1 /\ FirstLine[n + 1] = Newline
        BY <1>8, <1>15 DEF Taken, e
    <2>2. DoneBytes' = (DoneBytes \cup more) \cup {x}
        BY <1>12, <1>13, <2>1 DEF odds
    <2>3. Len(fresh) = Len(r) + 1 /\ Len(r) \in Nat /\ fresh[Len(r) + 1] = Newline
        <3>1. n + 1 - From \in 1..Len(FirstLine) - From /\ From + (n + 1 - From) = n + 1
              /\ n + 1 - From = n - From + 1
            BY <1>1, <1>4, <2>1
        <3> QED BY <1>4, <1>6, <1>9, <2>1, <3>1
    <2>4. b \in V
        <3>1. l \in 0..MaxLevel /\ Newline \in STRING
            BY BytesAssumption DEF l
        <3> DEFINE S == STRING
        <3>2. Newline \in S
            BY <3>1
        <3> HIDE DEF S
        <3>3. b \in [level : 0..MaxLevel, byte : S]
            BY <3>1, <3>2
        <3> QED BY <3>3 DEF V, S
    <2>5. shown \in Seq(V) /\ Tagged(l, r) \in Seq(V)
        <3>1. \A k \in 1..Len(r) : r[k] \in STRING
            BY <1>6, ElementOfSeq
        <3>2. Tagged(l, r) = [k \in 1..Len(r) |-> [level |-> l, byte |-> r[k]]]
            BY DEF Tagged
        <3>3. \A k \in 1..Len(r) : [level |-> l, byte |-> r[k]] \in V
            BY <3>1 DEF V, l
        <3>4. shown \in Seq(V)
            BY DEF LinesIInv, ShownOK, V
        <3> QED BY <2>3, <3>2, <3>3, <3>4
    <2>6. shown' = Append(q, b)
        <3>1. /\ \A k \in 1..Len(r) : fresh[k] = r[k]
              /\ r \in Seq(STRING) /\ fresh \in Seq(STRING)
            BY <1>6, <1>9, <1>10
        <3> DEFINE S == STRING
        <3>2. r \in Seq(S) /\ fresh \in Seq(S)
            BY <3>1
        <3>3. b \in V /\ b = [level |-> l, byte |-> Newline]
            BY <2>4
        <3> HIDE DEF S, b
        <3>4. shown \o Tagged(l, fresh) = Append(shown \o Tagged(l, r), b)
            BY <2>3, <2>5, <3>1, <3>2, <3>3, TaggedNewline
        <3> QED BY <1>5, <3>4
    <2>7. ByteAt[x] = b
        <3>1. e \in Ends(input)
            BY <1>11, TakenFacts DEF DoneEnds
        <3>2. e \in Nat /\ x \div 2 = e /\ x % 2 = 1
            BY <1>1
        <3>3. x \in Bytes(input)
            BY <2>1, <3>1 DEF Bytes
        <3>4. LineOf(input, e) = Line
            <4>1. n \in 1..n
                BY <1>1
            <4> QED BY <1>1, <4>1, InLine DEF e
        <3> HIDE DEF x
        <3>5. Byte(input, x) = b
            BY <3>2, <3>4 DEF Byte, l
        <3> QED BY <3>3, <3>5 DEF ByteAt
    <2>8. /\ DoneBytes \cup more \in SUBSET Nat
          /\ \A y \in DoneBytes \cup more : y < x
        <3>1. \A k \in Kept(input) : k \in Nat
            BY <1>1 DEF Kept
        <3>2. \A k \in DoneEnds : k \in Nat /\ k <= Consumed
            BY <1>1 DEF DoneEnds, Ends
        <3>3. Consumed < e /\ e \in Nat
            BY <1>1 DEF e
        <3> QED BY <1>1, <1>13, <3>1, <3>2, <3>3 DEF evens, odds
    <2>9. x \in Nat
        BY <1>1
    <2>10. IsFiniteSet(DoneBytes \cup more)
        <3>1. \A y \in DoneBytes \cup more : y <= x
            BY <2>8, <2>9
        <3> QED BY <2>8, <2>9, <3>1, FS_BoundedSetOfNaturals
    <2> HIDE DEF x, b, q
    <2>11. InOrder(Append(q, ByteAt[x]), (DoneBytes \cup more) \cup {x}, ByteAt)
        BY <1>7, <2>4, <2>7, <2>8, <2>9, <2>10, AppendInOrder DEF q
    <2>12. Append(q, b) \in Seq(V)
        BY <1>7, <2>4, AppendFacts DEF q
    <2> QED BY <1>1, <2>2, <2>6, <2>7, <2>11, <2>12 DEF ShownOK, V
<1> QED BY <1>14, <1>15

LEMMA CompleteLine_IInv == LinesIInv /\ CompleteLine => LinesIInv'
<1> SUFFICES ASSUME LinesIInv, CompleteLine PROVE LinesIInv'
    OBVIOUS
<1> DEFINE parsed == IF prefix < 0 THEN ParseLevelPrefix(FirstLine)
                     ELSE [size |-> prefix, level |-> level,
                           parse |-> parse, default |-> default]
           text   == Drop(FirstLine, parsed.size)
           fresh    == IF processed > 0 THEN Drop(FirstLine, processed) ELSE text
<1>1. PICK n : Taken(n)
    BY TakesLine
<1>2. BufferOK' /\ Len(buf') <= BufSize
    BY TakesLine
<1>3. /\ lines' = IF text = <<>> THEN lines
                  ELSE Append(lines, [level |-> parsed.level, text |-> text])
      /\ shown' = shown \o Tagged(parsed.level, fresh)
      /\ level' = parsed.level /\ parse' = parsed.parse /\ default' = parsed.default
      /\ processed' = 0 /\ loop' = loop /\ loop = "split" /\ eof' = eof
    BY DEF CompleteLine
<1>4. parsed = Parsed(FirstLine)
    BY DEF Parsed
<1>5. /\ prefix' \in {-1, 0} /\ Consumed' = Consumed + n
      /\ FirstLine[Len(FirstLine)] = Newline /\ OneLine(n)
      /\ IsPiece(FirstLine, input, Consumed + 1, n)
      /\ FirstLine \in Seq(STRING) /\ Len(FirstLine) \in {n, n + 1} /\ n \in Nat
    BY <1>1 DEF Taken, IsPiece, OneLine
<1>6. /\ Size \in Nat /\ Size < Len(FirstLine)
    BY <1>5, PrefixFits
<1> HIDE DEF parsed
<1>7. \/ /\ Line \in Directives(input) /\ Line = Consumed + 1
         /\ processed = 0 /\ HasTag(input, Line, Directive)
         /\ Len(FirstLine) = Len(Directive) + 4
         /\ parsed = Directed(Len(FirstLine), LevelOf[input[Line + Len(Directive) + 1]])
      \/ /\ Line \notin Directives(input) /\ LineLevel(input, Line) \in 0..MaxLevel
         /\ parsed = [size |-> Size, level |-> LineLevel(input, Line),
                      parse |-> parse, default |-> default]
    BY <1>4, <1>5, KnownLine
<1>8. LinesTypeOK'
    <2>1. /\ parsed.parse \in BOOLEAN /\ parsed.default \in 0..MaxLevel
          /\ parsed.level \in 0..MaxLevel
        <3>1. parse \in BOOLEAN /\ default \in 0..MaxLevel /\ MaxLevel \in Nat
            BY BytesAssumption DEF LinesIInv, LinesTypeOK
        <3>2. ASSUME HasTag(input, Line, Directive)
              PROVE  LevelOf[input[Line + Len(Directive) + 1]] \in 0..MaxLevel
            BY <3>1, <3>2, BytesAssumption DEF HasTag, IsDigit
        <3>3. CASE Line \in Directives(input)
            <4>1. parsed.parse = FALSE /\
                  parsed.level = LevelOf[input[Line + Len(Directive) + 1]] /\
                  parsed.default = LevelOf[input[Line + Len(Directive) + 1]]
                BY <1>7, <3>3 DEF Directed
            <4> QED BY <1>7, <3>2, <3>3, <4>1
        <3>4. CASE Line \notin Directives(input)
            BY <1>7, <3>1, <3>4
        <3> QED BY <3>3, <3>4
    <2>2. Len(buf') \in Nat
        BY <1>2 DEF BufferOK
    <2>3. eof \in BOOLEAN
        BY DEF LinesIInv, LinesTypeOK
    <2>4. processed' \in 0..Len(buf') /\ prefix' \in -1..Len(buf') /\ ~(processed' > 0)
        BY <1>3, <1>5, <2>2
    <2> QED BY <1>2, <1>3, <2>1, <2>3, <2>4 DEF LinesTypeOK
<1>9. CASE /\ Line \in Directives(input) /\ Line = Consumed + 1
           /\ processed = 0 /\ HasTag(input, Line, Directive)
           /\ Len(FirstLine) = Len(Directive) + 4
           /\ parsed = Directed(Len(FirstLine), LevelOf[input[Line + Len(Directive) + 1]])
    <2>1. /\ parsed.size = Len(FirstLine) /\ parsed.parse = FALSE
          /\ parsed.default = LevelOf[input[Line + Len(Directive) + 1]]
        BY <1>9 DEF Directed
    <2>2. text = <<>> /\ fresh = <<>>
        <3>1. Drop(FirstLine, Len(FirstLine)) = <<>>
            BY <1>5, DropFacts, EmptySeq
        <3> QED BY <1>9, <2>1, <3>1
    <2> HIDE DEF text, fresh
    <2>3. lines' = lines /\ shown' = shown
        <3>1. Tagged(parsed.level, <<>>) = <<>>
            BY DEF Tagged
        <3>2. shown \o <<>> = shown
            BY ConcatEmptySeq DEF LinesIInv, ShownOK
        <3> QED BY <1>3, <2>2, <3>1, <3>2
    <2>4. LineOK'
        <3>1. ~(Len(FirstLine) # n /\ n = BufSize)
            BY <1>5, <1>9, DirectiveFacts
        <3> QED BY <1>1, <3>1, NextLineOK
    <2>5. DirectiveOK'
        BY <1>1, <1>3, <1>9, <2>1, NextDirectiveOK
    <2>6. DoneEnds' = DoneEnds /\ Ends(input)' = Ends(input) /\ EntryAt' = EntryAt
          /\ Kept(input)' = Kept(input) /\ ByteAt' = ByteAt /\ input' = input
        BY <1>1, <1>9, NextEnds, TakenFacts
    <2>7. DoneBytes' = DoneBytes
        <3>1. \A k \in 1..n : Consumed + k \notin Kept(input)
            BY <1>5, <1>9, KeptInLine
        <3>2. Consumed \in Nat /\ \A i \in Kept(input) : i \in Nat
            BY <1>1, TakenFacts DEF Kept
        <3>3. ASSUME NEW i \in Kept(input) PROVE i <= Consumed + n <=> i <= Consumed
            <4> SUFFICES ASSUME i <= Consumed + n, ~(i <= Consumed) PROVE FALSE
                BY <1>5, <3>2
            <4> DEFINE k == i - Consumed
            <4>1. k \in 1..n /\ Consumed + k = i
                BY <1>5, <3>2
            <4> HIDE DEF k
            <4> QED BY <3>1, <4>1
        <3>4. Consumed' + processed' = Consumed + n /\ Consumed + processed = Consumed
            BY <1>3, <1>5, <1>9, <3>2
        <3>5. {k \in Kept(input) : k <= Consumed + n} = {k \in Kept(input) : k <= Consumed}
            BY <3>3
        <3> QED BY <2>6, <3>4, <3>5 DEF DoneBytes
    <2>8. LinesOK' /\ ShownOK'
        BY <2>3, <2>6, <2>7 DEF LinesIInv, LinesOK, ShownOK
    <2> QED BY <1>2, <1>8, <2>4, <2>5, <2>8 DEF LinesIInv
<1>10. CASE /\ Line \notin Directives(input) /\ LineLevel(input, Line) \in 0..MaxLevel
            /\ parsed = [size |-> Size, level |-> LineLevel(input, Line),
                         parse |-> parse, default |-> default]
    <2> DEFINE l == LineLevel(input, Line)
               entry == [level |-> l, text |-> Drop(FirstLine, Size)]
               e == Consumed + n
    <2>1. /\ parsed.size = Size /\ parsed.level = l
          /\ parsed.parse = parse /\ parsed.default = default
        BY <1>10
    <2>2. /\ EntryAt[e] = entry
          /\ Drop(FirstLine, Size) \in Seq(STRING) /\ Drop(FirstLine, Size) # <<>>
        BY <1>1, <1>10, EntryOfLine
    <2>3. lines' = Append(lines, entry) /\ level' = l /\ parse' = parse /\ default' = default
        BY <1>3, <2>1, <2>2
    <2>4. shown' = shown \o Tagged(l, IF processed > 0 THEN Drop(FirstLine, processed)
                                      ELSE Drop(FirstLine, Size))
        BY <1>3, <2>1
    <2>5. LineOK'
        BY <1>1, <1>10, <2>3, NextLineOK
    <2>6. DirectiveOK'
        BY <1>1, <1>10, <2>3, NextDirectiveOK
    <2>7. ShownOK'
        BY <1>1, <1>10, <2>4, NextShownOK
    <2>8. LinesOK'
        <3>1. DoneEnds' = DoneEnds \cup {e} /\ EntryAt' = EntryAt
            BY <1>1, <1>10, NextEnds, TakenFacts
        <3>2. /\ DoneEnds \in SUBSET Nat /\ IsFiniteSet(DoneEnds)
              /\ \A x \in DoneEnds : x <= Consumed
            BY DoneFacts DEF LinesIInv, LinesTypeOK
        <3>3. e \in Nat /\ Consumed < e /\ Consumed \in Nat
            BY <1>1, TakenFacts
        <3>4. \A x \in DoneEnds : x < e
            BY <3>2, <3>3
        <3> DEFINE V == [level : 0..MaxLevel, text : Seq(STRING)]
        <3>5. lines \in Seq(V) /\ InOrder(lines, DoneEnds, EntryAt) /\ entry \in V
            BY <1>10, <2>2 DEF LinesIInv, LinesOK
        <3> HIDE DEF V, e, entry
        <3>6. InOrder(Append(lines, EntryAt[e]), DoneEnds \cup {e}, EntryAt)
            BY <2>2, <3>2, <3>3, <3>4, <3>5, AppendInOrder
        <3>7. Append(lines, entry) \in Seq(V)
            BY <3>5, AppendFacts
        <3> QED BY <2>2, <2>3, <3>1, <3>6, <3>7 DEF LinesOK, V
    <2> QED BY <1>2, <1>8, <2>5, <2>6, <2>7, <2>8 DEF LinesIInv
<1> QED BY <1>7, <1>9, <1>10

-----------------------------------------------------------------------------
(* The theorems.                                                           *)

\* What the code has logged is right for what it has taken from its buffer,
\* whatever the input and however read() divides it.
THEOREM LinesInvariance == LinesSpec => []LinesIInv
<1>1. LinesIInv /\ [LinesNext]_linesVars => LinesIInv'
    BY Read_IInv, CompleteLine_IInv, PartialLine_IInv, Stutter_IInv DEF LinesNext
<1> QED BY LinesInit_IInv, <1>1, PTL DEF LinesSpec

\* The variables of _srt_logger_process() have their types, and its assertions
\* hold: there is always room in the buffer for read().
THEOREM LinesTypeCorrect == LinesSpec => []LinesTypeOK
<1>1. LinesIInv => LinesTypeOK
    BY DEF LinesIInv
<1> QED BY LinesInvariance, <1>1, PTL

\* When the input has ended, a log file has got its lines with their levels,
\* and a terminal the same text, for every input of any length.
THEOREM LogsWhatIsWritten == LinesSpec => []LogsTheInput
<1>1. LinesIInv => LogsTheInput
    <2> SUFFICES ASSUME LinesIInv, loop = "done" PROVE LogsTheInput
        BY DEF LogsTheInput
    <2>1. buf = <<>> /\ rest = <<>>
        BY DEF LinesIInv, BufferOK
    <2>2. /\ Consumed = Len(input) /\ Len(input) \in Nat /\ processed = 0
        <3>1. /\ Len(buf) = 0 /\ Len(rest) = 0 /\ Len(input) \in Nat /\ Consumed \in Nat
              /\ Len(input) = Consumed + Len(buf) + Len(rest)
            BY <2>1, BufferFacts DEF LinesIInv
        <3> QED BY <3>1 DEF LinesIInv, LinesTypeOK
    <2>3. /\ \A i \in Ends(input) : i <= Consumed
          /\ \A i \in Kept(input) : i <= Consumed + processed
        BY <2>2 DEF Ends, Kept
    <2>4. DoneEnds = Ends(input) /\ DoneBytes = Bytes(input)
        BY <2>3 DEF DoneEnds, DoneBytes, Bytes
    <2> QED BY <2>4 DEF LinesIInv, LinesOK, ShownOK, EntryAt, ByteAt, LogsTheInput
<1> QED BY LinesInvariance, <1>1, PTL
=============================================================================
