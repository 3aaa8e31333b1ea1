----------------------- MODULE ResolveInSysrootProofs -----------------------
(***************************************************************************)
(* Proofs about ResolveInSysroot, for any file system, path and flags:      *)
(* whatever symbolic links and ".." do, the file descriptor on top of the   *)
(* stack is that of the file that current_path names, each below the one    *)
(* before it with the root at the bottom; nothing that was there is        *)
(* replaced; and what is opened, or why it fails, is what PathLookup says.  *)
(*                                                                         *)
(* PathIsTrue is inductive with the types (IInv): both ends are cut and     *)
(* extended together, although one keeps file descriptors and the other    *)
(* one names.  For ResolvesLikeKernel the invariant is WalkInv: in the tree *)
(* as it is, and in each that adds to it, the kernel finds for the whole    *)
(* path what it finds for the rest of it from here.  The code splices the  *)
(* target of a link into the rest of the path, where the kernel looks it up *)
(* on its own: PathDivides says that both come to the same.                *)
(***************************************************************************)
EXTENDS PathLookup, SequenceTheorems, NaturalsInduction, WellFoundedInduction, TLAPS

IInv == PathTypeOK /\ PathIsTrue /\ OnlyAdds

-----------------------------------------------------------------------------
(* Sequences.                                                              *)

LEMMA FrontIs ==
    ASSUME NEW S, NEW s \in Seq(S), Len(s) > 0
    PROVE  /\ Front(s) \in Seq(S) /\ Len(Front(s)) = Len(s) - 1
           /\ \A i \in 1 .. Len(s) - 1 : Front(s)[i] = s[i]
<1> DEFINE n == Len(s) - 1
<1>1. n \in Nat /\ n <= Len(s) /\ Front(s) = SubSeq(s, 1, n)
  BY DEF Front
<1>2. \A i \in 1 .. n : s[i] \in S
  BY <1>1
<1> HIDE DEF n
<1>3. /\ SubSeq(s, 1, n) \in Seq(S)
      /\ Len(SubSeq(s, 1, n)) = IF 1 <= n THEN n - 1 + 1 ELSE 0
      /\ \A i \in 1 .. n - 1 + 1 : SubSeq(s, 1, n)[i] = s[1 + i - 1]
  <2>1. 1 \in Int /\ n \in Int  BY <1>1
  <2> QED  BY <2>1, <1>2, SubSeqProperties
<1>4. Len(SubSeq(s, 1, n)) = n /\ \A i \in 1 .. n : SubSeq(s, 1, n)[i] = s[i]
  BY <1>1, <1>3
<1> QED  BY <1>1, <1>3, <1>4 DEF n

LEMMA LastIs ==
    ASSUME NEW S, NEW s \in Seq(S), Len(s) > 0
    PROVE  Last(s) = s[Len(s)] /\ Last(s) \in S
BY DEF Last

\* A shorter sequence has the same beginnings.
LEMMA PrefixOfFront ==
    ASSUME NEW S, NEW s \in Seq(S), Len(s) > 0, NEW i \in 0 .. Len(s) - 1
    PROVE  SubSeq(Front(s), 1, i) = SubSeq(s, 1, i)
BY DEF Front

LEMMA PrefixOfAppend ==
    ASSUME NEW S, NEW s \in Seq(S), NEW e \in S, NEW i \in 0 .. Len(s)
    PROVE  /\ SubSeq(Append(s, e), 1, i) = SubSeq(s, 1, i)
           /\ SubSeq(Append(s, e), 1, Len(s) + 1) = Append(s, e)
           /\ SubSeq(s, 1, Len(s)) = s
OBVIOUS

-----------------------------------------------------------------------------
(* Initial states.                                                         *)

LEMMA InitInv == ASSUME WellFormed, PathInit PROVE IInv
<1>1. PathTypeOK
  <2>1. descendant.parts \in Seq(Components) /\ descendant.slash \in BOOLEAN /\ tree \in Trees
    BY DEF WellFormed, PathInit
  <2>2. fds \in Seq(Seq(Names)) /\ current_path \in Seq(Names)
    BY DEF PathInit, Root
  <2> QED  BY <2>1, <2>2 DEF WellFormed, FileSystem, Root, PathInit, PathTypeOK
<1>2. PathIsTrue
  <2>1. fds = <<Root>> /\ current_path = <<>> /\ Root \in DOMAIN tree
    BY <1>1 DEF PathInit, PathTypeOK
  <2>2. \A i \in DOMAIN fds : i = 1 /\ fds[i] = <<>>
    BY <2>1 DEF Root
  <2>3. SubSeq(current_path, 1, 0) = <<>>
    BY <2>1
  <2>4. Len(fds) = 1 /\ Len(current_path) = 0
    BY <2>1
  <2>5. \A i \in DOMAIN fds : fds[i] = SubSeq(current_path, 1, i - 1)
    <3>1. 1 - 1 = 0
      OBVIOUS
    <3> QED  BY <2>2, <2>3, <3>1
  <2> QED  BY <2>1, <2>2, <2>4, <2>5 DEF PathIsTrue, Root
<1>3. OnlyAdds
  BY DEF PathInit, OnlyAdds
<1> QED  BY <1>1, <1>2, <1>3 DEF IInv

-----------------------------------------------------------------------------
(* What a step does to the stack.                                          *)

\* The top of the stack is where current_path leads.
LEMMA TopIsPath ==
    ASSUME PathTypeOK, PathIsTrue
    PROVE  /\ Len(fds) > 0 /\ Len(fds) \in Nat /\ Len(current_path) \in Nat
           /\ Last(fds) = current_path /\ Last(fds) \in DOMAIN tree
<1>1. /\ Len(fds) > 0 /\ Len(fds) \in Nat /\ Len(current_path) \in Nat
      /\ Len(fds) \in DOMAIN fds
  BY DEF PathTypeOK, PathIsTrue
<1>2. Last(fds) = fds[Len(fds)]
  BY <1>1, LastIs DEF PathTypeOK
<1>3. fds[Len(fds)] = SubSeq(current_path, 1, Len(current_path))
  BY <1>1 DEF PathIsTrue
<1>4. SubSeq(current_path, 1, Len(current_path)) = current_path
  BY SubSeqFull DEF PathTypeOK
<1> QED  BY <1>1, <1>2, <1>3, <1>4 DEF PathIsTrue

\* Descending by one component extends both.
LEMMA EnterKeeps ==
    ASSUME PathTypeOK, PathIsTrue, Named, Enter,
           DOMAIN tree \subseteq DOMAIN tree', Found \in DOMAIN tree'
    PROVE  /\ fds' \in Seq(Seq(Names)) /\ current_path' \in Seq(Names)
           /\ remaining' \in Seq(Components)
           /\ PathIsTrue'
<1>1. Next1 \in Names /\ remaining' \in Seq(Components)
  <2>1. remaining # <<>> /\ remaining \in Seq(Components)
    BY DEF Named, Walking, PathTypeOK
  <2>2. Head(remaining) \in Components /\ Tail(remaining) \in Seq(Components)
    BY <2>1, HeadTailProperties
  <2> QED  BY <2>2 DEF Named, Next1, Components, Enter
<1>2. Found = current_path' /\ current_path' = Append(current_path, Next1)
  BY TopIsPath DEF Found, Enter
<1>3. current_path' \in Seq(Names) /\ Len(current_path') = Len(current_path) + 1
  BY <1>1, <1>2 DEF PathTypeOK
<1>4. /\ fds' \in Seq(Seq(Names)) /\ Len(fds') = Len(fds) + 1
      /\ fds'[Len(fds) + 1] = current_path'
      /\ \A i \in 1 .. Len(fds) : fds'[i] = fds[i]
  BY <1>2, <1>3 DEF Enter, PathTypeOK
<1>5. \A i \in 1 .. Len(fds) : SubSeq(current_path', 1, i - 1) = SubSeq(current_path, 1, i - 1)
  <2>1. SUFFICES ASSUME NEW i \in 1 .. Len(fds)
                 PROVE  SubSeq(current_path', 1, i - 1) = SubSeq(current_path, 1, i - 1)
    OBVIOUS
  <2>2. i - 1 \in 0 .. Len(current_path)
    BY TopIsPath DEF PathIsTrue
  <2> QED  BY <1>1, <1>2, <2>2, PrefixOfAppend DEF PathTypeOK
<1>6. SubSeq(current_path', 1, Len(fds) + 1 - 1) = current_path'
  <2>1. Len(fds) + 1 - 1 = Len(current_path')
    BY <1>3, TopIsPath DEF PathIsTrue
  <2> QED  BY <2>1, <1>3, SubSeqFull
<1>7. ASSUME NEW i \in DOMAIN fds'
      PROVE  fds'[i] = SubSeq(current_path', 1, i - 1) /\ fds'[i] \in DOMAIN tree'
  <2>1. i \in 1 .. Len(fds) \/ i = Len(fds) + 1
    BY <1>4, TopIsPath
  <2>2. CASE i \in 1 .. Len(fds)
    <3>1. i \in DOMAIN fds
      BY <2>2 DEF PathTypeOK
    <3> QED  BY <2>2, <3>1, <1>4, <1>5 DEF PathIsTrue
  <2>3. CASE i = Len(fds) + 1
    BY <2>3, <1>2, <1>4, <1>6
  <2> QED  BY <2>1, <2>2, <2>3
<1> QED  BY <1>1, <1>3, <1>4, <1>7, TopIsPath DEF PathIsTrue

\* Going up shortens both, unless they are at the root.
LEMMA DotDotKeeps ==
    ASSUME PathTypeOK, PathIsTrue, DotDot
    PROVE  /\ fds' \in Seq(Seq(Names)) /\ current_path' \in Seq(Names)
           /\ PathIsTrue'
<1>1. CASE Len(fds) > 1
  <2>1. Len(current_path) > 0 /\ Len(fds) > 0
    BY <1>1, TopIsPath DEF PathIsTrue
  <2>2. fds' = Front(fds) /\ current_path' = Front(current_path) /\ tree' = tree
    BY <1>1, <2>1 DEF DotDot, Up
  <2>3. /\ fds' \in Seq(Seq(Names)) /\ Len(fds') = Len(fds) - 1
        /\ \A i \in 1 .. Len(fds) - 1 : fds'[i] = fds[i]
    BY <2>1, <2>2, FrontIs DEF PathTypeOK
  <2>4. current_path' \in Seq(Names) /\ Len(current_path') = Len(current_path) - 1
    BY <2>1, <2>2, FrontIs DEF PathTypeOK
  <2>5. ASSUME NEW i \in DOMAIN fds'
        PROVE  fds'[i] = SubSeq(current_path', 1, i - 1) /\ fds'[i] \in DOMAIN tree'
    <3>1. i \in 1 .. Len(fds) - 1 /\ i \in DOMAIN fds
      BY <2>3, TopIsPath
    <3>2. i - 1 \in 0 .. Len(current_path) - 1
      BY <3>1, TopIsPath DEF PathIsTrue
    <3>3. SubSeq(current_path', 1, i - 1) = SubSeq(current_path, 1, i - 1)
      BY <2>1, <2>2, <3>2, PrefixOfFront DEF PathTypeOK
    <3> QED  BY <2>2, <2>3, <3>1, <3>3 DEF PathIsTrue
  <2>6. Len(fds') = Len(current_path') + 1
    BY <2>3, <2>4, TopIsPath DEF PathIsTrue
  <2> QED  BY <2>3, <2>4, <2>5, <2>6 DEF PathIsTrue
<1>2. CASE ~(Len(fds) > 1)
  <2>1. fds' = fds /\ current_path' = current_path /\ tree' = tree
    BY <1>2, TopIsPath DEF DotDot, Up, PathIsTrue
  <2> QED  BY <2>1 DEF PathTypeOK, PathIsTrue
<1> QED  BY <1>1, <1>2

\* An absolute target starts again at the root, a relative one where the link is.
LEMMA FollowLinkKeeps ==
    ASSUME PathTypeOK, PathIsTrue, FollowLink
    PROVE  /\ fds' \in Seq(Seq(Names)) /\ current_path' \in Seq(Names)
           /\ PathIsTrue'
<1>1. CASE tree[Found].target.absolute
  <2>1. fds' = SubSeq(fds, 1, 1) /\ current_path' = SubSeq(current_path, 1, 0) /\ tree' = tree
    BY <1>1 DEF FollowLink, Origin
  <2>2. current_path' = <<>>
    BY <2>1 DEF PathTypeOK
  <2>3. fds' = <<fds[1]>> /\ fds[1] \in Seq(Names) /\ 1 \in DOMAIN fds
    <3>1. 1 \in DOMAIN fds /\ fds[1] \in Seq(Names)
      BY TopIsPath DEF PathTypeOK
    <3>2. SubSeq(fds, 1, 1) = SubSeq(fds, 1, 0) \o <<fds[1]>>
      <4>1. 1 \in 1 .. Len(fds) /\ fds \in Seq(Seq(Names)) /\ 1 - 1 = 0
        BY <3>1 DEF PathTypeOK
      <4> QED  BY <4>1, SubSeqRecursiveSecond
    <3>3. SubSeq(fds, 1, 0) = <<>>
      BY DEF PathTypeOK
    <3>4. <<>> \o <<fds[1]>> = <<fds[1]>>
      BY <3>1
    <3>5. fds' = <<fds[1]>>
      BY <2>1, <3>2, <3>3, <3>4
    <3> QED  BY <3>1, <3>5
  <2>4. fds[1] = SubSeq(current_path, 1, 1 - 1) /\ fds[1] \in DOMAIN tree
    BY <2>3 DEF PathIsTrue
  <2>5. fds[1] = <<>>
    BY <2>4 DEF PathTypeOK
  <2>6. \A i \in DOMAIN fds' : i = 1 /\ fds'[i] = <<>>
    BY <2>3, <2>5
  <2>7. SubSeq(current_path', 1, 1 - 1) = <<>>
    BY <2>2
  <2>8. \A i \in DOMAIN fds' : fds'[i] = SubSeq(current_path', 1, i - 1)
    BY <2>6, <2>7
  <2>9. \A i \in DOMAIN fds' : fds'[i] \in DOMAIN tree'
    BY <2>1, <2>4, <2>5, <2>6
  <2>10. Len(fds') = 1 /\ Len(current_path') = 0
    BY <2>2, <2>3
  <2> QED  BY <2>2, <2>3, <2>8, <2>9, <2>10 DEF PathIsTrue
<1>2. CASE ~tree[Found].target.absolute
  <2>1. fds' = fds /\ current_path' = current_path /\ tree' = tree
    BY <1>2 DEF FollowLink, Origin
  <2> QED  BY <2>1 DEF PathTypeOK, PathIsTrue
<1> QED  BY <1>1, <1>2

\* A new directory is one, and everything else is as it was.
LEMMA MakeDirectoryAdds ==
    ASSUME PathTypeOK, OnlyAdds, MakeDirectory
    PROVE  /\ OnlyAdds'
           /\ DOMAIN tree' = DOMAIN tree \cup {Found}
           /\ \A p \in DOMAIN tree' : \/ p \in DOMAIN tree /\ tree'[p] = tree[p]
                                      \/ tree'[p] = Directory
<1>1. /\ DOMAIN tree' = DOMAIN tree \cup {Found}
      /\ \A p \in DOMAIN tree' : tree'[p] = IF p = Found THEN Directory ELSE tree[p]
      /\ Found \notin DOMAIN tree /\ "MKDIR_P" \in flags
      /\ before' = before /\ flags' = flags
  BY DEF MakeDirectory, Named, Exists, Enter
<1>2. \A p \in DOMAIN tree' : p = Found \/ (p \in DOMAIN tree /\ tree'[p] = tree[p])
  BY <1>1
<1>3. ASSUME NEW p \in DOMAIN tree'
      PROVE  IF p \in DOMAIN before' THEN tree'[p] = before'[p]
             ELSE "MKDIR_P" \in flags' /\ tree'[p] = Directory
  <2>1. CASE p \in DOMAIN tree
    BY <2>1, <1>1 DEF OnlyAdds
  <2>2. CASE p = Found
    <3>1. p \notin DOMAIN before'
      BY <2>2, <1>1 DEF OnlyAdds
    <3> QED  BY <2>2, <3>1, <1>1
  <2> QED  BY <1>2, <2>1, <2>2
<1> QED  BY <1>1, <1>2, <1>3 DEF OnlyAdds


-----------------------------------------------------------------------------
(* Every step.                                                             *)

LEMMA FailKeeps ==
    ASSUME IInv, NEW error \in {"missing", "symlink", "not_dir"}, Fail(error)
    PROVE  IInv'
BY DEF IInv, Fail, PathTypeOK, PathIsTrue, OnlyAdds

LEMMA Step == ASSUME IInv, [PathNext]_pathVars PROVE IInv'
<1> USE DEF IInv
<1>1. CASE Dot
  <2>1. remaining' \in Seq(Components)
    BY <1>1, HeadTailProperties DEF Dot, Walking, PathTypeOK
  <2> QED  BY <1>1, <2>1 DEF Dot, PathTypeOK, PathIsTrue, OnlyAdds
<1>2. CASE DotDot
  <2>1. remaining' \in Seq(Components)
    BY <1>2, HeadTailProperties DEF DotDot, Walking, PathTypeOK
  <2>2. PathTypeOK'
    BY <1>2, <2>1, DotDotKeeps DEF DotDot, PathTypeOK
  <2>3. OnlyAdds'
    BY <1>2 DEF DotDot, OnlyAdds
  <2> QED  BY <1>2, <2>2, <2>3, DotDotKeeps
<1>3. CASE Missing
  BY <1>3, FailKeeps DEF Missing
<1>4. CASE MakeDirectory
  <2>1. Enter /\ Named /\ DOMAIN tree \subseteq DOMAIN tree' /\ Found \in DOMAIN tree'
    BY <1>4, MakeDirectoryAdds DEF MakeDirectory
  <2>2. /\ fds' \in Seq(Seq(Names)) /\ current_path' \in Seq(Names)
        /\ remaining' \in Seq(Components) /\ PathIsTrue'
    BY <2>1, EnterKeeps
  <2>3. \A p \in DOMAIN tree' : tree'[p].kind = "link" =>
            p \in DOMAIN tree /\ tree'[p] = tree[p]
    BY <1>4, MakeDirectoryAdds DEF Directory
  <2>4. PathTypeOK'
    BY <2>1, <2>2, <2>3 DEF PathTypeOK, Enter
  <2> QED  BY <1>4, <2>2, <2>4, MakeDirectoryAdds
<1>5. CASE RejectLink
  BY <1>5, FailKeeps DEF RejectLink
<1>6. CASE FollowLink
  <2>1. Found \in DOMAIN tree /\ tree[Found].kind = "link" /\ remaining # <<>>
    BY <1>6 DEF FollowLink, Named, Walking, Exists, IsLink
  <2>2. remaining' \in Seq(Components) /\ ends' \in BOOLEAN
    <3>1. tree[Found].target.parts \in Seq(Components) /\ tree[Found].target.slash \in BOOLEAN
      BY <2>1 DEF PathTypeOK
    <3>2. Tail(remaining) \in Seq(Components)
      BY <2>1, HeadTailProperties DEF PathTypeOK
    <3>3. remaining' \in Seq(Components)
      BY <1>6, <3>1, <3>2 DEF FollowLink
    <3>4. ends' \in BOOLEAN
      BY <1>6, <3>1 DEF FollowLink, PathTypeOK
    <3> QED  BY <3>3, <3>4
  <2>3. PathTypeOK' /\ OnlyAdds'
    BY <1>6, <2>2, FollowLinkKeeps DEF FollowLink, PathTypeOK, OnlyAdds
  <2> QED  BY <1>6, <2>3, FollowLinkKeeps
<1>7. CASE NotDirectory
  BY <1>7, FailKeeps DEF NotDirectory
<1>8. CASE OpenFound
  <2>1. Enter /\ Named /\ tree' = tree /\ Found \in DOMAIN tree
    BY <1>8 DEF OpenFound, NotLink, Exists
  <2>2. /\ fds' \in Seq(Seq(Names)) /\ current_path' \in Seq(Names)
        /\ remaining' \in Seq(Components) /\ PathIsTrue'
    BY <2>1, EnterKeeps
  <2>3. PathTypeOK' /\ OnlyAdds'
    BY <2>1, <2>2 DEF PathTypeOK, Enter, OnlyAdds
  <2> QED  BY <2>2, <2>3
<1>9. CASE Return
  BY <1>9 DEF Return, PathTypeOK, PathIsTrue, OnlyAdds
<1>10. CASE UNCHANGED pathVars
  BY <1>10 DEF pathVars, PathTypeOK, PathIsTrue, OnlyAdds
<1> QED  BY <1>1, <1>2, <1>3, <1>4, <1>5, <1>6, <1>7, <1>8, <1>9, <1>10 DEF PathNext

THEOREM Invariant == ASSUME WellFormed PROVE PathSpec => []IInv
<1>1. PathInit => IInv
  BY InitInv
<1>2. IInv /\ [PathNext]_pathVars => IInv'
  BY Step
<1> QED  BY <1>1, <1>2, PTL DEF PathSpec

\* The path that _srt_resolve_in_sysroot() returns is that of the file descriptor
\* that it returns, and every directory on the way is below the sysroot, whatever
\* symbolic links and ".." there are.
THEOREM PathNamesFile == ASSUME WellFormed PROVE PathSpec => []PathIsTrue
<1>1. IInv => PathIsTrue
  BY DEF IInv
<1> QED  BY <1>1, Invariant, PTL

\* MKDIR_P adds directories and changes nothing else; without it nothing changes.
THEOREM CreatesDirectories == ASSUME WellFormed PROVE PathSpec => []OnlyAdds
<1>1. IInv => OnlyAdds
  BY DEF IInv
<1> QED  BY <1>1, Invariant, PTL

-----------------------------------------------------------------------------
(* The lookup is defined: TLA+ gives a value to f[x \in S] == e only if some *)
(* function satisfies the equation.  Here one does, as each place is looked *)
(* up by way of places with fewer links left, or with as many and a shorter *)
(* path; the lexicographic order of these has no endless descent.          *)

LEMMA HasMinimum ==
    ASSUME NEW S \in SUBSET Nat, S # {}
    PROVE  \E m \in S : \A i \in S : m <= i
<1> DEFINE R == {ss \in Nat \X Nat : ss[1] < ss[2]}
<1>1. IsWellFoundedOn(R, Nat)
  BY NatLessThanWellFounded DEF OpToRel
<1>2. \A i, m \in S : <<i, m>> \notin R => m <= i
  OBVIOUS
<1> HIDE DEF R
<1>3. \E m \in S : \A i \in S : <<i, m>> \notin R
  BY <1>1, WFMin
<1> QED  BY <1>2, <1>3

\* a is looked up on the way to b.
Less(a, b) == a.left < b.left \/ (a.left = b.left /\ Len(a.parts) < Len(b.parts))

LEMMA HasLeast ==
    ASSUME NEW S \in SUBSET Places, S # {}
    PROVE  \E m \in S : \A b \in S : ~Less(b, m)
<1>1. \A a \in Places : a.left \in Nat /\ Len(a.parts) \in Nat
  BY DEF Places
<1>2. PICK n \in {a.left : a \in S} : \A i \in {a.left : a \in S} : n <= i
  <2>1. {a.left : a \in S} \in SUBSET Nat /\ {a.left : a \in S} # {}
    BY <1>1
  <2> QED  BY <2>1, HasMinimum
<1> DEFINE T == {a \in S : a.left = n}
<1>3. PICK l \in {Len(a.parts) : a \in T} : \A i \in {Len(a.parts) : a \in T} : l <= i
  <2>1. {Len(a.parts) : a \in T} \in SUBSET Nat /\ {Len(a.parts) : a \in T} # {}
    BY <1>1, <1>2
  <2> QED  BY <2>1, HasMinimum
<1>4. PICK m \in T : Len(m.parts) = l
  BY <1>3
<1>5. ASSUME NEW b \in S, Less(b, m) PROVE FALSE
  <2>1. b.left \in Nat /\ m.left = n /\ n <= b.left /\ n \in Nat
    BY <1>1, <1>2, <1>4
  <2>2. b \in T /\ Len(b.parts) < Len(m.parts)
    BY <1>5, <2>1 DEF Less
  <2> QED  BY <2>2, <1>1, <1>3, <1>4
<1> QED  BY <1>4, <1>5

\* What can be found by a lookup from which n more links may be followed.
IsResult(r, n) ==
    r.error = "opened" =>
        r.file \in Seq(Names) /\ r.left \in 0 .. n /\ r = Opened(r.file, r.left)

LEMMA FewerIsResult ==
    ASSUME NEW n \in Nat, NEW i \in 0 .. n, NEW r, IsResult(r, i) PROVE IsResult(r, n)
BY DEF IsResult

LEMMA ErrorIsResult ==
    ASSUME NEW n PROVE /\ IsResult(Error("missing"), n) /\ IsResult(Error("loop"), n)
                       /\ IsResult(Error("not_dir"), n)
BY DEF IsResult, Error

LEMMA TailPlace ==
    ASSUME NEW at \in Places, at.parts # <<>>, NEW n \in 0 .. at.left, NEW dir \in Seq(Names)
    PROVE  /\ Place(n, dir, Tail(at.parts), at.slash, at.keep) \in Places
           /\ Less(Place(n, dir, Tail(at.parts), at.slash, at.keep), at)
<1>1. /\ at.left \in Nat /\ at.parts \in Seq(Components)
      /\ at.slash \in BOOLEAN /\ at.keep \in BOOLEAN
  BY DEF Places
<1>2. Tail(at.parts) \in Seq(Components) /\ Len(Tail(at.parts)) = Len(at.parts) - 1
      /\ Len(at.parts) \in Nat
  BY <1>1, HeadTailProperties
<1>3. n \in Nat /\ n <= at.left
  BY <1>1
<1> QED  BY <1>1, <1>2, <1>3 DEF Place, Places, Less

LEMMA GoOnAgrees ==
    ASSUME NEW t, NEW at \in Places, at.parts # <<>>, NEW g, NEW h,
           NEW found, IsResult(found, at.left), NEW strict,
           \A b \in Places : Less(b, at) => g[b] = h[b] /\ IsResult(g[b], b.left)
    PROVE  /\ GoOn(g, t, at, found, strict) = GoOn(h, t, at, found, strict)
           /\ IsResult(GoOn(g, t, at, found, strict), at.left)
<1>1. CASE found.error # "opened" \/ (strict /\ t[found.file].kind # "dir")
  BY <1>1, ErrorIsResult DEF GoOn, IsResult
<1>2. CASE found.error = "opened" /\ ~(strict /\ t[found.file].kind # "dir")
  <2> DEFINE b == Place(found.left, found.file, Tail(at.parts), at.slash, at.keep)
  <2>1. found.left \in 0 .. at.left /\ found.file \in Seq(Names)
    BY <1>2 DEF IsResult
  <2>2. b \in Places /\ Less(b, at)
    BY <2>1, TailPlace
  <2>3. GoOn(g, t, at, found, strict) = g[b] /\ GoOn(h, t, at, found, strict) = h[b]
    BY <1>2 DEF GoOn
  <2>4. b.left = found.left /\ found.left <= at.left /\ found.left \in Nat /\ at.left \in Nat
    BY <2>1 DEF Place, Places
  <2> HIDE DEF b
  <2>5. g[b] = h[b] /\ IsResult(g[b], b.left)
    BY <2>2
  <2>6. IsResult(g[b], at.left)
    BY <2>4, <2>5 DEF IsResult
  <2> QED  BY <2>3, <2>5, <2>6
<1> QED  BY <1>1, <1>2

LEMMA AdvanceAgrees ==
    ASSUME NEW t, FileSystem(t), NEW lax, NEW at \in Places, NEW g, NEW h,
           \A b \in Places : Less(b, at) => g[b] = h[b] /\ IsResult(g[b], b.left)
    PROVE  /\ Advance(g, t, lax, at) = Advance(h, t, lax, at)
           /\ IsResult(Advance(g, t, lax, at), at.left)
<1> DEFINE next  == Head(at.parts)
           final == Len(at.parts) = 1
           child == Append(at.dir, next)
           link  == t[child].target
           above == IF at.dir = <<>> THEN <<>> ELSE Front(at.dir)
           inner == Place(at.left - 1, IF link.absolute THEN <<>> ELSE at.dir,
                          link.parts, link.slash, FALSE)
<1>1. /\ at.left \in Nat /\ at.dir \in Seq(Names) /\ at.parts \in Seq(Components)
  BY DEF Places
<1>2. \A d \in Seq(Names) : IsResult(Opened(d, at.left), at.left)
  BY <1>1 DEF IsResult, Opened
<1>3. CASE at.parts = <<>>
  BY <1>1, <1>2, <1>3 DEF Advance
<1>4. CASE at.parts # <<>>
  <2>1. \A found, strict : IsResult(found, at.left) =>
           /\ GoOn(g, t, at, found, strict) = GoOn(h, t, at, found, strict)
           /\ IsResult(GoOn(g, t, at, found, strict), at.left)
    BY <1>4, GoOnAgrees
  <2>2. CASE next = "."
    <3>1. \A w : Advance(w, t, lax, at) = GoOn(w, t, at, Opened(at.dir, at.left), FALSE)
      BY <1>4, <2>2 DEF Advance
    <3> QED  BY <1>1, <1>2, <2>1, <3>1
  <2>3. CASE next = ".."
    <3>1. \A w : Advance(w, t, lax, at) = GoOn(w, t, at, Opened(above, at.left), FALSE)
      BY <1>4, <2>3 DEF Advance
    <3>2. above \in Seq(Names)
      <4>1. CASE at.dir # <<>>
        BY <1>1, <4>1 DEF Front
      <4> QED  BY <1>1, <4>1
    <3> HIDE DEF above
    <3> QED  BY <1>2, <2>1, <3>1, <3>2
  <2>4. CASE next \notin {".", ".."}
    <3>1. next \in Names /\ child \in Seq(Names)
      <4>1. next \in Components
        BY <1>1, <1>4, HeadTailProperties
      <4>2. next \in Names
        BY <2>4, <4>1 DEF Components
      <4> QED  BY <1>1, <4>2
    <3>2. CASE child \notin DOMAIN t
      BY <1>4, <2>4, <3>2, ErrorIsResult DEF Advance
    <3>3. CASE child \in DOMAIN t /\ (t[child].kind # "link" \/ (at.keep /\ final /\ ~at.slash))
      <4>1. \A w : Advance(w, t, lax, at)
                     = GoOn(w, t, at, Opened(child, at.left), ~final \/ at.slash)
        BY <1>4, <2>4, <3>3 DEF Advance
      <4> HIDE DEF child
      <4> QED  BY <1>2, <2>1, <3>1, <4>1
    <3>4. CASE child \in DOMAIN t /\ ~(t[child].kind # "link" \/ (at.keep /\ final /\ ~at.slash))
      <4>1. CASE at.left = 0
        BY <1>4, <2>4, <3>4, <4>1, ErrorIsResult DEF Advance
      <4>2. CASE at.left # 0
        <5>1. \A w : Advance(w, t, lax, at)
                       = GoOn(w, t, at, w[inner], ~final \/ (at.slash /\ ~lax))
          BY <1>4, <2>4, <3>4, <4>2 DEF Advance
        <5>2. link.parts \in Seq(Components) /\ link.slash \in BOOLEAN
          BY <3>4 DEF FileSystem
        <5>3. <<>> \in Seq(Names) /\ at.left - 1 \in Nat /\ at.left - 1 < at.left
          BY <1>1, <4>2
        <5> HIDE DEF link
        <5>4. inner \in Places /\ Less(inner, at) /\ inner.left = at.left - 1
          BY <1>1, <5>2, <5>3 DEF Place, Places, Less
        <5> HIDE DEF inner
        <5>5. g[inner] = h[inner] /\ IsResult(g[inner], inner.left)
          BY <5>4
        <5>6. IsResult(g[inner], at.left)
          BY <1>1, <5>3, <5>4, <5>5 DEF IsResult
        <5> QED  BY <2>1, <5>1, <5>5, <5>6
      <4> QED  BY <4>1, <4>2
    <3> QED  BY <3>2, <3>3, <3>4
  <2> QED  BY <2>2, <2>3, <2>4
<1> QED  BY <1>3, <1>4

\* g is right for a place and for all that a lookup from there leads to.
Under(at) == {b \in Places : b = at \/ Less(b, at)}
Correct(g, t, lax, at) ==
    \A b \in Under(at) : g[b] = Advance(g, t, lax, b) /\ IsResult(g[b], b.left)

LEMMA LessIsOrder ==
    ASSUME NEW a \in Places, NEW b \in Places, NEW c \in Places
    PROVE  ~Less(a, a) /\ (Less(a, b) /\ Less(b, c) => Less(a, c))
<1>1. \A p \in Places : p.left \in Nat /\ Len(p.parts) \in Nat
  BY DEF Places
<1>2. /\ a.left \in Nat /\ Len(a.parts) \in Nat /\ b.left \in Nat /\ Len(b.parts) \in Nat
      /\ c.left \in Nat /\ Len(c.parts) \in Nat
  BY <1>1
<1> QED  BY <1>2 DEF Less

LEMMA CorrectIsUnique ==
    ASSUME NEW t, FileSystem(t), NEW lax, NEW a \in Places, NEW b \in Places,
           NEW g, Correct(g, t, lax, a), NEW h, Correct(h, t, lax, b),
           NEW c \in Under(a) \cap Under(b)
    PROVE  g[c] = h[c]
<1> DEFINE S == {d \in Under(a) \cap Under(b) : g[d] # h[d]}
<1>1. SUFFICES ASSUME S # {} PROVE FALSE
  OBVIOUS
<1>2. PICK m \in S : \A d \in S : ~Less(d, m)
  <2>1. S \in SUBSET Places
    BY DEF Under
  <2> QED  BY <1>1, <2>1, HasLeast
<1>3. m \in Places /\ m \in Under(a) /\ m \in Under(b) /\ g[m] # h[m]
  BY <1>2 DEF Under
<1>4. ASSUME NEW d \in Places, Less(d, m)
      PROVE  g[d] = h[d] /\ IsResult(g[d], d.left)
  <2>1. d \in Under(a) /\ d \in Under(b)
    BY <1>3, <1>4, LessIsOrder DEF Under
  <2> QED  BY <1>2, <1>4, <2>1 DEF Correct
<1>5. Advance(g, t, lax, m) = Advance(h, t, lax, m)
  BY <1>3, <1>4, AdvanceAgrees
<1> QED  BY <1>3, <1>5 DEF Correct

LEMMA LookupIs ==
    ASSUME NEW t, FileSystem(t), NEW lax, NEW at \in Places
    PROVE  /\ Lookup(t, lax)[at] = Advance(Lookup(t, lax), t, lax, at)
           /\ IsResult(Lookup(t, lax)[at], at.left)
<1> DEFINE G(b) == CHOOSE g : Correct(g, t, lax, b)
           k == [b \in Places |-> G(b)[b]]
<1>1. ASSUME NEW c \in Places,
             \A b \in Places : b = c \/ Less(b, c) => \E g : Correct(g, t, lax, b)
      PROVE  k[c] = Advance(k, t, lax, c) /\ IsResult(k[c], c.left)
  <2>1. \A b \in Places : b = c \/ Less(b, c) => Correct(G(b), t, lax, b)
    BY <1>1
  <2>2. Correct(G(c), t, lax, c) /\ c \in Under(c) /\ k[c] = G(c)[c]
    BY <2>1 DEF Under
  <2>3. ASSUME NEW b \in Places, Less(b, c)
        PROVE  G(c)[b] = k[b] /\ IsResult(G(c)[b], b.left)
    <3>1. Correct(G(b), t, lax, b) /\ b \in Under(b) /\ b \in Under(c) /\ k[b] = G(b)[b]
      BY <2>1, <2>3 DEF Under
    <3> HIDE DEF G
    <3>2. G(c)[b] = G(b)[b]
      BY <2>2, <3>1, CorrectIsUnique
    <3> QED  BY <2>2, <3>1, <3>2 DEF Correct
  <2> HIDE DEF G, k
  <2>4. Advance(G(c), t, lax, c) = Advance(k, t, lax, c)
    BY <2>3, AdvanceAgrees
  <2> QED  BY <2>2, <2>4 DEF Correct
<1>2. \A b \in Places : \E g : Correct(g, t, lax, b)
  <2> DEFINE S == {b \in Places : ~\E g : Correct(g, t, lax, b)}
  <2>1. SUFFICES ASSUME S # {} PROVE FALSE
    OBVIOUS
  <2>2. PICK m \in S : \A d \in S : ~Less(d, m)
    <3>1. S \in SUBSET Places
      OBVIOUS
    <3> HIDE DEF S
    <3> QED  BY <2>1, <3>1, HasLeast
  <2>3. \A b \in Places : Less(b, m) => \E g : Correct(g, t, lax, b)
    BY <2>2
  <2>4. m \in Places
    BY <2>2
  <2> HIDE DEF G
  <2> DEFINE h == [b \in Places |-> IF b = m THEN Advance(k, t, lax, m) ELSE k[b]]
  <2>5. ASSUME NEW c \in Places, Less(c, m)
        PROVE  k[c] = Advance(k, t, lax, c) /\ IsResult(k[c], c.left)
    <3>1. \A b \in Places : b = c \/ Less(b, c) => Less(b, m)
      BY <2>4, <2>5, LessIsOrder
    <3> HIDE DEF k
    <3> QED  BY <1>1, <2>3, <3>1
  <2>6. \A c \in Places : Less(c, m) => h[c] = k[c]
    BY <2>4, LessIsOrder
  <2>7. h[m] = Advance(k, t, lax, m)
    BY <2>4
  <2> HIDE DEF h, k
  <2>8. \A c \in Places : c = m \/ Less(c, m) =>
            /\ Advance(k, t, lax, c) = Advance(h, t, lax, c)
            /\ IsResult(Advance(k, t, lax, c), c.left)
    <3>1. ASSUME NEW c \in Places, c = m \/ Less(c, m)
          PROVE  \A b \in Places : Less(b, c) => k[b] = h[b] /\ IsResult(k[b], b.left)
      <4>1. \A b \in Places : Less(b, c) => Less(b, m)
        BY <2>4, <3>1, LessIsOrder
      <4> QED  BY <2>5, <2>6, <4>1
    <3> QED  BY <3>1, AdvanceAgrees
  <2>9. Correct(h, t, lax, m)
    <3>1. ASSUME NEW c \in Under(m)
          PROVE  h[c] = Advance(h, t, lax, c) /\ IsResult(h[c], c.left)
      <4>1. c \in Places /\ (c = m \/ Less(c, m))
        BY DEF Under
      <4> QED  BY <2>5, <2>6, <2>7, <2>8, <4>1
    <3> QED  BY <3>1 DEF Correct
  <2> QED  BY <2>2, <2>9
<1>3. \A c \in Places : k[c] = Advance(k, t, lax, c) /\ IsResult(k[c], c.left)
  <2> HIDE DEF k
  <2> QED  BY <1>1, <1>2
<1>4. k = [b \in Places |-> Advance(k, t, lax, b)]
  <2>1. k = [b \in Places |-> k[b]]
    OBVIOUS
  <2> HIDE DEF k
  <2> QED  BY <1>3, <2>1
<1> DEFINE f == CHOOSE f : f = [b \in Places |-> Advance(f, t, lax, b)]
<1>5. f = [b \in Places |-> Advance(f, t, lax, b)]
  <2> HIDE DEF k
  <2> QED  BY <1>4
<1>6. Lookup(t, lax) = f
  BY DEF Lookup
<1> HIDE DEF f
<1>7. \A b \in Places : f[b] = Advance(f, t, lax, b)
  BY <1>5
<1>8. \A b \in Places : f[b] = k[b]
  <2> DEFINE S == {b \in Places : f[b] # k[b]}
  <2> HIDE DEF k
  <2>1. SUFFICES ASSUME S # {} PROVE FALSE
    OBVIOUS
  <2>2. PICK m \in S : \A d \in S : ~Less(d, m)
    <3>1. S \in SUBSET Places
      OBVIOUS
    <3> HIDE DEF S
    <3> QED  BY <2>1, <3>1, HasLeast
  <2>3. \A d \in Places : Less(d, m) => k[d] = f[d] /\ IsResult(k[d], d.left)
    BY <2>2, <1>3
  <2>4. m \in Places /\ f[m] # k[m]
    BY <2>2
  <2>5. Advance(k, t, lax, m) = Advance(f, t, lax, m)
    BY <2>3, <2>4, AdvanceAgrees
  <2> QED  BY <1>3, <1>7, <2>4, <2>5
<1> QED  BY <1>3, <1>6, <1>7, <1>8

-----------------------------------------------------------------------------
(* Walking on, as the code does: what is left of a path is looked up where  *)
(* its beginning leads.                                                    *)

At(t, n, d, p, s, k) == Lookup(t, TRUE)[Place(n, d, p, s, k)]

Dirs(t)   == {d \in DOMAIN t : t[d].kind = "dir"}
Parent(d) == IF d = <<>> THEN <<>> ELSE Front(d)
WalksFrom(d, path) == IF path.absolute THEN <<>> ELSE d

\* The rest of a path, p, is looked up from what has been found for its beginning.
AndThen(t, found, strict, p, s, k) ==
    IF found.error # "opened" THEN found
    ELSE IF strict /\ t[found.file].kind # "dir" THEN Error("not_dir")
    ELSE At(t, found.left, found.file, p, s, k)

LEMMA AndThenFails ==
    ASSUME NEW t, NEW p, NEW s, NEW k, NEW e \in {"missing", "loop", "not_dir"}
    PROVE  AndThen(t, Error(e), TRUE, p, s, k) = Error(e)
BY DEF AndThen, Error

LEMMA AtResult ==
    ASSUME NEW t, FileSystem(t), NEW n \in Nat, NEW d \in Seq(Names),
           NEW p \in Seq(Components), NEW s \in BOOLEAN, NEW k \in BOOLEAN
    PROVE  /\ IsResult(At(t, n, d, p, s, k), n)
           /\ Place(n, d, p, s, k) \in Places
           /\ At(t, n, d, p, s, k) = Advance(Lookup(t, TRUE), t, TRUE, Place(n, d, p, s, k))
<1>1. Place(n, d, p, s, k) \in Places /\ Place(n, d, p, s, k).left = n
  BY DEF Place, Places
<1> QED  BY <1>1, LookupIs DEF At

LEMMA AtEnd ==
    ASSUME NEW t, FileSystem(t), NEW n \in Nat, NEW d \in Seq(Names),
           NEW s \in BOOLEAN, NEW k \in BOOLEAN
    PROVE  At(t, n, d, <<>>, s, k) = Opened(d, n)
<1>1. <<>> \in Seq(Components)
  OBVIOUS
<1>2. At(t, n, d, <<>>, s, k) = Advance(Lookup(t, TRUE), t, TRUE, Place(n, d, <<>>, s, k))
  BY <1>1, AtResult
<1> QED  BY <1>2 DEF Advance, Place

\* A found directory is one of the tree's, and so is the one above it.
LEMMA ParentIsDir ==
    ASSUME NEW t, FileSystem(t), NEW d \in Dirs(t)
    PROVE  Parent(d) \in Dirs(t) /\ d \in Seq(Names) /\ Parent(d) \in Seq(Names)
BY DEF FileSystem, Dirs, Parent

\* What becomes of the first component of a path.
Unfolds(t, n, d, p, s, k, child) ==
    /\ Head(p) = "." => At(t, n, d, p, s, k) = At(t, n, d, Tail(p), s, k)
    /\ Head(p) = ".." => At(t, n, d, p, s, k) = At(t, n, Parent(d), Tail(p), s, k)
    /\ Head(p) \notin {".", ".."} =>
         /\ child \in Seq(Names)
         /\ child \notin DOMAIN t => At(t, n, d, p, s, k) = Error("missing")
         /\ child \in DOMAIN t /\ (t[child].kind # "link" \/ (k /\ Len(p) = 1 /\ ~s)) =>
              At(t, n, d, p, s, k)
                = AndThen(t, Opened(child, n), Len(p) # 1 \/ s, Tail(p), s, k)
         /\ child \in DOMAIN t /\ t[child].kind = "link" /\ ~(k /\ Len(p) = 1 /\ ~s) =>
              IF n = 0 THEN At(t, n, d, p, s, k) = Error("loop")
              ELSE At(t, n, d, p, s, k)
                     = AndThen(t, At(t, n - 1, WalksFrom(d, t[child].target),
                                     t[child].target.parts, t[child].target.slash, FALSE),
                               Len(p) # 1, Tail(p), s, k)

LEMMA AtStep ==
    ASSUME NEW t, FileSystem(t), NEW n \in Nat, NEW d \in Seq(Names),
           NEW p \in Seq(Components), p # <<>>, NEW s \in BOOLEAN, NEW k \in BOOLEAN,
           NEW child, child = Append(d, Head(p))
    PROVE  Unfolds(t, n, d, p, s, k, child)
<1> DEFINE W  == Lookup(t, TRUE)
           at == Place(n, d, p, s, k)
<1>1. /\ at.left = n /\ at.dir = d /\ at.parts = p /\ at.slash = s /\ at.keep = k
  BY DEF Place
<1>2. At(t, n, d, p, s, k) = Advance(W, t, TRUE, at)
  BY AtResult
<1>3. \A found, strict : GoOn(W, t, at, found, strict) = AndThen(t, found, strict, Tail(p), s, k)
  BY <1>1 DEF GoOn, AndThen, At
<1>4. \A q : W[Place(n - 1, WalksFrom(d, q), q.parts, q.slash, FALSE)]
               = At(t, n - 1, WalksFrom(d, q), q.parts, q.slash, FALSE)
  BY DEF At
<1>5. \A e : AndThen(t, Opened(e, n), FALSE, Tail(p), s, k) = At(t, n, e, Tail(p), s, k)
  BY DEF AndThen, Opened
<1> HIDE DEF W, at
<1> USE DEF Unfolds
<1>6. CASE Head(p) = "."
  <2>1. Advance(W, t, TRUE, at) = GoOn(W, t, at, Opened(d, n), FALSE)
    BY <1>1, <1>6 DEF Advance
  <2> QED  BY <1>2, <1>3, <1>5, <1>6, <2>1
<1>7. CASE Head(p) = ".."
  <2>1. Advance(W, t, TRUE, at) = GoOn(W, t, at, Opened(Parent(d), n), FALSE)
    BY <1>1, <1>7 DEF Advance, Parent
  <2> QED  BY <1>2, <1>3, <1>5, <1>7, <2>1
<1>8. CASE Head(p) \notin {".", ".."}
  <2>1. child \in Seq(Names)
    <3>1. Head(p) \in Components
      BY HeadTailProperties
    <3>2. Head(p) \in Names
      BY <1>8, <3>1 DEF Components
    <3> QED  BY <3>2
  <2>2. ASSUME child \notin DOMAIN t PROVE At(t, n, d, p, s, k) = Error("missing")
    BY <1>1, <1>2, <1>8, <2>2 DEF Advance
  <2>3. ASSUME child \in DOMAIN t, t[child].kind # "link" \/ (k /\ Len(p) = 1 /\ ~s)
        PROVE  At(t, n, d, p, s, k)
                 = AndThen(t, Opened(child, n), Len(p) # 1 \/ s, Tail(p), s, k)
    <3>1. Advance(W, t, TRUE, at) = GoOn(W, t, at, Opened(child, n), Len(p) # 1 \/ s)
      BY <1>1, <1>8, <2>3 DEF Advance
    <3> QED  BY <1>2, <1>3, <3>1
  <2>4. ASSUME child \in DOMAIN t, t[child].kind = "link", ~(k /\ Len(p) = 1 /\ ~s)
        PROVE  IF n = 0 THEN At(t, n, d, p, s, k) = Error("loop")
               ELSE At(t, n, d, p, s, k)
                      = AndThen(t, At(t, n - 1, WalksFrom(d, t[child].target),
                                      t[child].target.parts, t[child].target.slash, FALSE),
                                Len(p) # 1, Tail(p), s, k)
    <3>1. CASE n = 0
      BY <1>1, <1>2, <1>8, <2>4, <3>1 DEF Advance
    <3>2. CASE n # 0
      <4>1. Advance(W, t, TRUE, at)
              = GoOn(W, t, at, W[Place(n - 1, WalksFrom(d, t[child].target), t[child].target.parts,
                                       t[child].target.slash, FALSE)], Len(p) # 1)
        BY <1>1, <1>8, <2>4, <3>2 DEF Advance, WalksFrom
      <4> QED  BY <1>2, <1>3, <1>4, <3>2, <4>1
    <3> QED  BY <3>1, <3>2
  <2> QED  BY <1>8, <2>1, <2>2, <2>3, <2>4
<1> QED  BY <1>6, <1>7, <1>8

LEMMA TailFacts ==
    ASSUME NEW p \in Seq(Components), p # <<>>
    PROVE  /\ Tail(p) \in Seq(Components) /\ Len(Tail(p)) = Len(p) - 1
           /\ Len(p) \in Nat /\ Len(p) > 0 /\ (Len(p) = 1 <=> Tail(p) = <<>>)
           /\ Head(p) \in Components
<1>1. Tail(p) \in Seq(Components) /\ Len(Tail(p)) = Len(p) - 1 /\ Head(p) \in Components
  BY HeadTailProperties
<1>2. Len(p) \in Nat /\ Len(p) > 0
  BY EmptySeq
<1>3. Len(Tail(p)) = 0 <=> Tail(p) = <<>>
  BY <1>1, EmptySeq
<1> QED  BY <1>1, <1>2, <1>3

LEMMA TargetFacts ==
    ASSUME NEW t, FileSystem(t), NEW c \in DOMAIN t, t[c].kind = "link", NEW d \in Dirs(t)
    PROVE  /\ t[c].target.parts \in Seq(Components) /\ t[c].target.slash \in BOOLEAN
           /\ WalksFrom(d, t[c].target) \in Dirs(t) /\ WalksFrom(d, t[c].target) \in Seq(Names)
BY DEF FileSystem, Dirs, WalksFrom

\* What is found exists, and is no link unless a link was to be kept.
IsFinal(t, k, file) == file \in DOMAIN t /\ (k \/ t[file].kind # "link")

FoundBefore(t, n, p) ==
    \A i \in 0 .. n, e \in Dirs(t), w \in Seq(Components), x, y \in BOOLEAN :
        (i < n \/ Len(w) < Len(p)) /\ At(t, i, e, w, x, y).error = "opened" =>
            IsFinal(t, y, At(t, i, e, w, x, y).file)

LEMMA FoundExistsStep ==
    ASSUME NEW t, FileSystem(t), NEW n \in Nat, NEW d \in Dirs(t),
           NEW p \in Seq(Components), NEW s \in BOOLEAN, NEW k \in BOOLEAN,
           FoundBefore(t, n, p), NEW r, r = At(t, n, d, p, s, k), r.error = "opened"
    PROVE  IsFinal(t, k, r.file)
<1>1. d \in Seq(Names) /\ d \in DOMAIN t /\ n \in 0 .. n
  BY ParentIsDir DEF Dirs
<1>2. CASE p = <<>>
  <2>1. r = Opened(d, n)
    BY <1>1, <1>2, AtEnd
  <2>2. r.file = d
    BY <2>1 DEF Opened
  <2> QED  BY <1>1, <2>2 DEF IsFinal, Dirs
<1>3. CASE p # <<>>
  <2>1. Tail(p) \in Seq(Components) /\ Len(Tail(p)) < Len(p) /\ Len(p) \in Nat
        /\ (Len(p) = 1 <=> Tail(p) = <<>>)
    BY <1>3, TailFacts
  <2>2. \A e \in Dirs(t) : r = At(t, n, e, Tail(p), s, k) => IsFinal(t, k, r.file)
    BY <1>1, <2>1 DEF FoundBefore
  <2>3. ASSUME NEW found, NEW strict \in BOOLEAN, IsResult(found, n),
               found.error = "opened" => IsFinal(t, k, found.file), Len(p) # 1 => strict,
               r = AndThen(t, found, strict, Tail(p), s, k)
        PROVE  IsFinal(t, k, r.file)
    <3>1. found.error = "opened"
      BY <2>3 DEF AndThen
    <3>2. ~(strict /\ t[found.file].kind # "dir")
      BY <2>3, <3>1 DEF AndThen, Error
    <3>3. r = At(t, found.left, found.file, Tail(p), s, k)
      BY <2>3, <3>1, <3>2 DEF AndThen
    <3>4. /\ found.file \in DOMAIN t /\ found.file \in Seq(Names)
          /\ found.left \in 0 .. n /\ found.left \in Nat
      BY <2>3, <3>1 DEF IsResult, IsFinal
    <3>5. CASE Tail(p) = <<>>
      <4>1. At(t, found.left, found.file, <<>>, s, k) = Opened(found.file, found.left)
        BY <3>4, AtEnd
      <4>2. r = Opened(found.file, found.left)
        BY <3>3, <3>5, <4>1
      <4>3. r.file = found.file
        BY <4>2 DEF Opened
      <4> QED  BY <2>3, <3>1, <4>3
    <3>6. CASE Tail(p) # <<>>
      <4>1. found.file \in Dirs(t)
        BY <2>1, <2>3, <3>2, <3>4, <3>6 DEF Dirs
      <4> QED  BY <2>1, <3>3, <3>4, <4>1 DEF FoundBefore
    <3> QED  BY <3>5, <3>6
  <2>4. PICK c : c = Append(d, Head(p))
    OBVIOUS
  <2>11. Unfolds(t, n, d, p, s, k, c)
    BY <1>1, <1>3, <2>4, AtStep
  <2>5. CASE Head(p) = "."
    <3>1. r = At(t, n, d, Tail(p), s, k)
      BY <2>11, <2>5 DEF Unfolds
    <3> QED  BY <2>2, <3>1
  <2>6. CASE Head(p) = ".."
    <3>1. r = At(t, n, Parent(d), Tail(p), s, k)
      BY <2>11, <2>6 DEF Unfolds
    <3> QED  BY <2>2, <3>1, ParentIsDir
  <2>7. CASE Head(p) \notin {".", ".."}
    <3>1. c \in Seq(Names) /\ (c \notin DOMAIN t => r = Error("missing"))
      BY <2>11, <2>7 DEF Unfolds
    <3>2. c \in DOMAIN t
      BY <3>1 DEF Error
    <3>3. CASE t[c].kind # "link" \/ (k /\ Len(p) = 1 /\ ~s)
      <4>1. r = AndThen(t, Opened(c, n), Len(p) # 1 \/ s, Tail(p), s, k)
        BY <2>11, <2>7, <3>2, <3>3 DEF Unfolds
      <4>2. IsResult(Opened(c, n), n) /\ Opened(c, n).file = c
        BY <1>1, <3>1 DEF IsResult, Opened
      <4>3. (Len(p) # 1 \/ s) \in BOOLEAN
        OBVIOUS
      <4>4. IsFinal(t, k, c)
        BY <3>2, <3>3 DEF IsFinal
      <4> QED  BY <2>3, <4>1, <4>2, <4>3, <4>4
    <3>4. CASE t[c].kind = "link" /\ ~(k /\ Len(p) = 1 /\ ~s)
      <4> DEFINE link == t[c].target
                 X == At(t, n - 1, WalksFrom(d, link), link.parts, link.slash, FALSE)
      <4>1. n # 0 /\ r = AndThen(t, X, Len(p) # 1, Tail(p), s, k)
        <5>1. IF n = 0 THEN r = Error("loop")
              ELSE r = AndThen(t, X, Len(p) # 1, Tail(p), s, k)
          BY <2>11, <2>7, <3>2, <3>4 DEF Unfolds
        <5>2. Error("loop").error # r.error
          BY DEF Error
        <5>3. n # 0
          BY <5>1, <5>2
        <5> QED  BY <5>1, <5>3
      <4>2. /\ link.parts \in Seq(Components) /\ link.slash \in BOOLEAN
            /\ WalksFrom(d, link) \in Dirs(t) /\ WalksFrom(d, link) \in Seq(Names)
        BY <3>2, <3>4, TargetFacts
      <4>3. n - 1 \in 0 .. n /\ n - 1 < n /\ n - 1 \in Nat
        BY <4>1
      <4> HIDE DEF link
      <4>4. IsResult(X, n - 1)
        BY <4>2, <4>3, AtResult
      <4>5. IsResult(X, n)
        BY <4>3, <4>4, FewerIsResult
      <4>6. X.error = "opened" => IsFinal(t, FALSE, X.file)
        BY <4>2, <4>3 DEF FoundBefore
      <4>7. (Len(p) # 1) \in BOOLEAN
        OBVIOUS
      <4> HIDE DEF X
      <4>8. X.error = "opened" => IsFinal(t, k, X.file)
        BY <4>6 DEF IsFinal
      <4> QED  BY <2>3, <4>1, <4>5, <4>7, <4>8
    <3> QED  BY <3>3, <3>4
  <2> QED  BY <2>5, <2>6, <2>7
<1> QED  BY <1>2, <1>3

LEMMA FoundExists ==
    ASSUME NEW t, FileSystem(t), NEW n \in Nat, NEW d \in Dirs(t),
           NEW p \in Seq(Components), NEW s \in BOOLEAN, NEW k \in BOOLEAN,
           At(t, n, d, p, s, k).error = "opened"
    PROVE  IsFinal(t, k, At(t, n, d, p, s, k).file)
<1> DEFINE Bad(i, e, w, x, y) == /\ At(t, i, e, w, x, y).error = "opened"
                                 /\ ~IsFinal(t, y, At(t, i, e, w, x, y).file)
           S == {a \in Places : a.dir \in Dirs(t) /\ Bad(a.left, a.dir, a.parts, a.slash, a.keep)}
<1>1. SUFFICES ASSUME S # {} PROVE FALSE
  <2>1. d \in Seq(Names)
    BY ParentIsDir
  <2>2. /\ Place(n, d, p, s, k) \in Places
        /\ Place(n, d, p, s, k).left = n /\ Place(n, d, p, s, k).dir = d
        /\ Place(n, d, p, s, k).parts = p /\ Place(n, d, p, s, k).slash = s
        /\ Place(n, d, p, s, k).keep = k
    BY <2>1, AtResult DEF Place
  <2> QED  BY <2>2
<1>2. PICK m \in S : \A b \in S : ~Less(b, m)
  <2>1. S \in SUBSET Places
    OBVIOUS
  <2> HIDE DEF S
  <2> QED  BY <1>1, <2>1, HasLeast
<1>3. /\ m.left \in Nat /\ m.dir \in Dirs(t) /\ m.parts \in Seq(Components)
      /\ m.slash \in BOOLEAN /\ m.keep \in BOOLEAN
      /\ Bad(m.left, m.dir, m.parts, m.slash, m.keep)
  BY <1>2 DEF Places
<1>4. ASSUME NEW i \in 0 .. m.left, NEW e \in Dirs(t), NEW w \in Seq(Components),
             NEW x \in BOOLEAN, NEW y \in BOOLEAN, i < m.left \/ Len(w) < Len(m.parts),
             At(t, i, e, w, x, y).error = "opened"
      PROVE  IsFinal(t, y, At(t, i, e, w, x, y).file)
  <2>1. e \in Seq(Names) /\ i \in Nat /\ i <= m.left
    BY <1>3, ParentIsDir
  <2> DEFINE a == Place(i, e, w, x, y)
  <2>2. /\ a \in Places /\ a.left = i /\ a.dir = e /\ a.parts = w
        /\ a.slash = x /\ a.keep = y
    BY <2>1, AtResult DEF Place
  <2> HIDE DEF a
  <2>3. Less(a, m)
    BY <1>3, <1>4, <2>1, <2>2 DEF Less
  <2>4. a \notin S
    BY <1>2, <2>3
  <2> QED  BY <2>2, <2>4, <1>4
<1> HIDE DEF S
<1>5. PICK r : r = At(t, m.left, m.dir, m.parts, m.slash, m.keep)
  OBVIOUS
<1>6. r.error = "opened"
  BY <1>3, <1>5
<1>7. FoundBefore(t, m.left, m.parts)
  BY <1>4 DEF FoundBefore
<1>8. IsFinal(t, m.keep, r.file)
  BY <1>3, <1>5, <1>6, <1>7, FoundExistsStep
<1> QED  BY <1>3, <1>5, <1>8

\* A path can be looked up in two parts, q being the second one: the first one
\* has to lead to a directory.
Divides(t, p, q, z, s, k) ==
    \A n \in Nat, d \in Dirs(t) :
        At(t, n, d, p \o q, s, k) = AndThen(t, At(t, n, d, p, z, FALSE), TRUE, q, s, k)

LEMMA DividesStep ==
    ASSUME NEW t, FileSystem(t), NEW p \in Seq(Components), NEW q \in Seq(Components), q # <<>>,
           NEW z \in BOOLEAN, NEW s \in BOOLEAN, NEW k \in BOOLEAN,
           p # <<>> => Divides(t, Tail(p), q, z, s, k)
    PROVE  Divides(t, p, q, z, s, k)
<1> SUFFICES ASSUME NEW n \in Nat, NEW d \in Dirs(t)
             PROVE  At(t, n, d, p \o q, s, k)
                      = AndThen(t, At(t, n, d, p, z, FALSE), TRUE, q, s, k)
  BY DEF Divides
<1>1. d \in Seq(Names) /\ d \in DOMAIN t /\ t[d].kind = "dir"
  BY ParentIsDir DEF Dirs
<1>2. CASE p = <<>>
  <2>1. p \o q = q
    BY <1>2
  <2>2. At(t, n, d, p, z, FALSE) = Opened(d, n)
    BY <1>1, <1>2, AtEnd
  <2>3. AndThen(t, Opened(d, n), TRUE, q, s, k) = At(t, n, d, q, s, k)
    BY <1>1 DEF AndThen, Opened
  <2> QED  BY <2>1, <2>2, <2>3
<1>3. CASE p # <<>>
  <2>10. PICK pq : pq = p \o q
    OBVIOUS
  <2> SUFFICES At(t, n, d, pq, s, k)
                 = AndThen(t, At(t, n, d, p, z, FALSE), TRUE, q, s, k)
    BY <2>10
  <2>1. /\ pq \in Seq(Components) /\ pq # <<>> /\ Len(pq) # 1
        /\ Head(pq) = Head(p) /\ Tail(pq) = Tail(p) \o q
    BY <1>3, <2>10
  <2>2. Tail(p) \in Seq(Components) /\ (Len(p) = 1 <=> Tail(p) = <<>>)
    BY <1>3, TailFacts
  <2>3. \A i \in Nat, e \in Dirs(t) :
            At(t, i, e, Tail(pq), s, k)
              = AndThen(t, At(t, i, e, Tail(p), z, FALSE), TRUE, q, s, k)
    BY <1>3, <2>1 DEF Divides
  <2>4. PICK c : c = Append(d, Head(p))
    OBVIOUS
  <2>5. Unfolds(t, n, d, pq, s, k, c) /\ Unfolds(t, n, d, p, z, FALSE, c)
    BY <1>1, <1>3, <2>1, <2>4, AtStep
  <2>6. CASE Head(p) = "."
    BY <2>1, <2>3, <2>5, <2>6 DEF Unfolds
  <2>7. CASE Head(p) = ".."
    <3>1. Parent(d) \in Dirs(t)
      BY ParentIsDir
    <3> QED  BY <2>1, <2>3, <2>5, <2>7, <3>1 DEF Unfolds
  <2>8. ASSUME NEW found, IsResult(found, n), found.error = "opened" => found.file \in DOMAIN t,
               NEW strict \in BOOLEAN, Len(p) # 1 => strict,
               At(t, n, d, pq, s, k) = AndThen(t, found, TRUE, Tail(pq), s, k),
               At(t, n, d, p, z, FALSE) = AndThen(t, found, strict, Tail(p), z, FALSE)
        PROVE  At(t, n, d, pq, s, k)
                 = AndThen(t, At(t, n, d, p, z, FALSE), TRUE, q, s, k)
    <3>1. CASE found.error # "opened"
      BY <2>8, <3>1 DEF AndThen
    <3>2. CASE found.error = "opened"
      <4>1. found.file \in DOMAIN t /\ found.file \in Seq(Names) /\ found.left \in Nat
        BY <2>8, <3>2 DEF IsResult
      <4>2. CASE t[found.file].kind = "dir"
        <5>1. found.file \in Dirs(t)
          BY <4>1, <4>2 DEF Dirs
        <5>2. At(t, n, d, pq, s, k) = At(t, found.left, found.file, Tail(pq), s, k)
          BY <2>8, <3>2, <4>2 DEF AndThen
        <5>3. At(t, n, d, p, z, FALSE) = At(t, found.left, found.file, Tail(p), z, FALSE)
          BY <2>8, <3>2, <4>2 DEF AndThen
        <5> QED  BY <2>3, <4>1, <5>1, <5>2, <5>3
      <4>3. CASE t[found.file].kind # "dir"
        <5>1. At(t, n, d, pq, s, k) = Error("not_dir")
          BY <2>8, <3>2, <4>3 DEF AndThen
        <5>2. CASE strict
          <6>1. At(t, n, d, p, z, FALSE) = Error("not_dir")
            BY <2>8, <3>2, <4>3, <5>2 DEF AndThen
          <6> QED  BY <5>1, <6>1, AndThenFails
        <5>3. CASE ~strict
          <6>1. At(t, n, d, p, z, FALSE) = At(t, found.left, found.file, Tail(p), z, FALSE)
            BY <2>8, <3>2, <5>3 DEF AndThen
          <6>2. Tail(p) = <<>>
            BY <2>2, <2>8, <5>3
          <6>3. At(t, found.left, found.file, <<>>, z, FALSE) = Opened(found.file, found.left)
            BY <4>1, AtEnd
          <6>4. At(t, n, d, p, z, FALSE) = Opened(found.file, found.left)
            BY <6>1, <6>2, <6>3
          <6>5. AndThen(t, Opened(found.file, found.left), TRUE, q, s, k) = Error("not_dir")
            BY <4>3 DEF AndThen, Opened
          <6> QED  BY <5>1, <6>4, <6>5
        <5> QED  BY <5>2, <5>3
      <4> QED  BY <4>2, <4>3
    <3> QED  BY <3>1, <3>2
  <2>9. CASE Head(p) \notin {".", ".."}
    <3>1. c \in Seq(Names)
      BY <2>5, <2>9 DEF Unfolds
    <3>2. CASE c \notin DOMAIN t
      <4>1. At(t, n, d, pq, s, k) = Error("missing") /\ At(t, n, d, p, z, FALSE) = Error("missing")
        BY <2>1, <2>5, <2>9, <3>2 DEF Unfolds
      <4> QED  BY <4>1, AndThenFails
    <3>3. CASE c \in DOMAIN t /\ t[c].kind # "link"
      <4>1. At(t, n, d, pq, s, k) = AndThen(t, Opened(c, n), Len(pq) # 1 \/ s, Tail(pq), s, k)
        BY <2>1, <2>5, <2>9, <3>3 DEF Unfolds
      <4>2. At(t, n, d, pq, s, k) = AndThen(t, Opened(c, n), TRUE, Tail(pq), s, k)
        BY <2>1, <4>1
      <4>3. At(t, n, d, p, z, FALSE) = AndThen(t, Opened(c, n), Len(p) # 1 \/ z, Tail(p), z, FALSE)
        BY <2>1, <2>5, <2>9, <3>3 DEF Unfolds
      <4>4. /\ IsResult(Opened(c, n), n) /\ Opened(c, n).file = c
            /\ (Len(p) # 1 \/ z) \in BOOLEAN
        BY <3>1 DEF IsResult, Opened
      <4> QED  BY <2>8, <3>3, <4>2, <4>3, <4>4
    <3>4. CASE c \in DOMAIN t /\ t[c].kind = "link"
      <4>1. CASE n = 0
        <5>1. At(t, n, d, pq, s, k) = Error("loop") /\ At(t, n, d, p, z, FALSE) = Error("loop")
          BY <2>1, <2>5, <2>9, <3>4, <4>1 DEF Unfolds
        <5> QED  BY <5>1, AndThenFails
      <4>2. CASE n # 0
        <5>1. PICK link : link = t[c].target
          OBVIOUS
        <5>2. PICK X : X = At(t, n - 1, WalksFrom(d, link), link.parts, link.slash, FALSE)
          OBVIOUS
        <5>3. At(t, n, d, pq, s, k) = AndThen(t, X, Len(pq) # 1, Tail(pq), s, k)
          BY <2>1, <2>5, <2>9, <3>4, <4>2, <5>1, <5>2 DEF Unfolds
        <5>4. At(t, n, d, pq, s, k) = AndThen(t, X, TRUE, Tail(pq), s, k)
          BY <2>1, <5>3
        <5>5. At(t, n, d, p, z, FALSE) = AndThen(t, X, Len(p) # 1, Tail(p), z, FALSE)
          BY <2>1, <2>5, <2>9, <3>4, <4>2, <5>1, <5>2 DEF Unfolds
        <5>6. /\ link.parts \in Seq(Components) /\ link.slash \in BOOLEAN
              /\ WalksFrom(d, link) \in Dirs(t) /\ WalksFrom(d, link) \in Seq(Names)
          BY <3>4, <5>1, TargetFacts
        <5>7. n - 1 \in 0 .. n /\ n - 1 \in Nat
          BY <4>2
        <5>8. IsResult(X, n)
          <6>1. IsResult(X, n - 1)
            BY <5>2, <5>6, <5>7, AtResult
          <6> QED  BY <5>7, <6>1, FewerIsResult
        <5>9. X.error = "opened" => X.file \in DOMAIN t
          BY <5>2, <5>6, <5>7, FoundExists DEF IsFinal
        <5>10. (Len(p) # 1) \in BOOLEAN
          OBVIOUS
        <5> QED  BY <2>8, <5>4, <5>5, <5>8, <5>9, <5>10
      <4> QED  BY <4>1, <4>2
    <3> QED  BY <3>2, <3>3, <3>4
  <2> QED  BY <2>6, <2>7, <2>9
<1> QED  BY <1>2, <1>3

LEMMA PathDivides ==
    ASSUME NEW t, FileSystem(t), NEW p \in Seq(Components), NEW q \in Seq(Components), q # <<>>,
           NEW z \in BOOLEAN, NEW s \in BOOLEAN, NEW k \in BOOLEAN
    PROVE  Divides(t, p, q, z, s, k)
<1> DEFINE Bad == {w \in Seq(Components) : ~Divides(t, w, q, z, s, k)}
           L   == {Len(w) : w \in Bad}
<1>1. SUFFICES ASSUME Bad # {} PROVE FALSE
  OBVIOUS
<1>2. L \in SUBSET Nat /\ L # {}
  <2>1. Bad \subseteq Seq(Components)
    OBVIOUS
  <2>2. \A w \in Seq(Components) : Len(w) \in Nat
    OBVIOUS
  <2> HIDE DEF Bad
  <2> QED  BY <1>1, <2>1, <2>2
<1>3. PICK m \in L : \A i \in L : m <= i
  <2> HIDE DEF L
  <2> QED  BY <1>2, HasMinimum
<1>4. PICK w \in Bad : Len(w) = m
  BY <1>3
<1>5. w \in Seq(Components) /\ ~Divides(t, w, q, z, s, k)
  BY <1>4
<1>6. w # <<>> => Divides(t, Tail(w), q, z, s, k)
  <2>1. SUFFICES ASSUME w # <<>> PROVE Tail(w) \notin Bad
    BY <1>5, TailFacts
  <2>2. Len(Tail(w)) = Len(w) - 1 /\ Len(w) \in Nat
    BY <1>5, <2>1, TailFacts
  <2>3. Tail(w) \in Bad => m <= Len(Tail(w))
    BY <1>3
  <2> QED  BY <1>4, <2>2, <2>3
<1> HIDE DEF Bad
<1> QED  BY <1>5, <1>6, DividesStep

-----------------------------------------------------------------------------
(* What the lookup does with one component.                                 *)

\* The component is a file that the lookup enters.
GoesOn(t, n, d, p, s, k, c) == At(t, n, d, p, s, k) = At(t, n, c, Tail(p), s, k)

LEMMA Enters ==
    ASSUME NEW t, FileSystem(t), NEW n \in Nat, NEW d \in Seq(Names),
           NEW p \in Seq(Components), p # <<>>, Head(p) \notin {".", ".."},
           NEW s \in BOOLEAN, NEW k \in BOOLEAN, NEW c, c = Append(d, Head(p)), c \in DOMAIN t,
           t[c].kind # "link" \/ (k /\ Len(p) = 1 /\ ~s),
           t[c].kind = "dir" \/ (Len(p) = 1 /\ ~s)
    PROVE  GoesOn(t, n, d, p, s, k, c)
<1>1. Unfolds(t, n, d, p, s, k, c)
  BY AtStep
<1>2. At(t, n, d, p, s, k) = AndThen(t, Opened(c, n), Len(p) # 1 \/ s, Tail(p), s, k)
  BY <1>1 DEF Unfolds
<1>3. AndThen(t, Opened(c, n), Len(p) # 1 \/ s, Tail(p), s, k) = At(t, n, c, Tail(p), s, k)
  BY DEF AndThen, Opened
<1> QED  BY <1>2, <1>3 DEF GoesOn

\* It is not there; or it is not a directory, and there is more to come; or it is a
\* link, and no more links may be followed.
Halts(t, n, d, p, s, k, c) ==
    /\ c \notin DOMAIN t => At(t, n, d, p, s, k) = Error("missing")
    /\ (/\ c \in DOMAIN t /\ t[c].kind # "dir" /\ (Len(p) # 1 \/ s)
        /\ t[c].kind # "link" \/ (k /\ Len(p) = 1 /\ ~s))
           => At(t, n, d, p, s, k) = Error("not_dir")
    /\ (c \in DOMAIN t /\ t[c].kind = "link" /\ ~(k /\ Len(p) = 1 /\ ~s) /\ n = 0)
           => At(t, n, d, p, s, k) = Error("loop")

LEMMA Stops ==
    ASSUME NEW t, FileSystem(t), NEW n \in Nat, NEW d \in Seq(Names),
           NEW p \in Seq(Components), p # <<>>, Head(p) \notin {".", ".."},
           NEW s \in BOOLEAN, NEW k \in BOOLEAN, NEW c, c = Append(d, Head(p))
    PROVE  Halts(t, n, d, p, s, k, c)
<1>1. Unfolds(t, n, d, p, s, k, c)
  BY AtStep
<1>2. (Len(p) # 1 \/ s) /\ t[c].kind # "dir" =>
          AndThen(t, Opened(c, n), Len(p) # 1 \/ s, Tail(p), s, k) = Error("not_dir")
  BY DEF AndThen, Opened
<1> QED  BY <1>1, <1>2 DEF Unfolds, Halts

\* It is a link: what follows it can be looked up together with its target, which is
\* what the code does.
Leads(t, n, d, p, s, k, link) ==
    /\ Len(p) # 1 =>
         At(t, n, d, p, s, k) = At(t, n - 1, WalksFrom(d, link), link.parts \o Tail(p), s, k)
    /\ Len(p) = 1 =>
         At(t, n, d, p, s, k) = At(t, n - 1, WalksFrom(d, link), link.parts, link.slash, FALSE)

LEMMA Follows ==
    ASSUME NEW t, FileSystem(t), NEW n \in Nat, n > 0, NEW d \in Dirs(t),
           NEW p \in Seq(Components), p # <<>>, Head(p) \notin {".", ".."},
           NEW s \in BOOLEAN, NEW k \in BOOLEAN, NEW c, c = Append(d, Head(p)),
           c \in DOMAIN t, t[c].kind = "link", ~(k /\ Len(p) = 1 /\ ~s),
           NEW link, link = t[c].target
    PROVE  Leads(t, n, d, p, s, k, link)
<1>1. d \in Seq(Names)
  BY ParentIsDir
<1>2. Unfolds(t, n, d, p, s, k, c)
  BY <1>1, AtStep
<1>3. PICK X : X = At(t, n - 1, WalksFrom(d, link), link.parts, link.slash, FALSE)
  OBVIOUS
<1>4. At(t, n, d, p, s, k) = AndThen(t, X, Len(p) # 1, Tail(p), s, k)
  <2>1. At(t, n, d, p, s, k)
          = AndThen(t, At(t, n - 1, WalksFrom(d, t[c].target), t[c].target.parts,
                          t[c].target.slash, FALSE), Len(p) # 1, Tail(p), s, k)
    <3>1. IF n = 0 THEN At(t, n, d, p, s, k) = Error("loop")
          ELSE At(t, n, d, p, s, k)
                 = AndThen(t, At(t, n - 1, WalksFrom(d, t[c].target), t[c].target.parts,
                                 t[c].target.slash, FALSE), Len(p) # 1, Tail(p), s, k)
      BY <1>2 DEF Unfolds
    <3>2. n # 0
      OBVIOUS
    <3> QED  BY <3>1, <3>2
  <2> QED  BY <1>3, <2>1
<1>5. /\ link.parts \in Seq(Components) /\ link.slash \in BOOLEAN
      /\ WalksFrom(d, link) \in Dirs(t) /\ WalksFrom(d, link) \in Seq(Names)
  BY TargetFacts
<1>6. n - 1 \in Nat
  OBVIOUS
<1>7. Tail(p) \in Seq(Components) /\ (Len(p) = 1 <=> Tail(p) = <<>>)
  BY TailFacts
<1>8. CASE Len(p) # 1
  <2>1. At(t, n, d, p, s, k) = AndThen(t, X, TRUE, Tail(p), s, k)
    BY <1>4, <1>8
  <2>2. At(t, n - 1, WalksFrom(d, link), link.parts \o Tail(p), s, k)
          = AndThen(t, X, TRUE, Tail(p), s, k)
    <3>1. PICK lp, lz, e : lp = link.parts /\ lz = link.slash /\ e = WalksFrom(d, link)
      OBVIOUS
    <3>2. PICK q, m : q = Tail(p) /\ m = n - 1
      OBVIOUS
    <3>3. /\ lp \in Seq(Components) /\ lz \in BOOLEAN /\ e \in Dirs(t)
          /\ q \in Seq(Components) /\ q # <<>> /\ m \in Nat
      BY <1>5, <1>6, <1>7, <1>8, <3>1, <3>2
    <3>4. At(t, m, e, lp \o q, s, k)
            = AndThen(t, At(t, m, e, lp, lz, FALSE), TRUE, q, s, k)
      <4>1. Divides(t, lp, q, lz, s, k)
        BY <3>3, PathDivides
      <4> QED  BY <3>3, <4>1 DEF Divides
    <3> QED  BY <1>3, <3>1, <3>2, <3>4
  <2> QED  BY <1>8, <2>1, <2>2 DEF Leads
<1>9. CASE Len(p) = 1
  <2>1. At(t, n, d, p, s, k) = AndThen(t, X, FALSE, <<>>, s, k)
    BY <1>4, <1>7, <1>9
  <2>2. AndThen(t, X, FALSE, <<>>, s, k) = X
    <3>1. CASE X.error # "opened"
      BY <3>1 DEF AndThen
    <3>2. CASE X.error = "opened"
      <4>1. IsResult(X, n - 1)
        BY <1>3, <1>5, <1>6, AtResult
      <4>2. X.file \in Seq(Names) /\ X.left \in Nat /\ X = Opened(X.file, X.left)
        BY <1>6, <3>2, <4>1 DEF IsResult
      <4>3. At(t, X.left, X.file, <<>>, s, k) = Opened(X.file, X.left)
        BY <4>2, AtEnd
      <4>4. AndThen(t, X, FALSE, <<>>, s, k) = At(t, X.left, X.file, <<>>, s, k)
        BY <3>2 DEF AndThen
      <4> QED  BY <4>2, <4>3, <4>4
    <3> QED  BY <3>1, <3>2
  <2> QED  BY <1>3, <1>9, <2>1, <2>2 DEF Leads
<1> QED  BY <1>8, <1>9

-----------------------------------------------------------------------------
(* What is beneath a file.                                                 *)

LEMMA PrefixOfParent ==
    ASSUME NEW p \in Seq(Names), NEW q \in Seq(Names), q # <<>>, IsPrefix(p, Front(q))
    PROVE  IsPrefix(p, q)
<1>1. Len(q) \in Nat /\ Len(q) > 0 /\ Len(p) \in Nat
  BY EmptySeq
<1>2. Front(q) \in Seq(Names) /\ Len(Front(q)) = Len(q) - 1
  BY <1>1, FrontIs
<1>3. Len(p) <= Len(q) - 1 /\ SubSeq(p, 1, Len(p)) = SubSeq(Front(q), 1, Len(p))
  BY <1>2 DEF IsPrefix
<1>4. SubSeq(Front(q), 1, Len(p)) = SubSeq(q, 1, Len(p))
  <2>1. Len(p) \in 0 .. Len(q) - 1
    BY <1>1, <1>3
  <2> QED  BY <1>1, <2>1, PrefixOfFront
<1> QED  BY <1>1, <1>3, <1>4 DEF IsPrefix

LEMMA PrefixExists ==
    ASSUME NEW t, FileSystem(t), NEW p \in Seq(Names), NEW q \in DOMAIN t, IsPrefix(p, q)
    PROVE  p \in DOMAIN t
<1>1. q \in Seq(Names) /\ Len(q) \in Nat /\ Len(p) \in Nat /\ Len(p) <= Len(q)
  BY DEF FileSystem, IsPrefix
<1> DEFINE S == {l \in Len(p) .. Len(q) : SubSeq(q, 1, l) \in DOMAIN t}
<1>2. S \in SUBSET Nat /\ Len(q) \in S
  <2>1. SubSeq(q, 1, Len(q)) = q
    BY <1>1, SubSeqFull
  <2>2. Len(q) \in Len(p) .. Len(q) /\ Len(p) .. Len(q) \subseteq Nat
    BY <1>1
  <2> QED  BY <2>1, <2>2
<1>3. PICK m \in S : \A i \in S : m <= i
  <2> HIDE DEF S
  <2> QED  BY <1>2, HasMinimum
<1>4. m \in Nat /\ m >= Len(p) /\ m <= Len(q) /\ SubSeq(q, 1, m) \in DOMAIN t
  BY <1>1, <1>3
<1>5. CASE m = Len(p)
  <2>1. SubSeq(q, 1, m) = SubSeq(p, 1, Len(p)) /\ SubSeq(p, 1, Len(p)) = p
    BY <1>5, SubSeqFull DEF IsPrefix
  <2> QED  BY <1>4, <2>1
<1>6. CASE m > Len(p)
  <2>1. PICK r : r = SubSeq(q, 1, m)
    OBVIOUS
  <2>2. r \in Seq(Names) /\ Len(r) = m /\ m > 0 /\ r # <<>>
    BY <1>1, <1>4, <1>6, <2>1
  <2>3. Front(r) \in DOMAIN t
    BY <1>4, <2>1, <2>2 DEF FileSystem
  <2>4. Front(r) = SubSeq(q, 1, m - 1)
    BY <1>1, <1>4, <2>1, <2>2 DEF Front
  <2>5. m - 1 \in S
    BY <1>1, <1>4, <1>6, <2>3, <2>4
  <2> QED  BY <1>3, <1>4, <2>5
<1> QED  BY <1>1, <1>4, <1>5, <1>6

-----------------------------------------------------------------------------
(* The invariant.  A tree that is larger than this one may be what the      *)
(* walk leaves behind: in each of them, the kernel finds for the whole path  *)
(* what it would find for the rest of it from here.                        *)

Larger(t) == FileSystem(t) /\ \A p \in DOMAIN tree : p \in DOMAIN t /\ t[p] = tree[p]

Rest(t, s, k) == At(t, Allowed - followed, Last(fds), remaining, s, k)

Typed ==
    /\ FileSystem(tree) /\ Root \in DOMAIN before
    /\ descendant.parts \in Seq(Components) /\ descendant.slash \in BOOLEAN
    /\ followed \in 0 .. MaxLinks /\ (Rejects => followed = 0)

InDirectory ==
    /\ \A i \in 1 .. Len(fds) - 1 : fds[i] \in Dirs(tree)
    /\ remaining # <<>> \/ "MUST_BE_DIRECTORY" \in flags => Last(fds) \in Dirs(tree)

OnTheWay ==
    /\ Keeps => descendant.slash = ~ends
    /\ \A t : Larger(t) => /\ Kernel(t, descendant.slash, Keeps) = Rest(t, ~ends, Keeps)
                           /\ Keeps /\ ~ends => Kernel(t, FALSE, TRUE) = Rest(t, FALSE, TRUE)

\* Nothing beneath p may be missing for want of p.
Lacks(t, p) ==
    /\ FileSystem(t) /\ p \notin DOMAIN t
    /\ \A q \in DOMAIN tree \ Beneath(p) : q \in DOMAIN t /\ t[q] = tree[q]

NewIsNeeded ==
    \A p \in DOMAIN tree \ DOMAIN before : \A t :
        Lacks(t, p) => Kernel(t, descendant.slash, Keeps).error = "missing"

Done ==
    result # "none" => /\ result = Expected.error
                       /\ result = "opened" => Last(fds) = Expected.file

\* It has followed the one link that should have been kept.
Strayed ==
    Keeps /\ descendant.slash /\ \A t : Larger(t) => IsA(t, Kernel(t, FALSE, TRUE), "link")

WalkInv ==
    /\ Typed /\ InDirectory
    /\ Strayed \/ (OnTheWay /\ NewIsNeeded /\ Done)

\* Where the walk is, as constants.
Here(n, d, p, k) ==
    /\ n = Allowed - followed /\ d = Last(fds) /\ p = remaining /\ k = Keeps
    /\ n \in Nat /\ d \in Seq(Names) /\ d \in DOMAIN tree /\ p \in Seq(Components)
    /\ k \in BOOLEAN
    /\ p # <<>> => d \in Dirs(tree)

LEMMA HereExists ==
    ASSUME WellFormed, IInv, WalkInv
    PROVE  \E n, d, p, k : Here(n, d, p, k)
<1>1. Last(fds) \in Seq(Names) /\ Last(fds) \in DOMAIN tree
  <2>1. Last(fds) = current_path /\ Last(fds) \in DOMAIN tree
    BY TopIsPath DEF IInv
  <2> QED  BY <2>1 DEF IInv, PathTypeOK
<1>2. remaining \in Seq(Components)
  BY DEF IInv, PathTypeOK
<1>3. Allowed - followed \in Nat
  BY DEF WalkInv, Typed, Allowed, WellFormed
<1>4. Keeps \in BOOLEAN
  BY DEF Keeps
<1>5. remaining # <<>> => Last(fds) \in Dirs(tree)
  BY DEF WalkInv, InDirectory
<1> QED  BY <1>1, <1>2, <1>3, <1>4, <1>5 DEF Here

LEMMA LargerDirs ==
    ASSUME NEW t, Larger(t), NEW d \in Dirs(tree)
    PROVE  d \in Dirs(t)
BY DEF Larger, Dirs

LEMMA RootIsTop ==
    ASSUME NEW fs \in Seq(Seq(Names)), NEW path \in Seq(Names), Len(fs) = Len(path) + 1,
           \A i \in DOMAIN fs : fs[i] = SubSeq(path, 1, i - 1)
    PROVE  Last(fs) = path
<1>1. Len(fs) \in DOMAIN fs /\ Len(path) \in Nat
  BY LenProperties
<1>2. fs[Len(fs)] = SubSeq(path, 1, Len(fs) - 1)
  BY <1>1
<1>3. Len(fs) - 1 = Len(path)
  BY <1>1
<1> QED  BY <1>2, <1>3, SubSeqFull DEF Last

\* The walk in the same tree, from one place to another.
LEMMA WalksOn ==
    ASSUME WalkInv, OnTheWay, NewIsNeeded, result' = "none",
           UNCHANGED <<tree, before, descendant, flags>>,
           Keeps => descendant.slash = ~ends',
           \A t : Larger(t) =>
               /\ Rest(t, ~ends, Keeps) = Rest(t, ~ends, Keeps)'
               /\ Keeps /\ ~ends' => ~ends /\ Rest(t, FALSE, TRUE) = Rest(t, FALSE, TRUE)'
    PROVE  (OnTheWay /\ NewIsNeeded /\ Done)'
<1>1. Keeps' = Keeps /\ Rejects' = Rejects /\ Allowed' = Allowed
  BY DEF Keeps, Rejects, Allowed
<1>2. \A t : Larger(t)' <=> Larger(t)
  BY DEF Larger
<1>3. \A t, s, k : Kernel(t, s, k)' = Kernel(t, s, k)
  BY <1>1 DEF Kernel
<1>4. OnTheWay'
  BY <1>1, <1>2, <1>3 DEF OnTheWay
<1>5. NewIsNeeded'
  <2>1. \A t, p : Lacks(t, p)' <=> Lacks(t, p)
    BY DEF Lacks, Beneath
  <2> QED  BY <1>1, <1>3, <2>1 DEF NewIsNeeded
<1>6. Done'
  BY DEF Done
<1> QED  BY <1>4, <1>5, <1>6

LEMMA StaysStrayed ==
    ASSUME Strayed, UNCHANGED <<descendant, flags>>, \A t : Larger(t)' => Larger(t)
    PROVE  Strayed'
<1>1. Keeps' = Keeps
  BY DEF Keeps, Rejects
<1>2. \A t, s, k : Kernel(t, s, k)' = Kernel(t, s, k)
  BY DEF Kernel, Allowed, Rejects
<1> QED  BY <1>1, <1>2 DEF Strayed

LEMMA ItselfIsLarger ==
    ASSUME WalkInv PROVE Larger(tree)
BY DEF WalkInv, Typed, Larger

-----------------------------------------------------------------------------
(* The beginning.                                                          *)

LEMMA WalkInit == ASSUME WellFormed, PathInit PROVE WalkInv
<1>1. Typed
  <2>1. descendant.parts \in Seq(Components) /\ descendant.slash \in BOOLEAN /\ FileSystem(tree)
    BY DEF WellFormed, PathInit
  <2>2. Root \in DOMAIN before /\ followed = 0 /\ MaxLinks \in Nat
    BY <2>1 DEF PathInit, WellFormed, FileSystem, Root
  <2> QED  BY <2>1, <2>2 DEF Typed
<1>2. InDirectory
  <2>1. fds = <<Root>> /\ Len(fds) = 1 /\ Last(fds) = Root
    BY DEF PathInit, Last
  <2>2. Root \in Dirs(tree)
    BY <1>1 DEF Typed, FileSystem, Dirs, Root
  <2> QED  BY <2>1, <2>2 DEF InDirectory
<1>3. OnTheWay
  <2>1. /\ remaining = descendant.parts /\ ends = ~descendant.slash /\ followed = 0
        /\ Last(fds) = Root /\ descendant.slash \in BOOLEAN /\ Allowed \in Nat
    BY <1>1 DEF PathInit, Last, Typed, Allowed, WellFormed
  <2>2. Allowed - followed = Allowed
    BY <2>1
  <2>3. descendant.slash = ~ends
    BY <2>1
  <2> QED  BY <2>1, <2>2, <2>3 DEF OnTheWay, Kernel, Rest, At
<1>4. NewIsNeeded /\ Done
  BY DEF PathInit, NewIsNeeded, Done
<1> QED  BY <1>1, <1>2, <1>3, <1>4 DEF WalkInv

-----------------------------------------------------------------------------
(* Steps that leave the tree alone.                                        *)

LEMMA WalkDot == ASSUME WellFormed, IInv, WalkInv, Dot PROVE WalkInv'
<1>1. PICK n, d, p, k : Here(n, d, p, k)
  BY HereExists
<1>2. p # <<>> /\ Head(p) = "." /\ n \in Nat /\ d \in Dirs(tree) /\ p \in Seq(Components)
  BY <1>1 DEF Here, Dot, Walking, Next1
<1>3. Typed'
  BY DEF WalkInv, Typed, Dot, Rejects
<1>4. InDirectory'
  <2>1. Last(fds) \in Dirs(tree)
    BY <1>1, <1>2 DEF Here
  <2> QED  BY <2>1 DEF WalkInv, InDirectory, Dot
<1>5. CASE Strayed
  <2>1. Strayed'
    BY <1>5, StaysStrayed DEF Dot, Larger
  <2> QED  BY <1>3, <1>4, <2>1 DEF WalkInv
<1>6. CASE OnTheWay /\ NewIsNeeded
  <2>1. ASSUME NEW t, Larger(t), NEW s \in BOOLEAN, NEW b \in BOOLEAN
        PROVE  Rest(t, s, b) = At(t, n, d, Tail(p), s, b)
    <3>1. FileSystem(t) /\ d \in Seq(Names)
      BY <2>1, <1>1 DEF Larger, Here
    <3>2. PICK c : c = Append(d, Head(p))
      OBVIOUS
    <3>3. Unfolds(t, n, d, p, s, b, c)
      BY <1>2, <3>1, <3>2, AtStep
    <3> QED  BY <1>1, <1>2, <3>3 DEF Unfolds, Here, Rest
  <2>2. \A t, s, b : Rest(t, s, b)' = At(t, n, d, Tail(p), s, b)
    BY <1>1 DEF Here, Rest, Dot, Allowed, Rejects
  <2>3. ends \in BOOLEAN /\ ends' = ends /\ Keeps' = Keeps /\ Keeps \in BOOLEAN
    BY <1>1 DEF IInv, PathTypeOK, Dot, Keeps, Rejects, Here
  <2>4. (OnTheWay /\ NewIsNeeded /\ Done)'
    <3>1. result' = "none" /\ UNCHANGED <<tree, before, descendant, flags>>
      BY DEF Dot, Walking
    <3>2. Keeps => descendant.slash = ~ends'
      BY <1>6, <2>3 DEF OnTheWay
    <3>3. \A t : Larger(t) =>
              /\ Rest(t, ~ends, Keeps) = Rest(t, ~ends, Keeps)'
              /\ Keeps /\ ~ends' => ~ends /\ Rest(t, FALSE, TRUE) = Rest(t, FALSE, TRUE)'
      BY <2>1, <2>2, <2>3
    <3> QED  BY <1>6, <3>1, <3>2, <3>3, WalksOn
  <2> QED  BY <1>3, <1>4, <2>4 DEF WalkInv
<1> QED  BY <1>5, <1>6 DEF WalkInv

\* Everything below the top of the stack is a directory, and if the walk goes on so
\* is the top.
LEMMA AllDirs ==
    ASSUME IInv, WalkInv, remaining # <<>>
    PROVE  fds \in Seq(Dirs(tree)) /\ Len(fds) > 0
<1>1. Len(fds) > 0 /\ Len(fds) \in Nat /\ fds \in Seq(Seq(Names)) /\ Last(fds) = fds[Len(fds)]
  BY TopIsPath, LastIs DEF IInv, PathTypeOK
<1>2. \A i \in 1 .. Len(fds) : fds[i] \in Dirs(tree)
  <2>1. \A i \in 1 .. Len(fds) : i \in 1 .. Len(fds) - 1 \/ i = Len(fds)
    BY <1>1
  <2> QED  BY <1>1, <2>1 DEF WalkInv, InDirectory
<1>3. PICK S : S = Dirs(tree)
  OBVIOUS
<1>4. fds \in Seq(S)
  BY <1>1, <1>2, <1>3
<1> QED  BY <1>1, <1>3, <1>4

LEMMA DirectoriesStay ==
    ASSUME NEW S, NEW fs \in Seq(S), Len(fs) > 0
    PROVE  (\A i \in 1 .. Len(fs) - 1 : fs[i] \in S) /\ Last(fs) \in S
BY LastIs

LEMMA WalkDotDot == ASSUME WellFormed, IInv, WalkInv, DotDot PROVE WalkInv'
<1>1. PICK n, d, p, k : Here(n, d, p, k)
  BY HereExists
<1>2. p # <<>> /\ Head(p) = ".." /\ n \in Nat /\ d \in Dirs(tree) /\ p \in Seq(Components)
  BY <1>1 DEF Here, DotDot, Walking, Next1
<1>3. Typed'
  BY DEF WalkInv, Typed, DotDot, Rejects
<1>4. fds \in Seq(Dirs(tree)) /\ Len(fds) > 0 /\ Len(fds) \in Nat
  BY <1>1, <1>2, AllDirs DEF Here
<1>5. fds' \in Seq(Dirs(tree)) /\ Len(fds') > 0
  BY <1>4, FrontIs DEF DotDot, Up
<1>6. InDirectory'
  <2>1. Dirs(tree)' = Dirs(tree)
    BY DEF DotDot, Dirs
  <2>2. (\A i \in 1 .. Len(fds') - 1 : fds'[i] \in Dirs(tree)) /\ Last(fds') \in Dirs(tree)
    BY <1>5, DirectoriesStay
  <2> QED  BY <2>1, <2>2 DEF InDirectory
<1>7. CASE Strayed
  <2>1. Strayed'
    BY <1>7, StaysStrayed DEF DotDot, Larger
  <2> QED  BY <1>3, <1>6, <2>1 DEF WalkInv
<1>8. CASE OnTheWay /\ NewIsNeeded
  <2>1. ASSUME NEW t, Larger(t), NEW s \in BOOLEAN, NEW b \in BOOLEAN
        PROVE  Rest(t, s, b) = At(t, n, Parent(d), Tail(p), s, b)
    <3>1. FileSystem(t) /\ d \in Seq(Names)
      BY <2>1, <1>1 DEF Larger, Here
    <3>2. PICK c : c = Append(d, Head(p))
      OBVIOUS
    <3>3. Unfolds(t, n, d, p, s, b, c)
      BY <1>2, <3>1, <3>2, AtStep
    <3> QED  BY <1>1, <1>2, <3>3 DEF Unfolds, Here, Rest
  <2>2. Last(fds') = Parent(d)
    <3>1. d = current_path /\ Len(fds) = Len(current_path) + 1 /\ current_path \in Seq(Names)
      BY <1>1, TopIsPath DEF Here, IInv, PathIsTrue, PathTypeOK
    <3>2. Last(fds') = current_path'
      <4>1. /\ fds' \in Seq(Seq(Names)) /\ current_path' \in Seq(Names) /\ PathIsTrue'
        BY DotDotKeeps DEF IInv
      <4>2. PICK fs, path : fs = fds' /\ path = current_path'
        OBVIOUS
      <4>3. /\ fs \in Seq(Seq(Names)) /\ path \in Seq(Names) /\ Len(fs) = Len(path) + 1
            /\ \A i \in DOMAIN fs : fs[i] = SubSeq(path, 1, i - 1)
        BY <4>1, <4>2 DEF PathIsTrue
      <4> QED  BY <4>2, <4>3, RootIsTop
    <3>3. current_path' = Parent(d)
      <4>1. current_path' = IF Len(current_path) > 0 THEN Front(current_path) ELSE current_path
        BY DEF DotDot, Up
      <4>2. Len(current_path) > 0 <=> current_path # <<>>
        BY <3>1, EmptySeq
      <4> QED  BY <3>1, <4>1, <4>2 DEF Parent
    <3> QED  BY <3>2, <3>3
  <2>3. \A t, s, b : Rest(t, s, b)' = At(t, n, Parent(d), Tail(p), s, b)
    BY <1>1, <2>2 DEF Here, Rest, DotDot, Allowed, Rejects
  <2>4. ends \in BOOLEAN /\ ends' = ends /\ Keeps' = Keeps /\ Keeps \in BOOLEAN
    BY <1>1 DEF IInv, PathTypeOK, DotDot, Keeps, Rejects, Here
  <2>5. (OnTheWay /\ NewIsNeeded /\ Done)'
    <3>1. result' = "none" /\ UNCHANGED <<tree, before, descendant, flags>>
      BY DEF DotDot, Walking
    <3>2. Keeps => descendant.slash = ~ends'
      BY <1>8, <2>4 DEF OnTheWay
    <3>3. \A t : Larger(t) =>
              /\ Rest(t, ~ends, Keeps) = Rest(t, ~ends, Keeps)'
              /\ Keeps /\ ~ends' => ~ends /\ Rest(t, FALSE, TRUE) = Rest(t, FALSE, TRUE)'
      BY <2>1, <2>3, <2>4
    <3> QED  BY <1>8, <3>1, <3>2, <3>3, WalksOn
  <2> QED  BY <1>3, <1>6, <2>5 DEF WalkInv
<1> QED  BY <1>7, <1>8 DEF WalkInv

\* What the walk finds next, as constants too.
LEMMA NextIsHere ==
    ASSUME IInv, WalkInv, Named, NEW n, NEW d, NEW p, NEW k, Here(n, d, p, k)
    PROVE  /\ p # <<>> /\ Head(p) \notin {".", ".."} /\ d \in Dirs(tree) /\ n \in Nat
           /\ p \in Seq(Components) /\ d \in Seq(Names)
           /\ Found = Append(d, Head(p)) /\ Found \in Seq(Names)
           /\ (Final <=> Len(p) = 1 /\ ends) /\ ends \in BOOLEAN /\ result = "none"
<1>1. p # <<>> /\ Head(p) \notin {".", ".."} /\ p \in Seq(Components) /\ d \in Seq(Names)
  BY DEF Here, Named, Walking, Next1
<1>2. Head(p) \in Components
  BY <1>1, TailFacts
<1>3. Head(p) \in Names
  BY <1>1, <1>2 DEF Components
<1>4. Append(d, Head(p)) \in Seq(Names)
  BY <1>1, <1>3
<1> QED  BY <1>1, <1>4 DEF Here, Found, Next1, Final, Named, Walking, IInv, PathTypeOK

LEMMA EnterDirectory ==
    ASSUME IInv, WalkInv, Named, Enter, Dirs(tree) \subseteq Dirs(tree)',
           Len(remaining) # 1 \/ "MUST_BE_DIRECTORY" \in flags => Found \in Dirs(tree)'
    PROVE  InDirectory'
<1>1. remaining # <<>> /\ remaining \in Seq(Components)
  BY DEF Named, Walking, IInv, PathTypeOK
<1>2. fds \in Seq(Dirs(tree)) /\ Len(fds) \in Nat
  BY <1>1, AllDirs
<1>3. fds' = Append(fds, Found) /\ remaining' = Tail(remaining) /\ flags' = flags
  BY DEF Enter
<1>4. /\ Len(fds') = Len(fds) + 1 /\ Last(fds') = Found
      /\ \A i \in 1 .. Len(fds) : fds'[i] = fds[i] /\ fds[i] \in Dirs(tree)
  <2>1. PICK f : f = Found
    OBVIOUS
  <2>2. fds' = Append(fds, f)
    BY <1>3, <2>1
  <2> QED  BY <1>2, <2>1, <2>2 DEF Last
<1>5. Len(remaining) = 1 <=> Tail(remaining) = <<>>
  BY <1>1, TailFacts
<1>6. \A i \in 1 .. Len(fds') - 1 : fds'[i] \in Dirs(tree)'
  BY <1>2, <1>4
<1>7. remaining' # <<>> \/ "MUST_BE_DIRECTORY" \in flags' => Last(fds') \in Dirs(tree)'
  BY <1>3, <1>4, <1>5
<1> QED  BY <1>6, <1>7 DEF InDirectory

LEMMA WalkOpenFound == ASSUME WellFormed, IInv, WalkInv, OpenFound PROVE WalkInv'
<1>1. PICK n, d, p, k : Here(n, d, p, k)
  BY HereExists
<1>2. PICK c : c = Append(d, Head(p))
  OBVIOUS
<1>3. Named /\ Enter /\ Exists /\ (IsLink => ~Rejects /\ KeptLink) /\ MayEnter /\ tree' = tree
  BY DEF OpenFound, NotLink, Rejects
<1>4. /\ p # <<>> /\ Head(p) \notin {".", ".."} /\ d \in Dirs(tree) /\ n \in Nat
      /\ p \in Seq(Components) /\ d \in Seq(Names) /\ Found = c
      /\ (Final <=> Len(p) = 1 /\ ends) /\ ends \in BOOLEAN /\ result = "none"
  BY <1>1, <1>2, <1>3, NextIsHere
<1>5. /\ c \in DOMAIN tree
      /\ tree[c].kind = "link" => Keeps /\ Len(p) = 1 /\ ends
      /\ tree[c].kind = "dir" \/ (Len(p) = 1 /\ ends /\ "MUST_BE_DIRECTORY" \notin flags)
  BY <1>3, <1>4 DEF Exists, IsLink, KeptLink, Keeps, MayEnter
<1>6. Typed'
  BY <1>3 DEF WalkInv, Typed, Enter, Rejects
<1>7. InDirectory'
  <2>1. Dirs(tree)' = Dirs(tree)
    BY <1>3 DEF Dirs
  <2>2. Len(remaining) # 1 \/ "MUST_BE_DIRECTORY" \in flags => Found \in Dirs(tree)'
    BY <1>1, <1>4, <1>5, <2>1 DEF Here, Dirs
  <2> QED  BY <1>3, <2>1, <2>2, EnterDirectory
<1>8. CASE Strayed
  <2>1. Strayed'
    BY <1>3, <1>8, StaysStrayed DEF Enter, Larger
  <2> QED  BY <1>6, <1>7, <2>1 DEF WalkInv
<1>9. CASE OnTheWay /\ NewIsNeeded
  <2>1. ASSUME NEW t, Larger(t), NEW s \in BOOLEAN, NEW b \in BOOLEAN,
               (s = ~ends /\ b = Keeps) \/ (~ends /\ ~s /\ b)
        PROVE  Rest(t, s, b) = At(t, n, c, Tail(p), s, b)
    <3>1. FileSystem(t) /\ c \in DOMAIN t /\ t[c] = tree[c]
      BY <2>1, <1>5 DEF Larger
    <3>2. t[c].kind # "link" \/ (b /\ Len(p) = 1 /\ ~s)
      BY <1>5, <2>1, <3>1
    <3>3. t[c].kind = "dir" \/ (Len(p) = 1 /\ ~s)
      BY <1>5, <2>1, <3>1
    <3>4. At(t, n, d, p, s, b) = At(t, n, c, Tail(p), s, b)
      <4>1. /\ FileSystem(t) /\ n \in Nat /\ d \in Seq(Names) /\ p \in Seq(Components)
            /\ p # <<>> /\ Head(p) \notin {".", ".."} /\ s \in BOOLEAN /\ b \in BOOLEAN
            /\ c = Append(d, Head(p)) /\ c \in DOMAIN t
        BY <1>2, <1>4, <2>1, <3>1
      <4>2. GoesOn(t, n, d, p, s, b, c)
        BY <3>2, <3>3, <4>1, Enters
      <4> QED  BY <4>2 DEF GoesOn
    <3> QED  BY <1>1, <3>4 DEF Here, Rest
  <2>2. Last(fds') = c
    <3>1. fds \in Seq(Seq(Names)) /\ c \in Seq(Names) /\ fds' = Append(fds, c)
      BY <1>3, <1>4, <1>5 DEF IInv, PathTypeOK, Enter, WalkInv, Typed, FileSystem
    <3> QED  BY <3>1 DEF Last
  <2>3. \A t, s, b : Rest(t, s, b)' = At(t, n, c, Tail(p), s, b)
    BY <1>1, <1>3, <2>2 DEF Here, Rest, Enter, Allowed, Rejects
  <2>4. ends \in BOOLEAN /\ ends' = ends /\ Keeps' = Keeps /\ Keeps \in BOOLEAN
    BY <1>3, <1>4 DEF Enter, Keeps, Rejects
  <2>5. (OnTheWay /\ NewIsNeeded /\ Done)'
    <3>1. result' = "none" /\ UNCHANGED <<tree, before, descendant, flags>>
      BY <1>3, <1>4 DEF Enter
    <3>2. Keeps => descendant.slash = ~ends'
      BY <1>9, <2>4 DEF OnTheWay
    <3>3. \A t : Larger(t) =>
              /\ Rest(t, ~ends, Keeps) = Rest(t, ~ends, Keeps)'
              /\ Keeps /\ ~ends' => ~ends /\ Rest(t, FALSE, TRUE) = Rest(t, FALSE, TRUE)'
      BY <2>1, <2>3, <2>4
    <3> QED  BY <1>9, <3>1, <3>2, <3>3, WalksOn
  <2> QED  BY <1>6, <1>7, <2>5 DEF WalkInv
<1> QED  BY <1>8, <1>9 DEF WalkInv

-----------------------------------------------------------------------------
(* The end of the walk.                                                    *)

\* If nothing but the result changes, it has to be right.
LEMMA WalkStays ==
    ASSUME WalkInv, UNCHANGED <<tree, before, descendant, flags, remaining, ends, fds, followed>>,
           OnTheWay /\ Done =>
               (result' # "none" => /\ result' = Expected.error
                                    /\ result' = "opened" => Last(fds) = Expected.file)
    PROVE  WalkInv'
<1>1. Typed' /\ InDirectory'
  BY DEF WalkInv, Typed, InDirectory, Dirs, Rejects
<1>2. CASE Strayed
  <2>1. Strayed'
    BY <1>2, StaysStrayed DEF Larger
  <2> QED  BY <1>1, <2>1 DEF WalkInv
<1>3. CASE OnTheWay /\ NewIsNeeded /\ Done
  <2>1. OnTheWay'
    BY <1>3 DEF OnTheWay, Larger, Kernel, Rest, Keeps, Rejects, Allowed
  <2>2. NewIsNeeded'
    <3>1. \A t, p : Lacks(t, p)' <=> Lacks(t, p)
      BY DEF Lacks, Beneath
    <3>2. \A t, s, k : Kernel(t, s, k)' = Kernel(t, s, k)
      BY DEF Kernel, Rejects, Allowed
    <3>3. Keeps' = Keeps
      BY DEF Keeps, Rejects
    <3> QED  BY <1>3, <3>1, <3>2, <3>3 DEF NewIsNeeded
  <2>3. Expected' = Expected
    BY DEF Expected, Kernel, Keeps, Rejects, Allowed
  <2>4. Done'
    BY <1>3, <2>3 DEF Done
  <2> QED  BY <1>1, <2>1, <2>2, <2>4 DEF WalkInv
<1> QED  BY <1>2, <1>3 DEF WalkInv

LEMMA WalkEnds ==
    ASSUME WalkInv, NEW error, Fail(error),
           OnTheWay => /\ error = Expected.error
                       /\ error = "opened" => Last(fds) = Expected.file
    PROVE  WalkInv'
BY WalkStays DEF Fail

\* What the kernel finds in the tree as it is.
LEMMA KernelFromHere ==
    ASSUME WalkInv, OnTheWay, NEW n, NEW d, NEW p, NEW k, Here(n, d, p, k)
    PROVE  Kernel(tree, descendant.slash, Keeps) = At(tree, n, d, p, ~ends, k)
BY ItselfIsLarger DEF OnTheWay, Rest, Here

LEMMA WalkMissing == ASSUME WellFormed, IInv, WalkInv, Missing PROVE WalkInv'
<1>1. PICK n, d, p, k : Here(n, d, p, k)
  BY HereExists
<1>2. PICK c : c = Append(d, Head(p))
  OBVIOUS
<1>3. Named /\ ~Exists /\ Fail("missing")
  BY DEF Missing
<1>4. ASSUME OnTheWay PROVE "missing" = Expected.error
  <2>1. /\ p # <<>> /\ Head(p) \notin {".", ".."} /\ n \in Nat /\ c \notin DOMAIN tree
        /\ p \in Seq(Components) /\ d \in Seq(Names) /\ k \in BOOLEAN /\ (~ends) \in BOOLEAN
        /\ FileSystem(tree)
    BY <1>1, <1>2, <1>3, NextIsHere DEF WalkInv, Typed, Here, Exists
  <2>2. At(tree, n, d, p, ~ends, k) = Error("missing")
    <3>1. Halts(tree, n, d, p, ~ends, k, c)
      BY <1>2, <2>1, Stops
    <3> QED  BY <2>1, <3>1 DEF Halts
  <2>3. Kernel(tree, descendant.slash, Keeps) = Error("missing")
    BY <1>1, <1>4, <2>2, KernelFromHere
  <2> QED  BY <2>3 DEF Expected, Error
<1> QED  BY <1>3, <1>4, WalkEnds

LEMMA WalkRejectLink == ASSUME WellFormed, IInv, WalkInv, RejectLink PROVE WalkInv'
<1>1. PICK n, d, p, k : Here(n, d, p, k)
  BY HereExists
<1>2. PICK c : c = Append(d, Head(p))
  OBVIOUS
<1>3. Named /\ Exists /\ IsLink /\ Rejects /\ Fail("symlink")
  BY DEF RejectLink, Rejects
<1>4. ASSUME OnTheWay PROVE "symlink" = Expected.error
  <2>1. /\ p # <<>> /\ Head(p) \notin {".", ".."} /\ n \in Nat
        /\ c \in DOMAIN tree /\ tree[c].kind = "link"
        /\ p \in Seq(Components) /\ d \in Seq(Names) /\ k \in BOOLEAN /\ (~ends) \in BOOLEAN
        /\ FileSystem(tree)
    BY <1>1, <1>2, <1>3, NextIsHere DEF WalkInv, Typed, Here, Exists, IsLink
  <2>2. n = 0 /\ ~k
    <3>1. Allowed = 0 /\ followed = 0 /\ ~Keeps
      BY <1>3 DEF WalkInv, Typed, Allowed, Keeps
    <3> QED  BY <1>1, <3>1 DEF Here
  <2>3. At(tree, n, d, p, ~ends, k) = Error("loop")
    <3>1. Halts(tree, n, d, p, ~ends, k, c)
      BY <1>2, <2>1, Stops
    <3> QED  BY <2>1, <2>2, <3>1 DEF Halts
  <2>4. Kernel(tree, descendant.slash, Keeps) = Error("loop")
    BY <1>1, <1>4, <2>3, KernelFromHere
  <2> QED  BY <1>3, <2>4 DEF Expected, Error
<1> QED  BY <1>3, <1>4, WalkEnds

LEMMA WalkNotDirectory == ASSUME WellFormed, IInv, WalkInv, NotDirectory PROVE WalkInv'
<1>1. PICK n, d, p, k : Here(n, d, p, k)
  BY HereExists
<1>2. PICK c : c = Append(d, Head(p))
  OBVIOUS
<1>3. Named /\ Exists /\ (IsLink => ~Rejects /\ KeptLink) /\ ~MayEnter /\ Fail("not_dir")
  BY DEF NotDirectory, NotLink, Rejects
<1>4. ASSUME OnTheWay PROVE "not_dir" = Expected.error
  <2>1. /\ p # <<>> /\ Head(p) \notin {".", ".."} /\ n \in Nat /\ Found = c
        /\ c \in Seq(Names) /\ c \in DOMAIN tree /\ tree[c].kind # "dir"
        /\ p \in Seq(Components) /\ d \in Seq(Names) /\ k \in BOOLEAN /\ (~ends) \in BOOLEAN
        /\ (Final <=> Len(p) = 1 /\ ends) /\ FileSystem(tree)
    BY <1>1, <1>2, <1>3, NextIsHere DEF WalkInv, Typed, Here, Exists, MayEnter
  <2>2. tree[c].kind # "link" \/ (k /\ Len(p) = 1 /\ ends)
    BY <1>1, <1>3, <2>1 DEF Here, IsLink, KeptLink, Keeps
  <2>3. CASE Len(p) = 1 /\ ends
    <3>1. "MUST_BE_DIRECTORY" \in flags
      BY <1>3, <2>1, <2>3 DEF MayEnter
    <3>2. GoesOn(tree, n, d, p, ~ends, k, c)
      BY <1>2, <2>1, <2>2, <2>3, Enters
    <3>3. Tail(p) = <<>>
      BY <2>1, <2>3, TailFacts
    <3>4. At(tree, n, c, <<>>, ~ends, k) = Opened(c, n)
      BY <2>1, AtEnd
    <3>5. Kernel(tree, descendant.slash, Keeps) = Opened(c, n)
      <4>1. Kernel(tree, descendant.slash, Keeps) = At(tree, n, d, p, ~ends, k)
        BY <1>1, <1>4, KernelFromHere
      <4> QED  BY <3>2, <3>3, <3>4, <4>1 DEF GoesOn
    <3> QED  BY <2>1, <3>1, <3>5 DEF Expected, Opened, Error
  <2>4. CASE ~(Len(p) = 1 /\ ends)
    <3>1. At(tree, n, d, p, ~ends, k) = Error("not_dir")
      <4>1. Halts(tree, n, d, p, ~ends, k, c)
        BY <1>2, <2>1, Stops
      <4> QED  BY <2>1, <2>2, <2>4, <4>1 DEF Halts
    <3>2. Kernel(tree, descendant.slash, Keeps) = Error("not_dir")
      BY <1>1, <1>4, <3>1, KernelFromHere
    <3> QED  BY <3>2 DEF Expected, Error
  <2> QED  BY <2>3, <2>4
<1> QED  BY <1>3, <1>4, WalkEnds

LEMMA WalkReturn == ASSUME WellFormed, IInv, WalkInv, Return PROVE WalkInv'
<1>1. PICK n, d, p, k : Here(n, d, p, k)
  BY HereExists
<1>2. PICK e : e = IF "MUST_BE_REGULAR" \in flags /\ tree[d].kind # "file"
                   THEN "not_regular" ELSE "opened"
  OBVIOUS
<1>3. Fail(e) /\ e # "none" /\ p = <<>> /\ d = Last(fds) /\ d \in DOMAIN tree
  BY <1>1, <1>2 DEF Return, Fail, Here
<1>4. ASSUME OnTheWay PROVE e = Expected.error /\ (e = "opened" => d = Expected.file)
  <2>1. At(tree, n, d, <<>>, ~ends, k) = Opened(d, n)
    <3>1. n \in Nat /\ d \in Seq(Names) /\ k \in BOOLEAN /\ (~ends) \in BOOLEAN /\ FileSystem(tree)
      BY <1>1 DEF Here, WalkInv, Typed, IInv, PathTypeOK
    <3> QED  BY <3>1, AtEnd
  <2>2. Kernel(tree, descendant.slash, Keeps) = Opened(d, n)
    BY <1>1, <1>3, <1>4, <2>1, KernelFromHere
  <2>3. "MUST_BE_DIRECTORY" \in flags => tree[d].kind = "dir"
    BY <1>3 DEF WalkInv, InDirectory, Dirs
  <2> QED  BY <1>2, <2>2, <2>3 DEF Expected, Opened, Error
<1> QED  BY <1>3, <1>4, WalkEnds

-----------------------------------------------------------------------------
(* A symbolic link is replaced by its target.                              *)

\* Where the walk goes on.
LEMMA LinkTarget ==
    ASSUME WellFormed, IInv, WalkInv, FollowLink,
           NEW n, NEW d, NEW p, NEW k, Here(n, d, p, k), NEW link, link = tree[Found].target
    PROVE  /\ fds' \in Seq(Dirs(tree)) /\ Len(fds') > 0 /\ Last(fds') = WalksFrom(d, link)
           /\ remaining' = link.parts \o Tail(p)
           /\ ends' = IF Len(p) = 1 THEN ~link.slash ELSE ends
           /\ Allowed' - followed' = n - 1 /\ n > 0
           /\ link.parts \in Seq(Components) /\ link.slash \in BOOLEAN
<1>1. remaining = p /\ p # <<>> /\ d = Last(fds) /\ n = Allowed - followed /\ Found \in DOMAIN tree
      /\ tree[Found].kind = "link"
  BY DEF Here, FollowLink, Named, Walking, Exists, IsLink
<1>2. fds \in Seq(Dirs(tree)) /\ Len(fds) > 0 /\ Len(fds) \in Nat
  BY <1>1, AllDirs
<1>3. /\ fds' = (IF link.absolute THEN SubSeq(fds, 1, 1) ELSE fds)
      /\ remaining' = link.parts \o Tail(p)
      /\ ends' = IF Len(p) = 1 THEN ~link.slash ELSE ends
  BY <1>1 DEF FollowLink, Origin
<1>4. fds' \in Seq(Dirs(tree)) /\ Len(fds') > 0 /\ Last(fds') = WalksFrom(d, link)
  <2>1. CASE link.absolute
    <3>1. PICK S : S = Dirs(tree)
      OBVIOUS
    <3>2. SubSeq(fds, 1, 1) \in Seq(S) /\ Len(SubSeq(fds, 1, 1)) = 1
          /\ SubSeq(fds, 1, 1)[1] = fds[1]
      BY <1>2, <3>1
    <3>3. fds[1] = <<>>
      <4>1. fds[1] = SubSeq(current_path, 1, 1 - 1)
        BY <1>2 DEF IInv, PathIsTrue
      <4>2. current_path \in Seq(Names)
        BY DEF IInv, PathTypeOK
      <4> QED  BY <4>1, <4>2
    <3> QED  BY <1>3, <2>1, <3>1, <3>2, <3>3 DEF Last, WalksFrom
  <2>2. CASE ~link.absolute
    BY <1>1, <1>2, <1>3, <2>2 DEF WalksFrom
  <2> QED  BY <2>1, <2>2
<1>5. Allowed' - followed' = n - 1 /\ n > 0
  <2>1. Allowed = MaxLinks /\ Allowed' = MaxLinks
    BY DEF FollowLink, Allowed, Rejects
  <2> QED  BY <1>1, <2>1 DEF FollowLink, WalkInv, Typed, WellFormed
<1>6. link.parts \in Seq(Components) /\ link.slash \in BOOLEAN
  BY <1>1 DEF WalkInv, Typed, FileSystem
<1> QED  BY <1>3, <1>4, <1>5, <1>6

LEMMA WalkFollowLink == ASSUME WellFormed, IInv, WalkInv, FollowLink PROVE WalkInv'
<1>1. PICK n, d, p, k : Here(n, d, p, k)
  BY HereExists
<1>2. PICK c, link : c = Append(d, Head(p)) /\ link = tree[Found].target
  OBVIOUS
<1>3. /\ Named /\ Exists /\ IsLink /\ ~Rejects /\ ~KeptLink /\ result' = result
      /\ UNCHANGED <<tree, before, descendant, flags>>
  BY DEF FollowLink, Rejects
<1>4. /\ p # <<>> /\ Head(p) \notin {".", ".."} /\ d \in Dirs(tree) /\ n \in Nat
      /\ p \in Seq(Components) /\ d \in Seq(Names) /\ Found = c
      /\ (Final <=> Len(p) = 1 /\ ends) /\ ends \in BOOLEAN /\ result = "none"
  BY <1>1, <1>2, <1>3, NextIsHere
<1>5. /\ c \in DOMAIN tree /\ tree[c].kind = "link" /\ tree[c].target = link
      /\ ~(Keeps /\ Len(p) = 1 /\ ends)
  BY <1>2, <1>3, <1>4 DEF Exists, IsLink, KeptLink, Keeps
<1>6. /\ fds' \in Seq(Dirs(tree)) /\ Len(fds') > 0 /\ Last(fds') = WalksFrom(d, link)
      /\ remaining' = link.parts \o Tail(p)
      /\ ends' = IF Len(p) = 1 THEN ~link.slash ELSE ends
      /\ Allowed' - followed' = n - 1 /\ n > 0
      /\ link.parts \in Seq(Components) /\ link.slash \in BOOLEAN
  BY <1>1, <1>2, LinkTarget
<1>7. Typed'
  <2>1. followed' \in 0 .. MaxLinks
    BY DEF FollowLink, WalkInv, Typed, WellFormed
  <2> QED  BY <1>3, <2>1 DEF WalkInv, Typed, Rejects
<1>8. InDirectory'
  <2>1. Dirs(tree)' = Dirs(tree)
    BY <1>3 DEF Dirs
  <2>2. (\A i \in 1 .. Len(fds') - 1 : fds'[i] \in Dirs(tree)) /\ Last(fds') \in Dirs(tree)
    BY <1>6, DirectoriesStay
  <2> QED  BY <2>1, <2>2 DEF InDirectory
<1>9. CASE Strayed
  <2>1. Strayed'
    BY <1>3, <1>9, StaysStrayed DEF Larger
  <2> QED  BY <1>7, <1>8, <2>1 DEF WalkInv
<1>10. CASE OnTheWay /\ NewIsNeeded /\ Keeps /\ Len(p) = 1
  <2>1. ~ends /\ descendant.slash
    BY <1>4, <1>5, <1>10 DEF OnTheWay
  <2>2. ASSUME NEW t, Larger(t) PROVE IsA(t, Kernel(t, FALSE, TRUE), "link")
    <3>1. FileSystem(t) /\ c \in DOMAIN t /\ t[c] = tree[c]
      BY <1>5, <2>2 DEF Larger
    <3>2. Kernel(t, FALSE, TRUE) = At(t, n, d, p, FALSE, TRUE)
      BY <1>1, <1>10, <2>1, <2>2 DEF OnTheWay, Here, Rest
    <3>3. GoesOn(t, n, d, p, FALSE, TRUE, c)
      BY <1>2, <1>4, <1>10, <3>1, Enters
    <3>4. Tail(p) = <<>> /\ c \in Seq(Names)
      BY <1>4, <1>10, <3>1, TailFacts DEF FileSystem
    <3>5. At(t, n, c, <<>>, FALSE, TRUE) = Opened(c, n)
      BY <1>4, <3>1, <3>4, AtEnd
    <3>6. Kernel(t, FALSE, TRUE) = Opened(c, n)
      BY <3>2, <3>3, <3>4, <3>5 DEF GoesOn
    <3>7. Opened(c, n).error = "opened" /\ Opened(c, n).file = c
      BY DEF Opened
    <3>8. t[c].kind = "link"
      BY <1>5, <3>1
    <3> QED  BY <3>6, <3>7, <3>8 DEF IsA, Finds
  <2>3. Strayed
    BY <1>10, <2>1, <2>2 DEF Strayed
  <2>4. Strayed'
    BY <1>3, <2>3, StaysStrayed DEF Larger
  <2> QED  BY <1>7, <1>8, <2>4 DEF WalkInv
<1>11. CASE OnTheWay /\ NewIsNeeded /\ ~(Keeps /\ Len(p) = 1)
  <2>1. ASSUME NEW t, Larger(t), NEW s \in BOOLEAN, NEW b \in BOOLEAN, b => Keeps
        PROVE  /\ Len(p) # 1 => Rest(t, s, b)
                                  = At(t, n - 1, WalksFrom(d, link), link.parts \o Tail(p), s, b)
               /\ Len(p) = 1 => Rest(t, s, b)
                                  = At(t, n - 1, WalksFrom(d, link), link.parts, link.slash, FALSE)
    <3>1. FileSystem(t) /\ c \in DOMAIN t /\ t[c] = tree[c] /\ d \in Dirs(t)
      BY <1>4, <1>5, <2>1, LargerDirs DEF Larger
    <3>2. t[c].kind = "link" /\ link = t[c].target /\ ~(b /\ Len(p) = 1 /\ ~s)
      BY <1>5, <1>11, <2>1, <3>1
    <3>3. Leads(t, n, d, p, s, b, link)
      BY <1>2, <1>4, <1>6, <3>1, <3>2, Follows
    <3>4. Rest(t, s, b) = At(t, n, d, p, s, b)
      BY <1>1 DEF Here, Rest
    <3> QED  BY <3>3, <3>4 DEF Leads
  <2>2. \A t, s, b : Rest(t, s, b)' = At(t, n - 1, WalksFrom(d, link), link.parts \o Tail(p), s, b)
    BY <1>6 DEF Rest
  <2>3. Keeps' = Keeps /\ Keeps \in BOOLEAN /\ (Keeps => ends' = ends) /\ ends' \in BOOLEAN
    BY <1>3, <1>4, <1>6, <1>11 DEF Keeps, Rejects
  <2>4. Len(p) = 1 => /\ link.parts \o Tail(p) = link.parts
                      /\ (~ends') = link.slash /\ Keeps = FALSE
    <3>1. Len(p) = 1 => Tail(p) = <<>>
      BY <1>4, TailFacts
    <3>2. link.parts \o <<>> = link.parts
      BY <1>6
    <3>3. Len(p) = 1 => (~ends') = link.slash
      BY <1>6
    <3>4. Len(p) = 1 => Keeps = FALSE
      BY <1>11, <2>3
    <3> QED  BY <3>1, <3>2, <3>3, <3>4
  <2>5. (OnTheWay /\ NewIsNeeded /\ Done)'
    <3>1. result' = "none"
      BY <1>3, <1>4
    <3>2. Keeps => descendant.slash = ~ends'
      BY <1>11, <2>3 DEF OnTheWay
    <3>3. ASSUME NEW t, Larger(t)
          PROVE  /\ Rest(t, ~ends, Keeps) = Rest(t, ~ends, Keeps)'
                 /\ Keeps /\ ~ends' => ~ends /\ Rest(t, FALSE, TRUE) = Rest(t, FALSE, TRUE)'
      <4>1. CASE Len(p) = 1
        <5>1. Rest(t, ~ends, Keeps)
                = At(t, n - 1, WalksFrom(d, link), link.parts, link.slash, FALSE)
          BY <1>4, <2>1, <2>3, <3>3, <4>1
        <5>2. Rest(t, ~ends, Keeps)'
                = At(t, n - 1, WalksFrom(d, link), link.parts, link.slash, FALSE)
          BY <2>2, <2>3, <2>4, <4>1
        <5> QED  BY <2>4, <4>1, <5>1, <5>2
      <4>2. CASE Len(p) # 1
        <5>1. ends' = ends
          BY <1>6, <4>2
        <5> QED  BY <1>4, <2>1, <2>2, <2>3, <3>3, <4>2, <5>1
      <4> QED  BY <4>1, <4>2
    <3> QED  BY <1>3, <1>11, <3>1, <3>2, <3>3, WalksOn
  <2> QED  BY <1>7, <1>8, <2>5 DEF WalkInv
<1> QED  BY <1>9, <1>10, <1>11 DEF WalkInv

-----------------------------------------------------------------------------
(* A directory is created.                                                 *)

LEMMA NewTree ==
    ASSUME IInv, WalkInv, MakeDirectory, Found \in Seq(Names), Last(fds) \in Dirs(tree)
    PROVE  /\ DOMAIN tree' = DOMAIN tree \cup {Found} /\ Found \notin DOMAIN tree
           /\ \A p \in DOMAIN tree : tree'[p] = tree[p]
           /\ tree'[Found] = Directory
           /\ FileSystem(tree') /\ Dirs(tree) \subseteq Dirs(tree)' /\ Found \in Dirs(tree)'
<1>1. /\ DOMAIN tree' = DOMAIN tree \cup {Found} /\ Found \notin DOMAIN tree
      /\ \A p \in DOMAIN tree : tree'[p] = tree[p]
      /\ tree'[Found] = Directory
  <2>1. PICK f, t : f = Found /\ t = tree'
    OBVIOUS
  <2>2. /\ t = [p \in DOMAIN tree \cup {f} |-> IF p = f THEN Directory ELSE tree[p]]
        /\ f \notin DOMAIN tree
    BY <2>1 DEF MakeDirectory, Exists
  <2> QED  BY <2>1, <2>2
<1>2. FileSystem(tree)
  BY DEF WalkInv, Typed
<1>3. Front(Found) = Last(fds) /\ Found # <<>>
  <2>1. Last(fds) \in Seq(Names)
    BY <1>2, ParentIsDir
  <2>2. Next1 \in Names
    <3>1. remaining \in Seq(Components) /\ remaining # <<>>
      BY DEF MakeDirectory, Named, Walking, IInv, PathTypeOK
    <3>2. Head(remaining) \in Components
      BY <3>1, TailFacts
    <3> QED  BY <3>2 DEF Next1, Components, MakeDirectory, Named
  <2>3. PICK x, e : x = Last(fds) /\ e = Next1
    OBVIOUS
  <2>4. Found = Append(x, e) /\ x \in Seq(Names) /\ e \in Names
    BY <2>1, <2>2, <2>3 DEF Found
  <2>5. SubSeq(Append(x, e), 1, Len(x)) = x
    <3>1. SubSeq(Append(x, e), 1, Len(x)) = SubSeq(x, 1, Len(x)) /\ SubSeq(x, 1, Len(x)) = x
      BY <2>4, PrefixOfAppend
    <3> QED  BY <3>1
  <2>6. Len(Append(x, e)) - 1 = Len(x) /\ Append(x, e) # <<>>
    BY <2>4
  <2> QED  BY <2>3, <2>4, <2>5, <2>6 DEF Front
<1>4. FileSystem(tree')
  <2>1. DOMAIN tree' \subseteq Seq(Names) /\ <<>> \in DOMAIN tree' /\ tree'[<<>>].kind = "dir"
    BY <1>1, <1>2 DEF FileSystem
  <2>2. ASSUME NEW p \in DOMAIN tree' \ {<<>>}
        PROVE  Front(p) \in DOMAIN tree' /\ tree'[Front(p)].kind = "dir"
    <3>1. CASE p = Found
      BY <1>1, <1>3, <3>1 DEF Dirs
    <3>2. CASE p # Found
      BY <1>1, <1>2, <2>2, <3>2 DEF FileSystem
    <3> QED  BY <3>1, <3>2
  <2>3. ASSUME NEW p \in DOMAIN tree', tree'[p].kind = "link"
        PROVE  tree'[p].target.parts \in Seq(Components) /\ tree'[p].target.slash \in BOOLEAN
    <3>1. p # Found
      BY <1>1, <2>3 DEF Directory
    <3> QED  BY <1>1, <1>2, <2>3, <3>1 DEF FileSystem
  <2> QED  BY <2>1, <2>2, <2>3 DEF FileSystem
<1>5. Dirs(tree) \subseteq Dirs(tree)' /\ Found \in Dirs(tree)'
  BY <1>1 DEF Dirs, Directory
<1> QED  BY <1>1, <1>4, <1>5

LEMMA WalkMakeDirectory == ASSUME WellFormed, IInv, WalkInv, MakeDirectory PROVE WalkInv'
<1>1. PICK n, d, p, k : Here(n, d, p, k)
  BY HereExists
<1>2. PICK c : c = Append(d, Head(p))
  OBVIOUS
<1>3. Named /\ Enter
  BY DEF MakeDirectory
<1>4. /\ p # <<>> /\ Head(p) \notin {".", ".."} /\ d \in Dirs(tree) /\ n \in Nat
      /\ p \in Seq(Components) /\ d \in Seq(Names) /\ k \in BOOLEAN
      /\ Found = c /\ Found \in Seq(Names) /\ ends \in BOOLEAN /\ result = "none"
  BY <1>1, <1>2, <1>3, NextIsHere DEF Here
<1>5. /\ DOMAIN tree' = DOMAIN tree \cup {c} /\ c \notin DOMAIN tree /\ c \in Seq(Names)
      /\ \A q \in DOMAIN tree : tree'[q] = tree[q]
      /\ tree'[c] = Directory
      /\ FileSystem(tree') /\ Dirs(tree) \subseteq Dirs(tree)' /\ c \in Dirs(tree)'
  <2>1. Last(fds) \in Dirs(tree)
    BY <1>1, <1>4 DEF Here
  <2> QED  BY <1>4, <2>1, NewTree
<1>6. Typed'
  BY <1>3, <1>5 DEF WalkInv, Typed, Enter, Rejects
<1>7. InDirectory'
  BY <1>3, <1>4, <1>5, EnterDirectory
<1>8. \A t : Larger(t)' => Larger(t) /\ c \in DOMAIN t /\ t[c].kind = "dir"
  BY <1>5 DEF Larger, Directory
<1>9. Keeps' = Keeps /\ \A t, s, b : Kernel(t, s, b)' = Kernel(t, s, b)
  BY <1>3 DEF Enter, Keeps, Kernel, Rejects, Allowed
<1>10. CASE Strayed
  <2>1. Strayed'
    BY <1>3, <1>8, <1>10, StaysStrayed DEF Enter
  <2> QED  BY <1>6, <1>7, <2>1 DEF WalkInv
<1>11. CASE OnTheWay /\ NewIsNeeded
  <2>1. ASSUME NEW t, Larger(t), c \in DOMAIN t, t[c].kind = "dir",
               NEW s \in BOOLEAN, NEW b \in BOOLEAN
        PROVE  Rest(t, s, b) = At(t, n, c, Tail(p), s, b)
    <3>1. GoesOn(t, n, d, p, s, b, c)
      BY <1>2, <1>4, <2>1, Enters DEF Larger
    <3>2. Rest(t, s, b) = At(t, n, d, p, s, b)
      BY <1>1 DEF Here, Rest
    <3> QED  BY <3>1, <3>2 DEF GoesOn
  <2>2. Last(fds') = c
    <3>1. fds \in Seq(Seq(Names)) /\ fds' = Append(fds, c)
      BY <1>3, <1>4 DEF IInv, PathTypeOK, Enter
    <3> QED  BY <1>5, <3>1 DEF Last
  <2>3. \A t, s, b : Rest(t, s, b)' = At(t, n, c, Tail(p), s, b)
    BY <1>1, <1>3, <2>2 DEF Here, Rest, Enter, Allowed, Rejects
  <2>4. ends' = ends /\ Keeps \in BOOLEAN /\ descendant' = descendant /\ before' = before /\ result' = result
    BY <1>3 DEF Enter, Keeps
  <2>5. OnTheWay'
    <3>1. Keeps' => descendant'.slash = ~ends'
      BY <1>9, <1>11, <2>4 DEF OnTheWay
    <3>2. ASSUME NEW t, Larger(t)'
          PROVE  /\ Kernel(t, descendant.slash, Keeps) = At(t, n, c, Tail(p), ~ends, Keeps)
                 /\ Keeps /\ ~ends => Kernel(t, FALSE, TRUE) = At(t, n, c, Tail(p), FALSE, TRUE)
      BY <1>4, <1>8, <1>11, <2>1, <2>4, <3>2 DEF OnTheWay
    <3> QED  BY <1>9, <2>3, <2>4, <3>1, <3>2 DEF OnTheWay
  <2>6. ASSUME NEW q, q \in DOMAIN tree \/ q = c, q \notin DOMAIN before, NEW t, Lacks(t, q)'
        PROVE  Kernel(t, descendant.slash, Keeps).error = "missing"
    <3>1. CASE q \in DOMAIN tree
      <4>1. Lacks(t, q)
        BY <1>5, <2>6 DEF Lacks, Beneath
      <4> QED  BY <1>11, <2>6, <3>1, <4>1 DEF NewIsNeeded
    <3>2. CASE q = c
      <4>1. FileSystem(t) /\ c \notin DOMAIN t
        BY <2>6, <3>2 DEF Lacks
      <4>2. ASSUME NEW r \in DOMAIN tree PROVE r \in DOMAIN t /\ t[r] = tree[r]
        <5>1. ~IsPrefix(c, r)
          BY <1>5, PrefixExists DEF WalkInv, Typed
        <5>2. r \in DOMAIN tree' \ Beneath(c)' /\ tree'[r] = tree[r]
          BY <1>5, <5>1 DEF Beneath
        <5> QED  BY <2>6, <3>2, <5>2 DEF Lacks
      <4>3. Larger(t)
        BY <4>1, <4>2 DEF Larger
      <4>4. Halts(t, n, d, p, ~ends, k, c)
        <5>1. (~ends) \in BOOLEAN
          BY <1>4
        <5> QED  BY <1>2, <1>4, <4>1, <5>1, Stops
      <4>5. At(t, n, d, p, ~ends, k) = Error("missing")
        BY <4>1, <4>4 DEF Halts
      <4>6. Kernel(t, descendant.slash, Keeps) = Error("missing")
        BY <1>1, <1>11, <4>3, <4>5 DEF OnTheWay, Rest, Here
      <4> QED  BY <4>6 DEF Error
    <3> QED  BY <2>6, <3>1, <3>2
  <2>7. NewIsNeeded'
    BY <1>5, <1>9, <2>4, <2>6 DEF NewIsNeeded
  <2>8. Done'
    BY <1>4, <2>4 DEF Done
  <2> QED  BY <1>6, <1>7, <2>5, <2>7, <2>8 DEF WalkInv
<1> QED  BY <1>10, <1>11 DEF WalkInv

-----------------------------------------------------------------------------
(* Every step.                                                             *)

LEMMA WalkStep == ASSUME WellFormed, IInv, WalkInv, [PathNext]_pathVars PROVE WalkInv'
<1>1. CASE UNCHANGED pathVars
  BY <1>1, WalkStays DEF pathVars, Done
<1> QED  BY <1>1, WalkDot, WalkDotDot, WalkMissing, WalkMakeDirectory, WalkRejectLink,
            WalkFollowLink, WalkNotDirectory, WalkOpenFound, WalkReturn DEF PathNext

\* Wherever the walk is, the kernel finds for the rest of the path from there what it
\* finds for the whole path: unless the code has followed the one link that it should
\* have kept.
THEOREM WalkInvariant == ASSUME WellFormed PROVE PathSpec => []WalkInv
<1>1. PathInit => WalkInv
  BY WalkInit
<1>2. IInv /\ WalkInv /\ [PathNext]_pathVars => WalkInv'
  BY WalkStep
<1> QED  BY <1>1, <1>2, Invariant, PTL DEF PathSpec

-----------------------------------------------------------------------------
(* What follows for ResolvesLikeKernel.                                    *)

\* A tree from which a directory that is new has been taken away is still one.
LEMMA WithoutIsTree ==
    ASSUME IInv, WalkInv, NEW p \in DOMAIN tree \ DOMAIN before
    PROVE  Lacks(Without(p), p)
<1>1. FileSystem(tree) /\ <<>> \in DOMAIN before
  BY DEF WalkInv, Typed, Root
<1>2. PICK t : t = Without(p)
  OBVIOUS
<1>3. /\ DOMAIN t = DOMAIN tree \ Beneath(p) /\ \A q \in DOMAIN t : t[q] = tree[q]
      /\ p \in Seq(Names) /\ p # <<>>
  BY <1>1, <1>2 DEF Without, FileSystem
<1>4. p \in Beneath(p)
  BY <1>3, SubSeqFull DEF Beneath, IsPrefix
<1>5. <<>> \notin Beneath(p)
  BY <1>3 DEF Beneath, IsPrefix
<1>6. ASSUME NEW q \in DOMAIN t \ {<<>>}
      PROVE  Front(q) \in DOMAIN t /\ t[Front(q)].kind = "dir"
  <2>1. q \in DOMAIN tree /\ q \in Seq(Names) /\ ~IsPrefix(p, q)
    BY <1>1, <1>3 DEF FileSystem, Beneath
  <2>2. Front(q) \in DOMAIN tree /\ tree[Front(q)].kind = "dir"
    BY <1>1, <1>6, <2>1 DEF FileSystem
  <2>3. ~IsPrefix(p, Front(q))
    BY <1>3, <1>6, <2>1, PrefixOfParent
  <2> QED  BY <1>3, <2>2, <2>3 DEF Beneath
<1>7. FileSystem(t)
  BY <1>1, <1>3, <1>5, <1>6 DEF FileSystem
<1> QED  BY <1>2, <1>3, <1>4, <1>7 DEF Lacks

\* If the walk would go on for ever, the kernel gives up.
LEMMA EndlessIsLoop ==
    ASSUME WellFormed, IInv, WalkInv, OnTheWay, Endless
    PROVE  Expected.error = "loop"
<1>1. PICK n, d, p, k : Here(n, d, p, k)
  BY HereExists
<1>2. PICK c : c = Append(d, Head(p))
  OBVIOUS
<1>3. Named /\ Exists /\ IsLink /\ ~KeptLink /\ ~Rejects
  BY DEF Endless
<1>4. /\ p # <<>> /\ Head(p) \notin {".", ".."} /\ n \in Nat /\ Found = c
      /\ c \in DOMAIN tree /\ tree[c].kind = "link" /\ FileSystem(tree)
      /\ p \in Seq(Components) /\ d \in Seq(Names) /\ k \in BOOLEAN /\ (~ends) \in BOOLEAN
      /\ (Final <=> Len(p) = 1 /\ ends)
  BY <1>1, <1>2, <1>3, NextIsHere DEF Here, Exists, IsLink, WalkInv, Typed
<1>5. ~(k /\ Len(p) = 1 /\ ends)
  BY <1>1, <1>3, <1>4 DEF Here, Keeps, KeptLink
<1>6. n = 0
  <2>1. Allowed = MaxLinks /\ followed = MaxLinks /\ MaxLinks \in Nat
    BY <1>3 DEF Allowed, Endless, WellFormed
  <2> QED  BY <1>1, <2>1 DEF Here
<1>7. Halts(tree, n, d, p, ~ends, k, c)
  BY <1>2, <1>4, Stops
<1>8. At(tree, n, d, p, ~ends, k) = Error("loop")
  BY <1>4, <1>5, <1>6, <1>7 DEF Halts
<1>9. Kernel(tree, descendant.slash, Keeps) = Error("loop")
  BY <1>1, <1>8, KernelFromHere
<1> QED  BY <1>3, <1>9 DEF Expected, Error

LEMMA AgreesWithKernel ==
    ASSUME WellFormed, IInv, WalkInv PROVE ResolvesLikeKernel
<1> SUFFICES ASSUME ~Unclear
             PROVE  /\ result # "none" => result = Expected.error
                    /\ result = "opened" => Last(fds) = Expected.file
                    /\ Endless => Expected.error = "loop"
                    /\ OnlyAdds /\ OnlyNeeded
  BY DEF ResolvesLikeKernel
<1>1. ~Strayed
  BY ItselfIsLarger DEF Strayed, Unclear, EndsInLink
<1>2. OnTheWay /\ NewIsNeeded /\ Done
  BY <1>1 DEF WalkInv
<1>3. OnlyNeeded
  BY <1>2, WithoutIsTree DEF NewIsNeeded, OnlyNeeded
<1> QED  BY <1>2, <1>3, EndlessIsLoop DEF Done, IInv

\* _srt_resolve_in_sysroot() opens what the kernel would open after chroot(), or
\* fails for the same reason; with MKDIR_P it creates what was missing and nothing
\* else: for all file systems, paths, flags and limits to the number of links.
THEOREM ResolvesAsKernelDoes == ASSUME WellFormed PROVE PathSpec => []ResolvesLikeKernel
<1>1. WellFormed /\ IInv /\ WalkInv => ResolvesLikeKernel
  BY AgreesWithKernel
<1> QED  BY <1>1, Invariant, WalkInvariant, PTL
=============================================================================
