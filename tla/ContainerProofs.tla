-------------------------- MODULE ContainerProofs ---------------------------
(***************************************************************************)
(* Proofs of TableAsAsked, ContainerAsAsked, ModeIsTrue and BoxTypeOK, for *)
(* any hosts, requests and limits.                                         *)
(*                                                                         *)
(* flatpak-exports.c never asks the kernel for more than lstat() of a path: *)
(* it follows links itself, one at a time, after taking "." and ".." away.  *)
(* The invariant of the table says that it does not lose its way: as long   *)
(* as a request is dealt with, the kernel finds for what is left of it what *)
(* it finds for the whole of it, and it does so in every tree that is like  *)
(* the host, if the links are there that have been come upon.  So when      *)
(* there is no link left, these links and the file are enough.  This rests  *)
(* on the lookup of ResolveInSysrootProofs, on what Canonical() does to a   *)
(* path, and on a lookup being able to go straight down to a directory.     *)
(*                                                                         *)
(* The invariant of the container says what has come of the arguments that  *)
(* are done with: mounts and files are those that the table has for them.   *)
(* As arguments are sorted, what is above a path has been dealt with before *)
(* it and nothing below it has.  Hence whether the directory of a link is   *)
(* mapped, by the table, and whether it is there, in the container, is the  *)
(* same; no argument needs anything that is not there, and none hides what  *)
(* another has mounted.  In the end the root of the container is a tree     *)
(* like the host, so what is known of the table holds for it.              *)
(*                                                                         *)
(* GetMode is compared with the kernel's lookups in both trees, link by     *)
(* link: up to a first link, both of them go straight down; what the table  *)
(* says is mapped there is what is mounted there, so the link is in the     *)
(* container if GetMode follows it, and the rest is a shorter question.     *)
(*                                                                         *)
(* BoxTypeOK holds for hosts that are not plain as well.  What bubblewrap   *)
(* creates on the way to a mount point is where a lookup has found nothing, *)
(* in a directory that is there, so the new root remains a tree of files.   *)
(***************************************************************************)
EXTENDS ResolveInSysrootProofs, Container, FiniteSetTheorems

-----------------------------------------------------------------------------
(* Counting up, as the provers know it from HasMinimum.                     *)

LEMMA Climbs ==
    ASSUME NEW n \in Nat, NEW S, 0 \in S, \A i \in 0 .. n - 1 : i \in S => i + 1 \in S
    PROVE  \A i \in 0 .. n : i \in S
<1> DEFINE T == {i \in 0 .. n : i \notin S}
<1>1. SUFFICES ASSUME T # {} PROVE FALSE
  OBVIOUS
<1>2. T \in SUBSET Nat
  OBVIOUS
<1>3. PICK m \in T : \A i \in T : m <= i
  <2> HIDE DEF T
  <2> QED  BY <1>1, <1>2, HasMinimum
<1>4. m \in 0 .. n /\ m \notin S /\ m # 0
  BY <1>3
<1>5. m - 1 \in 0 .. n - 1 /\ m - 1 \in 0 .. n /\ ~(m <= m - 1)
  BY <1>4
<1>6. m - 1 \in S
  BY <1>3, <1>5
<1>7. (m - 1) + 1 = m
  BY <1>4
<1> QED  BY <1>4, <1>5, <1>6, <1>7

-----------------------------------------------------------------------------
(* Without slashes after the targets of links, it makes no difference whether *)
(* a lookup is lax about them.                                              *)
NoSlash(at)  == at.slash = FALSE
SlashFree(t) == \A c \in DOMAIN t : t[c].kind = "link" => t[c].target.slash = FALSE

LEMMA GoOnIsSame ==
    ASSUME NEW t, NEW at \in Places, NoSlash(at), at.parts # <<>>, NEW g, NEW h,
           NEW found, IsResult(found, at.left), NEW strict,
           \A b \in Places : Less(b, at) /\ NoSlash(b) => g[b] = h[b]
    PROVE  GoOn(g, t, at, found, strict) = GoOn(h, t, at, found, strict)
<1>1. CASE found.error # "opened" \/ (strict /\ t[found.file].kind # "dir")
  BY <1>1 DEF GoOn
<1>2. CASE found.error = "opened" /\ ~(strict /\ t[found.file].kind # "dir")
  <2> DEFINE b == Place(found.left, found.file, Tail(at.parts), at.slash, at.keep)
  <2>1. found.left \in 0 .. at.left /\ found.file \in Seq(Names)
    BY <1>2 DEF IsResult
  <2>2. b \in Places /\ Less(b, at)
    BY <2>1, TailPlace
  <2>3. GoOn(g, t, at, found, strict) = g[b] /\ GoOn(h, t, at, found, strict) = h[b]
    BY <1>2 DEF GoOn
  <2>4. NoSlash(b)
    BY DEF Place, NoSlash
  <2> HIDE DEF b
  <2> QED  BY <2>2, <2>3, <2>4
<1> QED  BY <1>1, <1>2

LEMMA LaxIsSame ==
    ASSUME NEW t, FileSystem(t), SlashFree(t), NEW at \in Places, NoSlash(at), NEW g, NEW h,
           \A b \in Places : Less(b, at) /\ NoSlash(b) =>
               g[b] = h[b] /\ IsResult(g[b], b.left)
    PROVE  Advance(g, t, FALSE, at) = Advance(h, t, TRUE, at)
<1> DEFINE next  == Head(at.parts)
           final == Len(at.parts) = 1
           child == Append(at.dir, next)
           link  == t[child].target
           above == IF at.dir = <<>> THEN <<>> ELSE Front(at.dir)
           inner == Place(at.left - 1, IF link.absolute THEN <<>> ELSE at.dir,
                          link.parts, link.slash, FALSE)
<1>1. /\ at.left \in Nat /\ at.dir \in Seq(Names) /\ at.parts \in Seq(Components)
  BY DEF Places
<1>2. \A d \in Seq(Names) : IsResult(Opened(d, at.left), at.left)
  BY <1>1 DEF IsResult, Opened
<1>3. CASE at.parts = <<>>
  BY <1>1, <1>2, <1>3 DEF Advance
<1>4. CASE at.parts # <<>>
  <2>1. \A found, strict : IsResult(found, at.left) =>
           GoOn(g, t, at, found, strict) = GoOn(h, t, at, found, strict)
    <3>1. \A b \in Places : Less(b, at) /\ NoSlash(b) => g[b] = h[b]
      OBVIOUS
    <3> QED  BY <1>4, <3>1, GoOnIsSame
  <2>2. CASE next = "."
    <3>1. \A w, lax : Advance(w, t, lax, at) = GoOn(w, t, at, Opened(at.dir, at.left), FALSE)
      BY <1>4, <2>2 DEF Advance
    <3> QED  BY <1>1, <1>2, <2>1, <3>1
  <2>3. CASE next = ".."
    <3>1. \A w, lax : Advance(w, t, lax, at) = GoOn(w, t, at, Opened(above, at.left), FALSE)
      BY <1>4, <2>3 DEF Advance
    <3>2. above \in Seq(Names)
      <4>1. CASE at.dir # <<>>
        BY <1>1, <4>1 DEF Front
      <4> QED  BY <1>1, <4>1
    <3> HIDE DEF above
    <3> QED  BY <1>2, <2>1, <3>1, <3>2
  <2>4. CASE next \notin {".", ".."}
    <3>1. next \in Names /\ child \in Seq(Names)
      <4>1. next \in Components
        BY <1>1, <1>4, HeadTailProperties
      <4>2. next \in Names
        BY <2>4, <4>1 DEF Components
      <4> QED  BY <1>1, <4>2
    <3>2. CASE child \notin DOMAIN t
      BY <1>4, <2>4, <3>2 DEF Advance
    <3>3. CASE child \in DOMAIN t /\ (t[child].kind # "link" \/ (at.keep /\ final /\ ~at.slash))
      <4>1. \A w, lax : Advance(w, t, lax, at)
                          = GoOn(w, t, at, Opened(child, at.left), ~final \/ at.slash)
        BY <1>4, <2>4, <3>3 DEF Advance
      <4> HIDE DEF child
      <4> QED  BY <1>2, <2>1, <3>1, <4>1
    <3>4. CASE child \in DOMAIN t /\ ~(t[child].kind # "link" \/ (at.keep /\ final /\ ~at.slash))
      <4>1. CASE at.left = 0
        BY <1>4, <2>4, <3>4, <4>1 DEF Advance
      <4>2. CASE at.left # 0
        <5>1. \A w, lax : Advance(w, t, lax, at)
                            = GoOn(w, t, at, w[inner], ~final \/ (at.slash /\ ~lax))
          BY <1>4, <2>4, <3>4, <4>2 DEF Advance
        <5>2. link.parts \in Seq(Components) /\ link.slash \in BOOLEAN /\ link.slash = FALSE
          BY <3>4 DEF FileSystem, SlashFree
        <5>3. <<>> \in Seq(Names) /\ at.left - 1 \in Nat /\ at.left - 1 < at.left
          BY <1>1, <4>2
        <5> HIDE DEF link
        <5>4. inner \in Places /\ Less(inner, at) /\ inner.left = at.left - 1
              /\ NoSlash(inner)
          BY <1>1, <5>2, <5>3 DEF Place, Places, Less, NoSlash
        <5> HIDE DEF inner
        <5>5. g[inner] = h[inner] /\ IsResult(g[inner], inner.left)
          BY <5>4
        <5>6. IsResult(g[inner], at.left)
          BY <1>1, <5>3, <5>4, <5>5 DEF IsResult
        <5>7. GoOn(g, t, at, g[inner], ~final) = GoOn(h, t, at, h[inner], ~final)
          BY <2>1, <5>5, <5>6
        <5>8. \A lax : (~final \/ (at.slash /\ ~lax)) = ~final
          BY DEF NoSlash
        <5> QED  BY <5>1, <5>7, <5>8
      <4> QED  BY <4>1, <4>2
    <3> QED  BY <3>2, <3>3, <3>4
  <2> QED  BY <2>2, <2>3, <2>4
<1> QED  BY <1>3, <1>4

LEMMA StrictIsLax ==
    ASSUME NEW t, FileSystem(t), SlashFree(t), NEW n \in Nat, NEW d \in Seq(Names),
           NEW p \in Seq(Components), NEW k \in BOOLEAN
    PROVE  Lookup(t, FALSE)[Place(n, d, p, FALSE, k)] = At(t, n, d, p, FALSE, k)
<1> DEFINE g == Lookup(t, FALSE)
           h == Lookup(t, TRUE)
           S == {a \in Places : NoSlash(a) /\ g[a] # h[a]}
<1>1. SUFFICES ASSUME S # {} PROVE FALSE
  <2>1. Place(n, d, p, FALSE, k) \in Places
    BY DEF Place, Places
  <2>2. NoSlash(Place(n, d, p, FALSE, k))
    BY DEF Place, NoSlash
  <2> HIDE DEF g, h
  <2>3. g[Place(n, d, p, FALSE, k)] = h[Place(n, d, p, FALSE, k)]
    BY <2>1, <2>2
  <2> QED  BY <2>3 DEF At, g, h
<1>2. PICK m \in S : \A b \in S : ~Less(b, m)
  <2>1. S \in SUBSET Places
    OBVIOUS
  <2> HIDE DEF S
  <2> QED  BY <1>1, <2>1, HasLeast
<1>3. \A b \in Places : IsResult(g[b], b.left)
  BY LookupIs
<1>4. g[m] = Advance(g, t, FALSE, m) /\ h[m] = Advance(h, t, TRUE, m)
  BY <1>2, LookupIs
<1> HIDE DEF g, h
<1>5. m \in Places /\ NoSlash(m) /\ g[m] # h[m]
  BY <1>2
<1>6. \A b \in Places : Less(b, m) /\ NoSlash(b) => g[b] = h[b] /\ IsResult(g[b], b.left)
  BY <1>2, <1>3
<1>7. Advance(g, t, FALSE, m) = Advance(h, t, TRUE, m)
  BY <1>5, <1>6, LaxIsSame
<1> QED  BY <1>4, <1>5, <1>7
-----------------------------------------------------------------------------
(* Canonical(), component by component.                                    *)
Steps(parts, u) == u[0] = <<>> /\ \A i \in 1 .. Len(parts) : u[i] = Add(u[i - 1], parts[i])

LEMMA CanonicalSteps ==
    ASSUME NEW parts \in Seq(Components)
    PROVE  \E u : Steps(parts, u) /\ Canonical(parts) = u[Len(parts)]
<1> DEFINE IsUpto(u, n) == u = [i \in 0 .. n |-> IF i = 0 THEN <<>> ELSE Add(u[i - 1], parts[i])]
           S == {n \in Nat : \E u : IsUpto(u, n)}
<1>1. Len(parts) \in Nat
  OBVIOUS
<1>2. 0 \in S
  <2>1. IsUpto([i \in 0 .. 0 |-> <<>>], 0)
    OBVIOUS
  <2> HIDE DEF IsUpto
  <2> QED  BY <2>1
<1>3. ASSUME NEW n \in 0 .. Len(parts) - 1, n \in S PROVE n + 1 \in S
  <2>1. PICK u : IsUpto(u, n)
    BY <1>3
  <2>2. n \in Nat
    BY <1>1
  <2> DEFINE v == [i \in 0 .. n + 1 |-> IF i = 0 THEN <<>> ELSE Add(u[i - 1], parts[i])]
  <2>3. \A i \in 0 .. n : v[i] = u[i]
    BY <2>1, <2>2
  <2>4. \A i \in 0 .. n + 1 : i # 0 => v[i - 1] = u[i - 1]
    <3>1. \A i \in 0 .. n + 1 : i # 0 => i - 1 \in 0 .. n
      BY <2>2
    <3> HIDE DEF v
    <3> QED  BY <2>3, <3>1
  <2>5. v = [i \in 0 .. n + 1 |-> IF i = 0 THEN <<>> ELSE Add(v[i - 1], parts[i])]
    <3>1. \A i \in 0 .. n + 1 : (IF i = 0 THEN <<>> ELSE Add(u[i - 1], parts[i]))
                                 = (IF i = 0 THEN <<>> ELSE Add(v[i - 1], parts[i]))
      <4> HIDE DEF v
      <4> QED  BY <2>4
    <3>2. PICK w : w = v
      OBVIOUS
    <3> HIDE DEF v
    <3>3. v = [i \in 0 .. n + 1 |-> IF i = 0 THEN <<>> ELSE Add(u[i - 1], parts[i])]
      BY DEF v
    <3> QED  BY <3>1, <3>3
  <2>6. IsUpto(v, n + 1)
    BY <2>5
  <2> HIDE DEF v, IsUpto
  <2> QED  BY <2>2, <2>6
<1>4. Len(parts) \in S
  <2> HIDE DEF S
  <2>1. \A i \in 0 .. Len(parts) : i \in S
    BY <1>1, <1>2, <1>3, Climbs
  <2> QED  BY <1>1, <2>1
<1> DEFINE f == CHOOSE u : IsUpto(u, Len(parts))
<1>5. IsUpto(f, Len(parts))
  BY <1>4
<1>6. Canonical(parts) = f[Len(parts)]
  BY DEF Canonical
<1> HIDE DEF f
<1>7. Steps(parts, f)
  BY <1>1, <1>5 DEF Steps
<1> QED  BY <1>6, <1>7

-----------------------------------------------------------------------------
(* A path begins with directories: the kernel goes there.                   *)
RealNames == Names \cap {".", ".."} = {}

LEMMA Uptos ==
    ASSUME NEW S, NEW r \in Seq(S), NEW i \in 0 .. Len(r) - 1
    PROVE  /\ From(r, i + 1) \in Seq(S) /\ From(r, i + 1) # <<>>
           /\ Head(From(r, i + 1)) = r[i + 1] /\ Tail(From(r, i + 1)) = From(r, i + 2)
           /\ Len(From(r, i + 1)) = Len(r) - i
           /\ Upto(r, i) \in Seq(S) /\ r[i + 1] \in S /\ Len(Upto(r, i)) = i
           /\ Append(Upto(r, i), r[i + 1]) = Upto(r, i + 1)
<1>1. Len(r) \in Nat /\ i + 1 \in 1 .. Len(r) /\ i \in Int /\ i \in Nat
  OBVIOUS
<1>2. r[i + 1] \in S
  BY <1>1
<1>3. From(r, i + 1) \in Seq(S) /\ Len(From(r, i + 1)) = Len(r) - i
  BY <1>1, SubSeqProperties DEF From
<1>4. Head(From(r, i + 1)) = r[i + 1] /\ Tail(From(r, i + 1)) = From(r, i + 2)
  <2>1. Len(r) \in i + 1 .. Len(r) /\ (i + 1) + 1 = i + 2
    BY <1>1
  <2> QED  BY <1>1, <2>1, HeadTailOfSubSeq DEF From
<1>5. From(r, i + 1) # <<>>
  BY <1>1, <1>3
<1>6. Upto(r, i) \in Seq(S) /\ Len(Upto(r, i)) = i
  BY <1>1, SubSeqProperties DEF Upto
<1>7. Append(Upto(r, i), r[i + 1]) = Upto(r, i + 1)
  <2>1. Upto(r, i + 1) \in Seq(S) /\ Len(Upto(r, i + 1)) = i + 1
        /\ \A j \in 1 .. i + 1 : Upto(r, i + 1)[j] = r[j]
    BY <1>1, SubSeqProperties DEF Upto
  <2>2. \A j \in 1 .. i : Upto(r, i)[j] = r[j]
    BY <1>1, SubSeqProperties DEF Upto
  <2>3. PICK a : a = Append(Upto(r, i), r[i + 1])
    OBVIOUS
  <2>4. a \in Seq(S) /\ Len(a) = i + 1 /\ \A j \in 1 .. i + 1 : a[j] = r[j]
    BY <1>1, <1>2, <1>6, <2>2, <2>3, AppendProperties
  <2> QED  BY <2>1, <2>3, <2>4, SeqEqual
<1> QED  BY <1>2, <1>3, <1>4, <1>5, <1>6, <1>7

Splits(S, c, d, q) ==
    /\ c \in Seq(S) /\ Len(c) = Len(d) + Len(q) /\ Len(d) \in 0 .. Len(c)
    /\ Upto(c, Len(d)) = d /\ From(c, Len(d) + 1) = q

LEMMA Halves ==
    ASSUME NEW S, NEW d \in Seq(S), NEW q \in Seq(S), NEW c, c = d \o q
    PROVE  Splits(S, c, d, q)
<1>1. c \in Seq(S) /\ Len(c) = Len(d) + Len(q) /\ Len(q) \in Nat /\ Len(d) \in Nat
  BY ConcatProperties
<1>2. Upto(c, Len(d)) = d
  <2>1. PICK a : a = Upto(c, Len(d))
    OBVIOUS
  <2>2. a \in Seq(S) /\ Len(a) = Len(d) /\ \A i \in 1 .. Len(d) : a[i] = c[i]
    <3>1. \A i \in 1 .. Len(d) : c[i] \in S
      BY <1>1
    <3> QED  BY <1>1, <2>1, <3>1, SubSeqProperties DEF Upto
  <2>3. \A i \in 1 .. Len(d) : c[i] = d[i]
    BY <1>1, ConcatProperties
  <2> QED  BY <2>1, <2>2, <2>3, SeqEqual
<1>3. From(c, Len(d) + 1) = q
  <2>1. PICK a : a = From(c, Len(d) + 1)
    OBVIOUS
  <2>2. /\ a \in Seq(S) /\ Len(a) = Len(q)
        /\ \A i \in 1 .. Len(q) : a[i] = c[(Len(d) + 1) + i - 1]
    <3>1. \A i \in Len(d) + 1 .. Len(c) : c[i] \in S
      BY <1>1
    <3>2. Len(c) - (Len(d) + 1) + 1 = Len(q) /\ Len(d) + 1 \in Int /\ Len(c) \in Int
      BY <1>1
    <3>3. (IF Len(d) + 1 <= Len(c) THEN Len(c) - (Len(d) + 1) + 1 ELSE 0) = Len(q)
      BY <1>1
    <3> QED  BY <2>1, <3>1, <3>2, <3>3, SubSeqProperties DEF From
  <2>3. \A i \in 1 .. Len(q) : c[(Len(d) + 1) + i - 1] = q[i]
    <3>1. ASSUME NEW i \in 1 .. Len(q) PROVE c[(Len(d) + 1) + i - 1] = q[i]
      <4>1. PICK h : h = (Len(d) + 1) + i - 1
        OBVIOUS
      <4>2. h \in 1 .. Len(d) + Len(q) /\ ~(h <= Len(d)) /\ h - Len(d) = i
        BY <1>1, <4>1
      <4> QED  BY <4>1, <4>2, ConcatProperties
    <3> QED  BY <3>1
  <2> QED  BY <2>1, <2>2, <2>3, SeqEqual
<1> QED  BY <1>1, <1>2, <1>3 DEF Splits

\* What is above a directory are directories.
LEMMA DirsAbove ==
    ASSUME NEW t, FileSystem(t), NEW e \in Seq(Names), e \in Dirs(t), NEW i \in 0 .. Len(e)
    PROVE  Upto(e, i) \in Dirs(t)
<1> DEFINE S == {j \in 0 .. Len(e) : Upto(e, Len(e) - j) \in Dirs(t)}
<1>1. Len(e) \in Nat
  OBVIOUS
<1>2. 0 \in S
  <2>1. Upto(e, Len(e)) = e /\ Len(e) - 0 = Len(e)
    BY <1>1, SubSeqFull DEF Upto
  <2> QED  BY <1>1, <2>1
<1>3. ASSUME NEW j \in 0 .. Len(e) - 1, j \in S PROVE j + 1 \in S
  <2>1. PICK l : l = Len(e) - j
    OBVIOUS
  <2>2. l \in 1 .. Len(e) /\ l - 1 \in 0 .. Len(e) - 1 /\ Len(e) - (j + 1) = l - 1
        /\ (l - 1) + 1 = l /\ j + 1 \in 0 .. Len(e)
    BY <1>1, <2>1
  <2>3. PICK a, b : a = Upto(e, l) /\ b = Upto(e, l - 1)
    OBVIOUS
  <2>4. a \in Dirs(t)
    BY <1>3, <2>1, <2>3
  <2>5. b \in Seq(Names) /\ e[l] \in Names /\ Append(b, e[l]) = a
    BY <2>2, <2>3, Uptos
  <2>6. Front(a) = b /\ a # <<>>
    BY <2>5 DEF Front
  <2>7. b \in Dirs(t)
    BY <2>4, <2>6 DEF FileSystem, Dirs
  <2> QED  BY <2>2, <2>3, <2>7
<1>4. \A j \in 0 .. Len(e) : j \in S
  <2> HIDE DEF S
  <2> QED  BY <1>1, <1>2, <1>3, Climbs
<1>5. Len(e) - i \in 0 .. Len(e) /\ Len(e) - (Len(e) - i) = i
  BY <1>1
<1> QED  BY <1>4, <1>5

LEMMA Descends ==
    ASSUME RealNames, NEW t, FileSystem(t), NEW n \in Nat, NEW k \in BOOLEAN,
           NEW r \in Seq(Components), NEW j \in 0 .. Len(r), Upto(r, j) \in Dirs(t)
    PROVE  At(t, n, <<>>, r, FALSE, k) = At(t, n, Upto(r, j), From(r, j + 1), FALSE, k)
<1> DEFINE Same(i) == At(t, n, <<>>, r, FALSE, k) = At(t, n, Upto(r, i), From(r, i + 1), FALSE, k)
           S == {i \in 0 .. j : Same(i)}
<1>1. Len(r) \in Nat /\ j \in Nat /\ Upto(r, j) \in Seq(Names) /\ Len(Upto(r, j)) = j
  <2>1. \A i \in 1 .. j : r[i] \in Components
    OBVIOUS
  <2>2. Len(Upto(r, j)) = j
    BY <2>1, SubSeqProperties DEF Upto
  <2> QED  BY <2>2, ParentIsDir
<1>2. ASSUME NEW i \in 0 .. j PROVE Upto(r, i) \in Dirs(t)
  <2>1. Upto(Upto(r, j), i) \in Dirs(t)
    BY <1>1, DirsAbove
  <2>2. Upto(Upto(r, j), i) = Upto(r, i)
    BY DEF Upto
  <2> QED  BY <2>1, <2>2
<1>3. 0 \in S
  <2>1. Upto(r, 0) = <<>> /\ From(r, 0 + 1) = r
    BY SubSeqFull, SubSeqEmpty DEF Upto, From
  <2>2. 0 \in 0 .. j
    BY <1>1
  <2> QED  BY <2>1, <2>2
<1>4. ASSUME NEW i \in 0 .. j - 1, i \in S PROVE i + 1 \in S
  <2>1. i \in 0 .. Len(r) - 1 /\ i \in 0 .. j /\ i + 1 \in 0 .. j /\ (i + 1) + 1 = i + 2
    BY <1>1
  <2>2. PICK d, c, p : d = Upto(r, i) /\ c = Upto(r, i + 1) /\ p = From(r, i + 1)
    OBVIOUS
  <2>3. /\ p \in Seq(Components) /\ p # <<>> /\ Tail(p) = From(r, i + 2)
        /\ c = Append(d, Head(p)) /\ Head(p) \in Components
    <3>1. /\ From(r, i + 1) \in Seq(Components) /\ From(r, i + 1) # <<>>
          /\ Head(From(r, i + 1)) = r[i + 1] /\ Tail(From(r, i + 1)) = From(r, i + 2)
          /\ r[i + 1] \in Components
          /\ Append(Upto(r, i), r[i + 1]) = Upto(r, i + 1)
      BY <2>1, Uptos
    <3> QED  BY <2>2, <3>1
  <2>4. d \in Dirs(t) /\ c \in Dirs(t) /\ d \in Seq(Names) /\ c \in Seq(Names)
    BY <1>2, <2>1, <2>2, ParentIsDir
  <2>5. Head(p) \in Names
    <3>1. Len(c) = Len(d) + 1 /\ c[Len(d) + 1] = Head(p)
      BY <2>3, <2>4
    <3> QED  BY <2>4, <3>1
  <2>6. GoesOn(t, n, d, p, FALSE, k, c)
    <3>1. c \in DOMAIN t /\ t[c].kind = "dir" /\ Head(p) \notin {".", ".."}
      BY <2>4, <2>5 DEF Dirs, RealNames
    <3> QED  BY <2>3, <2>4, <3>1, Enters
  <2>7. At(t, n, d, p, FALSE, k) = At(t, n, c, Tail(p), FALSE, k)
    BY <2>6 DEF GoesOn
  <2> QED  BY <1>4, <2>1, <2>2, <2>3, <2>7
<1>5. \A i \in 0 .. j : i \in S
  <2> HIDE DEF S
  <2> QED  BY <1>1, <1>3, <1>4, Climbs
<1>6. j \in S
  <2> HIDE DEF S
  <2> QED  BY <1>1, <1>5
<1> QED  BY <1>6

\* r starts with directories, up to j, then has "." and "..", up to m, then names.
Solid(t, r, j, m) ==
    /\ j \in 0 .. Len(r) /\ m \in j .. Len(r) /\ Upto(r, j) \in Dirs(t)
    /\ \A i \in j + 1 .. m : r[i] \in {".", ".."}
    /\ \A i \in m + 1 .. Len(r) : r[i] \notin {".", ".."}

LeadsOver(t, r, j, m, u) ==
    /\ u[j] = Upto(r, j)
    /\ \A i \in 0 .. m - j : u[j + i] \in Dirs(t)
    /\ u[Len(r)] = u[m] \o From(r, m + 1)

LEMMA StepsOfSolid ==
    ASSUME RealNames, NEW t, FileSystem(t), NEW r \in Seq(Components), NEW j, NEW m,
           Solid(t, r, j, m), NEW u, Steps(r, u)
    PROVE  LeadsOver(t, r, j, m, u)
<1>1. /\ Len(r) \in Nat /\ j \in Nat /\ m \in Nat /\ j <= m /\ m <= Len(r) /\ m - j \in Nat
      /\ Len(r) - m \in Nat
  BY DEF Solid
<1>2. Upto(r, j) \in Seq(Names) /\ Len(Upto(r, j)) = j /\ \A i \in 1 .. j : Upto(r, j)[i] = r[i]
  <2>1. \A i \in 1 .. j : r[i] \in Components
    BY <1>1
  <2>2. Len(Upto(r, j)) = j /\ \A i \in 1 .. j : Upto(r, j)[i] = r[i]
    BY <1>1, <2>1, SubSeqProperties DEF Upto
  <2> QED  BY <2>2, ParentIsDir DEF Solid
<1>3. u[j] = Upto(r, j)
  <2> DEFINE S == {i \in 0 .. j : u[i] = Upto(r, i)}
  <2>1. 0 \in S
    <3>1. Upto(r, 0) = <<>>
      BY SubSeqEmpty DEF Upto
    <3> QED  BY <1>1, <3>1 DEF Steps
  <2>2. ASSUME NEW i \in 0 .. j - 1, i \in S PROVE i + 1 \in S
    <3>1. i \in 0 .. Len(r) - 1 /\ i + 1 \in 1 .. Len(r) /\ i + 1 \in 1 .. j /\ (i + 1) - 1 = i
          /\ i + 1 \in 0 .. j
      BY <1>1
    <3>2. r[i + 1] \in Names
      BY <1>2, <3>1
    <3>3. u[i + 1] = Add(u[i], r[i + 1])
      BY <3>1 DEF Steps
    <3>4. Add(Upto(r, i), r[i + 1]) = Append(Upto(r, i), r[i + 1])
      BY <3>2 DEF Add, RealNames
    <3>5. Append(Upto(r, i), r[i + 1]) = Upto(r, i + 1)
      BY <3>1, Uptos
    <3> QED  BY <2>2, <3>1, <3>3, <3>4, <3>5
  <2>3. \A i \in 0 .. j : i \in S
    <3> HIDE DEF S
    <3> QED  BY <1>1, <2>1, <2>2, Climbs
  <2>4. j \in S
    <3> HIDE DEF S
    <3> QED  BY <1>1, <2>3
  <2> QED  BY <2>4
<1>4. \A i \in 0 .. m - j : u[j + i] \in Dirs(t)
  <2> DEFINE S == {i \in 0 .. m - j : u[j + i] \in Dirs(t)}
  <2>1. 0 \in S
    BY <1>1, <1>3 DEF Solid
  <2>2. ASSUME NEW i \in 0 .. (m - j) - 1, i \in S PROVE i + 1 \in S
    <3>1. PICK l : l = j + i + 1
      OBVIOUS
    <3>2. l \in j + 1 .. m /\ l \in 1 .. Len(r) /\ l - 1 = j + i /\ j + (i + 1) = l
          /\ i + 1 \in 0 .. m - j
      BY <1>1, <3>1
    <3>3. u[l] = Add(u[l - 1], r[l]) /\ u[l - 1] \in Dirs(t) /\ r[l] \in {".", ".."}
      BY <2>2, <3>2 DEF Steps, Solid
    <3>4. u[l] \in Dirs(t)
      <4>1. PICK d : d = u[l - 1]
        OBVIOUS
      <4>2. Parent(d) \in Dirs(t) /\ d \in Dirs(t)
        BY <3>3, <4>1, ParentIsDir
      <4>3. Add(d, ".") = d /\ Add(d, "..") = Parent(d)
        BY DEF Add, Parent
      <4> QED  BY <3>3, <4>1, <4>2, <4>3
    <3> QED  BY <3>2, <3>4
  <2>3. \A i \in 0 .. m - j : i \in S
    <3> HIDE DEF S
    <3> QED  BY <1>1, <2>1, <2>2, Climbs
  <2> QED  BY <2>3
<1>5. u[Len(r)] = u[m] \o From(r, m + 1)
  <2>1. u[m] \in Seq(Names)
    <3>1. m - j \in 0 .. m - j /\ j + (m - j) = m
      BY <1>1
    <3>2. u[m] \in Dirs(t)
      BY <1>4, <3>1
    <3> QED  BY <3>2, ParentIsDir
  <2>2. PICK d : d = u[m]
    OBVIOUS
  <2>3. \A i \in m + 1 .. Len(r) : r[i] \in Names
    BY <1>1 DEF Solid, Components
  <2> DEFINE S == {i \in 0 .. Len(r) - m : u[m + i] = d \o SubSeq(r, m + 1, m + i)}
  <2>4. 0 \in S
    <3>1. SubSeq(r, m + 1, m) = <<>> /\ m + 0 = m /\ 0 \in 0 .. Len(r) - m
      BY <1>1, SubSeqEmpty
    <3>2. d \o <<>> = d
      BY <2>1, <2>2, ConcatEmptySeq
    <3>3. u[m + 0] = d \o SubSeq(r, m + 1, m + 0)
      BY <2>2, <3>1, <3>2
    <3> QED  BY <3>1, <3>3
  <2>5. ASSUME NEW i \in 0 .. (Len(r) - m) - 1, i \in S PROVE i + 1 \in S
    <3>1. PICK l : l = m + i + 1
      OBVIOUS
    <3>2. l \in m + 1 .. Len(r) /\ l \in 1 .. Len(r) /\ l - 1 = m + i /\ m + (i + 1) = l
          /\ i + 1 \in 0 .. Len(r) - m
      BY <1>1, <3>1
    <3>3. u[l] = Add(u[l - 1], r[l]) /\ u[l - 1] = d \o SubSeq(r, m + 1, l - 1) /\ r[l] \in Names
      BY <2>3, <2>5, <3>2 DEF Steps
    <3>4. PICK w : w = SubSeq(r, m + 1, l - 1)
      OBVIOUS
    <3>5. w \in Seq(Names)
      <4>1. m + 1 \in Int /\ l - 1 \in Int /\ \A h \in m + 1 .. l - 1 : r[h] \in Names
        BY <1>1, <2>3, <3>2
      <4> QED  BY <3>4, <4>1, SubSeqProperties
    <3>6. SubSeq(r, m + 1, l) = w \o <<r[l]>>
      BY <1>1, <3>2, <3>4, SubSeqRecursiveSecond
    <3>7. u[l] = Append(d \o w, r[l])
      BY <3>3, <3>4 DEF Add, RealNames
    <3>8. d \o w \in Seq(Names) /\ <<r[l]>> \in Seq(Names)
      BY <2>1, <2>2, <3>3, <3>5
    <3>9. Append(d \o w, r[l]) = (d \o w) \o <<r[l]>>
      BY <3>3, <3>8, AppendIsConcat
    <3>10. (d \o w) \o <<r[l]>> = d \o (w \o <<r[l]>>)
      <4>1. PICK x : x = <<r[l]>>
        OBVIOUS
      <4>2. d \in Seq(Names) /\ x \in Seq(Names)
        BY <2>1, <2>2, <3>8, <4>1
      <4>3. (d \o w) \o x = d \o (w \o x)
        BY <3>5, <4>2, ConcatAssociative
      <4> QED  BY <4>1, <4>3
    <3> QED  BY <3>2, <3>6, <3>7, <3>9, <3>10
  <2>6. \A i \in 0 .. Len(r) - m : i \in S
    <3> HIDE DEF S
    <3> QED  BY <1>1, <2>4, <2>5, Climbs
  <2>7. Len(r) - m \in S /\ m + (Len(r) - m) = Len(r)
    <3> HIDE DEF S
    <3> QED  BY <1>1, <2>6
  <2> QED  BY <2>2, <2>7 DEF From
<1> QED  BY <1>3, <1>4, <1>5 DEF LeadsOver

\* Canonical() is right about such paths, in every tree with the same directories.
SameWay(t, r, c) ==
    \A n \in Nat, k \in BOOLEAN : At(t, n, <<>>, r, FALSE, k) = At(t, n, <<>>, c, FALSE, k)

IsCanonical(t, r, c) ==
    /\ c \in Seq(Names) /\ SameWay(t, r, c)
    /\ \A w : FileSystem(w) /\ Dirs(w) = Dirs(t) => SameWay(w, r, c)

LEMMA Canonicalizes ==
    ASSUME RealNames, NEW t, FileSystem(t), NEW r \in Seq(Components), NEW j, NEW m,
           Solid(t, r, j, m), NEW c, c = Canonical(r)
    PROVE  IsCanonical(t, r, c)
<1>1. PICK u : Steps(r, u) /\ c = u[Len(r)]
  BY CanonicalSteps
<1>2. /\ Len(r) \in Nat /\ j \in Nat /\ m \in Nat /\ j <= m /\ m <= Len(r) /\ m - j \in Nat
      /\ j \in 0 .. Len(r)
  BY DEF Solid
<1>3. /\ u[j] = Upto(r, j) /\ \A i \in 0 .. m - j : u[j + i] \in Dirs(t)
      /\ u[Len(r)] = u[m] \o From(r, m + 1)
  <2>1. LeadsOver(t, r, j, m, u)
    BY <1>1, StepsOfSolid
  <2> QED  BY <2>1 DEF LeadsOver
<1>4. PICK d, q : d = u[m] /\ q = From(r, m + 1)
  OBVIOUS
<1>5. d \in Dirs(t) /\ d \in Seq(Names) /\ Len(d) \in Nat
  <2>1. m - j \in 0 .. m - j /\ j + (m - j) = m
    BY <1>2
  <2>2. u[m] \in Dirs(t)
    BY <1>3, <2>1
  <2> QED  BY <1>4, <2>2, ParentIsDir
<1>6. q \in Seq(Names)
  <2>1. \A i \in m + 1 .. Len(r) : r[i] \in Names
    BY <1>2 DEF Solid, Components
  <2> QED  BY <1>2, <1>4, <2>1, SubSeqProperties DEF From
<1>7. c = d \o q /\ c \in Seq(Names)
  BY <1>1, <1>3, <1>4, <1>5, <1>6, ConcatProperties
<1>8. Len(d) \in 0 .. Len(c) /\ Upto(c, Len(d)) = d /\ From(c, Len(d) + 1) = q
      /\ c \in Seq(Components)
  <2>1. Names \subseteq Components
    BY DEF Components
  <2>2. c \in Seq(Components)
    BY <1>7, <2>1, SeqMonotonic
  <2>3. Len(d) \in 0 .. Len(c) /\ Upto(c, Len(d)) = d /\ From(c, Len(d) + 1) = q
    <3>1. Splits(Names, c, d, q)
      BY <1>5, <1>6, <1>7, Halves
    <3> QED  BY <3>1 DEF Splits
  <2> QED  BY <2>2, <2>3
<1>9. ASSUME NEW w, FileSystem(w), Dirs(w) = Dirs(t) PROVE SameWay(w, r, c)
  <2> SUFFICES ASSUME NEW n \in Nat, NEW k \in BOOLEAN
               PROVE  At(w, n, <<>>, r, FALSE, k) = At(w, n, <<>>, c, FALSE, k)
    BY DEF SameWay
  <2> DEFINE S == {i \in 0 .. m - j :
                     At(w, n, <<>>, r, FALSE, k) = At(w, n, u[j + i], From(r, j + i + 1), FALSE, k)}
  <2>1. 0 \in S
    <3>1. Upto(r, j) \in Dirs(w)
      BY <1>9 DEF Solid
    <3>2. At(w, n, <<>>, r, FALSE, k) = At(w, n, Upto(r, j), From(r, j + 1), FALSE, k)
      BY <1>2, <1>9, <3>1, Descends
    <3>3. j + 0 = j /\ j + 0 + 1 = j + 1 /\ 0 \in 0 .. m - j
      BY <1>2
    <3> QED  BY <1>3, <3>2, <3>3
  <2>2. ASSUME NEW i \in 0 .. (m - j) - 1, i \in S PROVE i + 1 \in S
    <3>1. PICK l : l = j + i
      OBVIOUS
    <3>2. l \in 0 .. Len(r) - 1 /\ l + 1 \in 1 .. Len(r) /\ l + 1 \in j + 1 .. m
          /\ (l + 1) - 1 = l /\ j + (i + 1) = l + 1 /\ (l + 1) + 1 = l + 2
          /\ i + 1 \in 0 .. m - j /\ i \in 0 .. m - j
      BY <1>2, <3>1
    <3>3. PICK e, f, p : e = u[l] /\ f = u[l + 1] /\ p = From(r, l + 1)
      OBVIOUS
    <3>4. /\ p \in Seq(Components) /\ p # <<>> /\ Tail(p) = From(r, l + 2) /\ Head(p) = r[l + 1]
      <4>1. /\ From(r, l + 1) \in Seq(Components) /\ From(r, l + 1) # <<>>
            /\ Head(From(r, l + 1)) = r[l + 1] /\ Tail(From(r, l + 1)) = From(r, l + 2)
        BY <3>2, Uptos
      <4> QED  BY <3>3, <4>1
    <3>5. f = Add(e, Head(p)) /\ Head(p) \in {".", ".."}
      BY <1>1, <3>2, <3>3, <3>4 DEF Steps, Solid
    <3>6. e \in Dirs(w) /\ e \in Seq(Names)
      <4>1. e \in Dirs(w)
        BY <1>3, <1>9, <3>1, <3>2, <3>3
      <4> QED  BY <1>9, <4>1, ParentIsDir
    <3>7. PICK child : child = Append(e, Head(p))
      OBVIOUS
    <3>8. Unfolds(w, n, e, p, FALSE, k, child)
      BY <1>9, <3>4, <3>6, <3>7, AtStep
    <3>9. Add(e, ".") = e /\ Add(e, "..") = Parent(e)
      BY DEF Add, Parent
    <3>10. At(w, n, e, p, FALSE, k) = At(w, n, f, Tail(p), FALSE, k)
      BY <3>5, <3>8, <3>9 DEF Unfolds
    <3>11. At(w, n, <<>>, r, FALSE, k) = At(w, n, e, p, FALSE, k)
      BY <2>2, <3>1, <3>3
    <3>12. j + (i + 1) + 1 = l + 2
      BY <3>2
    <3> QED  BY <3>2, <3>3, <3>4, <3>10, <3>11, <3>12
  <2>3. \A i \in 0 .. m - j : i \in S
    <3> HIDE DEF S
    <3> QED  BY <1>2, <2>1, <2>2, Climbs
  <2>4. m - j \in S
    <3> HIDE DEF S
    <3> QED  BY <1>2, <2>3
  <2>5. At(w, n, <<>>, r, FALSE, k) = At(w, n, d, q, FALSE, k)
    <3>1. j + (m - j) = m
      BY <1>2
    <3> QED  BY <1>4, <2>4, <3>1
  <2>6. At(w, n, <<>>, c, FALSE, k) = At(w, n, d, q, FALSE, k)
    <3>1. Upto(c, Len(d)) \in Dirs(w)
      BY <1>5, <1>8, <1>9
    <3>2. At(w, n, <<>>, c, FALSE, k) = At(w, n, Upto(c, Len(d)), From(c, Len(d) + 1), FALSE, k)
      BY <1>8, <1>9, <3>1, Descends
    <3> QED  BY <1>8, <3>2
  <2> QED  BY <2>5, <2>6
<1> QED  BY <1>7, <1>9 DEF IsCanonical

-----------------------------------------------------------------------------
(* The files of a tree, by their own names.                                 *)

\* lstat() finds every file, and stat() those that are not links.
LEMMA Itself ==
    ASSUME RealNames, NEW t, FileSystem(t), NEW n \in Nat, NEW k \in BOOLEAN,
           NEW p \in DOMAIN t, k \/ t[p].kind # "link"
    PROVE  At(t, n, <<>>, p, FALSE, k) = Opened(p, n)
<1>1. p \in Seq(Names) /\ p \in Seq(Components)
  <2>1. p \in Seq(Names) /\ Names \subseteq Components
    BY DEF FileSystem, Components
  <2> QED  BY <2>1, SeqMonotonic
<1>2. CASE p = <<>>
  BY <1>1, <1>2, AtEnd
<1>3. CASE p # <<>>
  <2>1. PICK l : l = Len(p) - 1
    OBVIOUS
  <2>2. l \in 0 .. Len(p) - 1 /\ l \in 0 .. Len(p) /\ l + 1 = Len(p) /\ Len(p) - l = 1
    BY <1>1, <1>3, <2>1, EmptySeq
  <2>3. PICK d, q : d = Upto(p, l) /\ q = From(p, l + 1)
    OBVIOUS
  <2>4. At(t, n, <<>>, p, FALSE, k) = At(t, n, d, q, FALSE, k)
    <3>1. d \in Dirs(t)
      BY <1>3, <2>1, <2>3 DEF FileSystem, Dirs, Front, Upto
    <3> QED  BY <1>1, <2>2, <2>3, <3>1, Descends
  <2>5. /\ q \in Seq(Components) /\ q # <<>> /\ Len(q) = 1 /\ Head(q) \in Names
        /\ Append(d, Head(q)) = p /\ d \in Seq(Names)
    <3>1. /\ q \in Seq(Names) /\ q # <<>> /\ Head(q) = p[l + 1] /\ Len(q) = Len(p) - l
          /\ d \in Seq(Names) /\ p[l + 1] \in Names
      BY <1>1, <2>2, <2>3, Uptos
    <3>2. Append(d, p[l + 1]) = Upto(p, l + 1)
      BY <1>1, <2>2, <2>3, Uptos
    <3>3. Upto(p, Len(p)) = p
      BY <1>1, SubSeqFull DEF Upto
    <3>4. q \in Seq(Components)
      <4>1. Names \subseteq Components
        BY DEF Components
      <4> QED  BY <3>1, <4>1, SeqMonotonic
    <3> QED  BY <2>2, <3>1, <3>2, <3>3, <3>4
  <2>6. GoesOn(t, n, d, q, FALSE, k, p)
    <3>1. Head(q) \notin {".", ".."}
      BY <2>5 DEF RealNames
    <3> QED  BY <2>5, <3>1, Enters
  <2>7. Tail(q) = <<>>
    BY <2>5, TailFacts
  <2>8. At(t, n, p, <<>>, FALSE, k) = Opened(p, n)
    BY <1>1, AtEnd
  <2> QED  BY <2>4, <2>6, <2>7, <2>8 DEF GoesOn
<1> QED  BY <1>2, <1>3

\* A path that can be looked up is a file's own name if there are no links on the way.
LEMMA Direct ==
    ASSUME RealNames, NEW t, FileSystem(t), NEW n \in Nat, NEW k \in BOOLEAN,
           NEW p \in Seq(Names), Finds(At(t, n, <<>>, p, FALSE, k)),
           \A i \in 0 .. Len(p) - 1 : Upto(p, i) \in DOMAIN t => t[Upto(p, i)].kind # "link"
    PROVE  p \in DOMAIN t
<1> DEFINE S == {i \in 0 .. Len(p) - 1 : Upto(p, i) \in Dirs(t)}
<1>1. Len(p) \in Nat /\ p \in Seq(Components)
  <2>1. Names \subseteq Components
    BY DEF Components
  <2> QED  BY <2>1, SeqMonotonic
<1>2. ASSUME NEW i \in 0 .. Len(p) - 1, Upto(p, i) \in Dirs(t)
      PROVE  /\ Upto(p, i + 1) \in DOMAIN t
             /\ i + 1 \in 0 .. Len(p) - 1 => Upto(p, i + 1) \in Dirs(t)
  <2>1. PICK d, c, q : d = Upto(p, i) /\ c = Upto(p, i + 1) /\ q = From(p, i + 1)
    OBVIOUS
  <2>2. i \in 0 .. Len(p) /\ i \in Nat
    BY <1>1
  <2>3. Finds(At(t, n, d, q, FALSE, k))
    <3>1. At(t, n, <<>>, p, FALSE, k) = At(t, n, Upto(p, i), From(p, i + 1), FALSE, k)
      BY <1>1, <1>2, <2>2, Descends
    <3> QED  BY <2>1, <3>1
  <2>4. /\ q \in Seq(Components) /\ q # <<>> /\ Len(q) = Len(p) - i
        /\ Head(q) \in Names /\ c = Append(d, Head(q)) /\ d \in Seq(Names)
    <3>1. /\ From(p, i + 1) \in Seq(Names) /\ From(p, i + 1) # <<>>
          /\ Head(From(p, i + 1)) = p[i + 1] /\ Len(From(p, i + 1)) = Len(p) - i
          /\ Upto(p, i) \in Seq(Names) /\ p[i + 1] \in Names
          /\ Append(Upto(p, i), p[i + 1]) = Upto(p, i + 1)
      BY Uptos
    <3>2. Names \subseteq Components
      BY DEF Components
    <3>3. q \in Seq(Components)
      BY <2>1, <3>1, <3>2, SeqMonotonic
    <3> QED  BY <2>1, <3>1, <3>3
  <2>5. Halts(t, n, d, q, FALSE, k, c)
    <3>1. Head(q) \notin {".", ".."}
      BY <2>4 DEF RealNames
    <3> QED  BY <2>4, <3>1, Stops
  <2>6. Error("missing").error # "opened" /\ Error("not_dir").error # "opened"
    BY DEF Error
  <2>7. c \in DOMAIN t
    BY <2>3, <2>5, <2>6 DEF Halts, Finds
  <2>8. ASSUME i + 1 \in 0 .. Len(p) - 1 PROVE c \in Dirs(t)
    <3>1. t[c].kind # "link"
      BY <2>1, <2>7, <2>8
    <3>2. Len(q) # 1
      BY <1>1, <2>2, <2>4, <2>8
    <3> QED  BY <2>3, <2>5, <2>6, <2>7, <3>1, <3>2 DEF Halts, Finds, Dirs
  <2> QED  BY <2>1, <2>7, <2>8
<1>3. Upto(p, 0) = <<>> /\ Upto(p, Len(p)) = p /\ <<>> \in Dirs(t)
  BY SubSeqEmpty, SubSeqFull DEF Upto, FileSystem, Dirs
<1>4. CASE p = <<>>
  BY <1>3, <1>4 DEF Dirs
<1>5. CASE p # <<>>
  <2>1. Len(p) - 1 \in Nat /\ Len(p) - 1 \in 0 .. Len(p) - 1 /\ 0 \in 0 .. Len(p) - 1
        /\ (Len(p) - 1) + 1 = Len(p)
    BY <1>1, <1>5, EmptySeq
  <2>2. 0 \in S
    BY <1>3, <2>1
  <2>3. \A i \in 0 .. (Len(p) - 1) - 1 : i \in S => i + 1 \in S
    BY <1>1, <1>2
  <2>4. \A i \in 0 .. Len(p) - 1 : i \in S
    <3> HIDE DEF S
    <3> QED  BY <2>1, <2>2, <2>3, Climbs
  <2>5. Upto(p, Len(p) - 1) \in Dirs(t)
    BY <2>1, <2>4
  <2> QED  BY <1>2, <1>3, <2>1, <2>5
<1> QED  BY <1>4, <1>5

-----------------------------------------------------------------------------
(* Trees like the host: there may be less, but some links are known to be   *)
(* there, and each leads where it leads on the host or is told to go up to  *)
(* the root first.                                                          *)
LinkNames(h) == {p \in DOMAIN h : h[p].kind = "link"}

Target(h, p) ==
    IF h[p].target.absolute THEN h[p].target.parts ELSE Front(p) \o h[p].target.parts

Upwards(d) == [i \in 1 .. Len(d) |-> ".."]

Points(h, t, p) ==
    \/ t[p] = h[p]
    \/ /\ t[p].target.absolute = FALSE
       /\ t[p].target.parts = Upwards(Front(p)) \o Target(h, p)

Like(h, t, known) ==
    /\ FileSystem(t) /\ SlashFree(t) /\ known \subseteq DOMAIN t
    /\ \A p \in DOMAIN t : p \in DOMAIN h /\ t[p].kind = h[p].kind
    /\ \A p \in DOMAIN t : p \in LinkNames(h) => Points(h, t, p)

LEMMA HostIsLike ==
    ASSUME NEW h, FileSystem(h), SlashFree(h), NEW known \in SUBSET LinkNames(h)
    PROVE  Like(h, h, known)
BY DEF Like, Points, LinkNames

LEMMA FewerKnown ==
    ASSUME NEW h, NEW known, NEW more, known \subseteq more, NEW t, Like(h, t, more)
    PROVE  Like(h, t, known)
BY DEF Like

\* For example the host with fewer links.
LEMMA PartIsLike ==
    ASSUME NEW h, FileSystem(h), SlashFree(h), NEW known \in SUBSET LinkNames(h), NEW t,
           t = [p \in {q \in DOMAIN h : h[q].kind = "link" => q \in known} |-> h[p]]
    PROVE  Like(h, t, known)
<1>1. \A p \in DOMAIN h : h[p].kind # "link" => p \in DOMAIN t
  OBVIOUS
<1>2. \A p \in DOMAIN t : p \in DOMAIN h /\ t[p] = h[p]
  OBVIOUS
<1>3. known \subseteq DOMAIN t
  BY DEF LinkNames
<1>4. SlashFree(t)
  BY <1>2 DEF SlashFree
<1>5. FileSystem(t)
  <2>1. DOMAIN t \subseteq Seq(Names) /\ <<>> \in DOMAIN t /\ t[<<>>].kind = "dir"
    BY <1>1, <1>2 DEF FileSystem
  <2>2. \A p \in DOMAIN t \ {<<>>} : Front(p) \in DOMAIN t /\ t[Front(p)].kind = "dir"
    <3>1. \A p \in DOMAIN t \ {<<>>} : Front(p) \in DOMAIN h /\ h[Front(p)].kind = "dir"
      BY <1>2 DEF FileSystem
    <3>2. \A q \in DOMAIN h : h[q].kind = "dir" => q \in DOMAIN t /\ t[q].kind = "dir"
      BY <1>1, <1>2
    <3> QED  BY <3>1, <3>2
  <2>3. \A p \in DOMAIN t : t[p].kind = "link" => /\ t[p].target.parts \in Seq(Components)
                                                  /\ t[p].target.slash \in BOOLEAN
    BY <1>2 DEF FileSystem
  <2> QED  BY <2>1, <2>2, <2>3 DEF FileSystem
<1> QED  BY <1>2, <1>3, <1>4, <1>5 DEF Like, Points

\* What is assumed of the host while a request is dealt with.
Plain ==
    /\ RealNames /\ FileSystem(host) /\ SlashFree(host) /\ MaxLinks \in Nat
    /\ MaxLinkLevel \in 0 .. MaxLinks
    /\ \A p \in LinkNames(host) : DotsFirst(host[p].target.parts)
    /\ \A p \in NeverSymlinks : ~IsSymlink(p)

LEMMA IsAtRoot ==
    ASSUME Plain, NEW t, FileSystem(t), SlashFree(t), NEW p \in Seq(Components)
    PROVE  /\ NoFollow(t, p) = At(t, MaxLinks, <<>>, p, FALSE, TRUE)
           /\ Follow(t, p) = At(t, MaxLinks, <<>>, p, FALSE, FALSE)
<1>1. <<>> \in Seq(Names) /\ MaxLinks \in Nat
  BY DEF Plain
<1>2. \A k \in BOOLEAN : Lookup(t, FALSE)[Place(MaxLinks, <<>>, p, FALSE, k)]
                           = At(t, MaxLinks, <<>>, p, FALSE, k)
  BY <1>1, StrictIsLax
<1> QED  BY <1>2 DEF NoFollow, Follow, Find

LEMMA LinksAreSeen ==
    ASSUME Plain, NEW p \in LinkNames(host)
    PROVE  IsSymlink(p) /\ NoFollow(host, p).file = p
<1>1. p \in DOMAIN host /\ host[p].kind = "link" /\ p \in Seq(Components)
  <2>1. p \in DOMAIN host /\ p \in Seq(Names) /\ Names \subseteq Components
    BY DEF LinkNames, Plain, FileSystem, Components
  <2> QED  BY <2>1, SeqMonotonic DEF LinkNames
<1>2. NoFollow(host, p) = At(host, MaxLinks, <<>>, p, FALSE, TRUE)
  BY <1>1, IsAtRoot DEF Plain
<1>3. At(host, MaxLinks, <<>>, p, FALSE, TRUE) = Opened(p, MaxLinks)
  <2>1. TRUE \in BOOLEAN /\ RealNames /\ FileSystem(host) /\ MaxLinks \in Nat
    BY DEF Plain
  <2> QED  BY <1>1, <2>1, Itself
<1>4. Opened(p, MaxLinks).error = "opened" /\ Opened(p, MaxLinks).file = p
  BY DEF Opened
<1>5. PICK r : r = NoFollow(host, p)
  OBVIOUS
<1>6. r.error = "opened" /\ r.file = p
  BY <1>2, <1>3, <1>4, <1>5
<1>7. IsSymlink(p) = (r.error = "opened" /\ host[r.file].kind = "link")
  BY <1>5 DEF IsSymlink, IsA, Finds
<1> QED  BY <1>1, <1>5, <1>6, <1>7

\* A path without links above what it leads to.
LEMMA IsOwnName ==
    ASSUME Plain, NEW p \in Seq(Names), Finds(NoFollow(host, p)),
           \A i \in 0 .. Len(p) - 1 : ~IsSymlink(Upto(p, i))
    PROVE  p \in DOMAIN host /\ NoFollow(host, p) = Opened(p, MaxLinks)
<1>1. RealNames /\ FileSystem(host) /\ MaxLinks \in Nat /\ TRUE \in BOOLEAN
  BY DEF Plain
<1>2. NoFollow(host, p) = At(host, MaxLinks, <<>>, p, FALSE, TRUE)
  <2>1. Names \subseteq Components
    BY DEF Components
  <2>2. p \in Seq(Components)
    BY <2>1, SeqMonotonic
  <2> QED  BY <2>2, IsAtRoot DEF Plain
<1>3. \A i \in 0 .. Len(p) - 1 : Upto(p, i) \in DOMAIN host => host[Upto(p, i)].kind # "link"
  BY LinksAreSeen DEF LinkNames
<1>4. p \in DOMAIN host
  BY <1>1, <1>2, <1>3, Direct
<1> QED  BY <1>1, <1>2, <1>4, Itself

LEMMA RootIsNoLink == ASSUME Plain PROVE ~IsSymlink(<<>>)
<1>1. <<>> \in DOMAIN host /\ host[<<>>].kind = "dir" /\ <<>> \in Seq(Components)
      /\ TRUE \in BOOLEAN /\ RealNames /\ FileSystem(host) /\ SlashFree(host) /\ MaxLinks \in Nat
  BY DEF Plain, FileSystem
<1>2. NoFollow(host, <<>>) = At(host, MaxLinks, <<>>, <<>>, FALSE, TRUE)
  BY <1>1, IsAtRoot
<1>3. PICK e : e = <<>>
  OBVIOUS
<1>4. At(host, MaxLinks, <<>>, e, FALSE, TRUE) = Opened(e, MaxLinks)
  BY <1>1, <1>3, Itself
<1>5. NoFollow(host, <<>>) = Opened(<<>>, MaxLinks)
  BY <1>2, <1>3, <1>4
<1>6. NoFollow(host, <<>>).file = <<>>
  BY <1>5 DEF Opened
<1> QED  BY <1>1, <1>6 DEF IsSymlink, IsA

LEMMA LinkOnTheWay ==
    ASSUME Plain, NEW c \in Seq(Names), NEW i, i = LinkAt(c), i # 0
    PROVE  /\ i \in 1 .. Len(c) /\ Upto(c, i) \in LinkNames(host)
           /\ NoFollow(host, Upto(c, i)).file = Upto(c, i)
<1>1. LinksIn(c) # {} /\ i = Min(LinksIn(c))
  BY DEF LinkAt
<1>2. i \in LinksIn(c) /\ \A l \in LinksIn(c) : i <= l
  <2>1. LinksIn(c) \in SUBSET Nat
    BY DEF LinksIn
  <2>2. \E m \in LinksIn(c) : \A l \in LinksIn(c) : m <= l
    BY <1>1, <2>1, HasMinimum
  <2> QED  BY <1>1, <2>2 DEF Min
<1>3. i \in 1 .. Len(c) /\ i \in Nat /\ Len(c) \in Nat
  BY <1>2 DEF LinksIn
<1>4. PICK p : p = Upto(c, i)
  OBVIOUS
<1>5. p \in Seq(Names) /\ Len(p) = i
  <2>1. \A l \in 1 .. i : c[l] \in Names
    BY <1>3
  <2> QED  BY <1>3, <1>4, <2>1, SubSeqProperties DEF Upto
<1>6. IsSymlink(p)
  BY <1>2, <1>4 DEF LinksIn
<1>7. ASSUME NEW l \in 0 .. Len(p) - 1 PROVE ~IsSymlink(Upto(p, l))
  <2>1. l \in 0 .. i - 1 /\ l \in Nat
    BY <1>3, <1>5
  <2>2. Upto(p, l) = Upto(c, l)
    BY <1>3, <1>4, <2>1 DEF Upto
  <2>3. CASE l = 0
    <3>1. Upto(c, 0) = <<>>
      BY SubSeqEmpty DEF Upto
    <3> QED  BY <2>2, <2>3, <3>1, RootIsNoLink
  <2>4. CASE l # 0
    <3>1. l \in 1 .. Len(c) /\ ~(i <= l)
      BY <1>3, <2>1, <2>4
    <3>2. l \notin LinksIn(c)
      BY <1>2, <3>1
    <3> QED  BY <2>2, <3>1, <3>2 DEF LinksIn, Plain
  <2> QED  BY <2>3, <2>4
<1>8. p \in DOMAIN host /\ NoFollow(host, p) = Opened(p, MaxLinks)
  <2>1. Finds(NoFollow(host, p))
    BY <1>6 DEF IsSymlink, IsA
  <2> QED  BY <1>5, <1>7, <2>1, IsOwnName
<1>9. NoFollow(host, p).file = p
  BY <1>8 DEF Opened
<1>10. host[p].kind = "link"
  BY <1>6, <1>9 DEF IsSymlink, IsA
<1> QED  BY <1>3, <1>4, <1>8, <1>9, <1>10 DEF LinkNames

LEMMA NoLinkOnTheWay ==
    ASSUME Plain, NEW c \in Seq(Names), LinkAt(c) = 0, Finds(NoFollow(host, c))
    PROVE  c \in DOMAIN host /\ host[c].kind # "link"
<1>1. Len(c) \in Nat /\ Upto(c, Len(c)) = c
  BY SubSeqFull DEF Upto
<1>2. LinksIn(c) = {}
  <2>1. SUFFICES ASSUME LinksIn(c) # {} PROVE FALSE
    OBVIOUS
  <2>2. LinksIn(c) \in SUBSET Nat /\ 0 \notin LinksIn(c)
    BY DEF LinksIn
  <2>3. \E m \in LinksIn(c) : \A l \in LinksIn(c) : m <= l
    BY <2>1, <2>2, HasMinimum
  <2>4. LinkAt(c) \in LinksIn(c)
    BY <2>1, <2>3 DEF LinkAt, Min
  <2> QED  BY <2>2, <2>4
<1>3. ASSUME NEW i \in 1 .. Len(c) PROVE ~IsSymlink(Upto(c, i))
  BY <1>2 DEF LinksIn, Plain
<1>4. <<>> \in DOMAIN host /\ host[<<>>].kind = "dir"
  BY DEF Plain, FileSystem
<1>5. CASE c = <<>>
  BY <1>4, <1>5
<1>6. CASE c # <<>>
  <2>1. Len(c) \in 1 .. Len(c) /\ 0 \in 0 .. Len(c) /\ Len(c) > 0
    BY <1>1, <1>6, EmptySeq
  <2>2. Upto(c, 0) = <<>>
    BY SubSeqEmpty DEF Upto
  <2>3. ~IsSymlink(<<>>)
    BY RootIsNoLink
  <2>4. ASSUME NEW i \in 0 .. Len(c) - 1 PROVE ~IsSymlink(Upto(c, i))
    <3>1. i = 0 \/ i \in 1 .. Len(c)
      BY <1>1
    <3> QED  BY <1>3, <2>2, <2>3, <3>1
  <2>5. c \in DOMAIN host
    BY <2>4, IsOwnName
  <2>6. ~IsSymlink(c)
    BY <1>1, <1>3, <2>1
  <2> QED  BY <2>5, <2>6, LinksAreSeen DEF LinkNames
<1> QED  BY <1>5, <1>6

\* The target of a link, and what is after the link.
Pieced(h, d, y, r) ==
    /\ r \in Seq(Components) /\ y \in Seq(Components)
    /\ Len(d) \in 0 .. Len(r) /\ Upto(r, Len(d)) = d /\ From(r, Len(d) + 1) = y
    /\ \E j, m : Solid(h, r, j, m)

LEMMA Pieces ==
    ASSUME RealNames, NEW h, FileSystem(h), NEW d \in Dirs(h), NEW q \in Seq(Components),
           DotsFirst(q), NEW z \in Seq(Names), NEW r, r = (d \o q) \o z
    PROVE  Pieced(h, d, q \o z, r)
<1>1. d \in Seq(Names) /\ d \in Seq(Components) /\ z \in Seq(Components)
  <2>1. d \in Seq(Names) /\ Names \subseteq Components
    BY ParentIsDir DEF Components
  <2> QED  BY <2>1, SeqMonotonic
<1>2. PICK y : y = q \o z
  OBVIOUS
<1>3. r = d \o y
  BY <1>1, <1>2, ConcatAssociative
<1>4. y \in Seq(Components) /\ Len(y) = Len(q) + Len(z)
  BY <1>1, <1>2, ConcatProperties
<1>5. /\ r \in Seq(Components) /\ Len(r) = Len(d) + Len(y) /\ Len(d) \in 0 .. Len(r)
      /\ Upto(r, Len(d)) = d /\ From(r, Len(d) + 1) = y
  <2>1. Splits(Components, r, d, y)
    BY <1>1, <1>3, <1>4, Halves
  <2> QED  BY <2>1 DEF Splits
<1>6. PICK n \in 0 .. Len(q) : /\ \A i \in 1 .. n : q[i] \in {".", ".."}
                               /\ \A i \in n + 1 .. Len(q) : q[i] \notin {".", ".."}
  BY DEF DotsFirst
<1>7. PICK j, m : j = Len(d) /\ m = Len(d) + n
  OBVIOUS
<1>8. /\ Len(d) \in Nat /\ Len(q) \in Nat /\ Len(z) \in Nat /\ Len(y) \in Nat /\ n \in Nat
  BY <1>1, <1>4, <1>6
<1>9. ASSUME NEW i \in j + 1 .. Len(r)
      PROVE  /\ i - j \in 1 .. Len(y) /\ r[i] = y[i - j]
             /\ i - j <= Len(q) => i - j \in 1 .. Len(q) /\ y[i - j] = q[i - j]
             /\ ~(i - j <= Len(q)) => y[i - j] \in Names
  <2>1. i \in 1 .. Len(d) + Len(y) /\ ~(i <= Len(d)) /\ i - Len(d) \in 1 .. Len(q) + Len(z)
    BY <1>4, <1>5, <1>7, <1>8
  <2>2. r[i] = y[i - Len(d)]
    BY <1>1, <1>3, <1>4, <2>1, ConcatProperties
  <2>3. PICK l : l = i - Len(d)
    OBVIOUS
  <2>4. l <= Len(q) => l \in 1 .. Len(q) /\ y[l] = q[l]
    BY <1>1, <1>2, <1>8, <2>1, <2>3, ConcatProperties
  <2>5. ~(l <= Len(q)) => y[l] \in Names
    <3>1. SUFFICES ASSUME ~(l <= Len(q)) PROVE y[l] \in Names
      OBVIOUS
    <3>2. l - Len(q) \in 1 .. Len(z)
      BY <1>8, <2>1, <2>3, <3>1
    <3>3. y[l] = z[l - Len(q)]
      BY <1>1, <1>2, <2>1, <2>3, <3>1, ConcatProperties
    <3> QED  BY <3>2, <3>3
  <2> QED  BY <1>4, <1>7, <2>1, <2>2, <2>3, <2>4, <2>5
<1>10. Solid(h, r, j, m)
  <2>1. j \in 0 .. Len(r) /\ m \in j .. Len(r) /\ Upto(r, j) \in Dirs(h)
    BY <1>4, <1>5, <1>7, <1>8
  <2>2. ASSUME NEW i \in j + 1 .. m PROVE r[i] \in {".", ".."}
    <3>1. i \in j + 1 .. Len(r) /\ i - j \in 1 .. n /\ i - j <= Len(q)
      BY <1>4, <1>5, <1>7, <1>8
    <3> QED  BY <1>6, <1>9, <3>1
  <2>3. ASSUME NEW i \in m + 1 .. Len(r) PROVE r[i] \notin {".", ".."}
    <3>1. i \in j + 1 .. Len(r) /\ (i - j <= Len(q) => i - j \in n + 1 .. Len(q))
      BY <1>4, <1>5, <1>7, <1>8
    <3>2. CASE i - j <= Len(q)
      BY <1>6, <1>9, <3>1, <3>2
    <3>3. CASE ~(i - j <= Len(q))
      BY <1>9, <3>1, <3>3 DEF RealNames
    <3> QED  BY <3>2, <3>3
  <2> QED  BY <2>1, <2>2, <2>3 DEF Solid
<1> QED  BY <1>2, <1>4, <1>5, <1>10 DEF Pieced

LEMMA FrontOfAppend ==
    ASSUME NEW S, NEW a \in Seq(S), NEW x \in S, NEW b, b = Append(a, x)
    PROVE  Front(b) = a /\ b # <<>>
BY DEF Front

\* All ".." that it takes to get to the root.
LEMMA Ascends ==
    ASSUME NEW t, FileSystem(t), NEW n \in Nat, NEW k \in BOOLEAN, NEW d \in Dirs(t),
           NEW q \in Seq(Components), NEW z, z = Upwards(d) \o q
    PROVE  At(t, n, d, z, FALSE, k) = At(t, n, <<>>, q, FALSE, k)
<1>1. d \in Seq(Names) /\ Len(d) \in Nat
  BY ParentIsDir
<1>2. PICK up : up = Upwards(d)
  OBVIOUS
<1>3. up \in Seq(Components) /\ Len(up) = Len(d) /\ \A i \in 1 .. Len(d) : up[i] = ".."
  BY <1>1, <1>2 DEF Upwards, Components
<1>4. /\ z \in Seq(Components) /\ Len(z) = Len(d) + Len(q) /\ Len(q) \in Nat
      /\ From(z, Len(d) + 1) = q
  <2>1. z = up \o q
    BY <1>2
  <2>2. Splits(Components, z, up, q)
    BY <1>3, <2>1, Halves
  <2> QED  BY <1>3, <2>2 DEF Splits
<1>5. \A i \in 1 .. Len(d) : z[i] = ".."
  BY <1>2, <1>3, ConcatProperties
<1> DEFINE S == {i \in 0 .. Len(d) :
                   At(t, n, d, z, FALSE, k) = At(t, n, Upto(d, Len(d) - i), From(z, i + 1), FALSE, k)}
<1>6. 0 \in S
  <2>1. Upto(d, Len(d)) = d /\ From(z, 1) = z
    BY <1>1, <1>4, SubSeqFull DEF Upto, From
  <2>2. Len(d) - 0 = Len(d) /\ 0 + 1 = 1 /\ 0 \in 0 .. Len(d)
    BY <1>1
  <2> QED  BY <2>1, <2>2
<1>7. ASSUME NEW i \in 0 .. Len(d) - 1, i \in S PROVE i + 1 \in S
  <2>1. PICK l : l = Len(d) - i
    OBVIOUS
  <2>2. /\ l \in 1 .. Len(d) /\ l \in 0 .. Len(d) /\ l - 1 \in 0 .. Len(d) - 1
        /\ l - 1 \in 0 .. Len(d) /\ Len(d) - (i + 1) = l - 1 /\ (l - 1) + 1 = l
        /\ i + 1 \in 0 .. Len(d) /\ i + 1 \in 1 .. Len(d) /\ i \in 0 .. Len(z) - 1
        /\ (i + 1) + 1 = i + 2
    BY <1>1, <1>4, <2>1
  <2>3. PICK e, f, p : e = Upto(d, l) /\ f = Upto(d, l - 1) /\ p = From(z, i + 1)
    OBVIOUS
  <2>4. e \in Dirs(t) /\ e \in Seq(Names)
    <3>1. Upto(d, l) \in Dirs(t)
      BY <1>1, <2>2, DirsAbove
    <3> QED  BY <2>3, <3>1, ParentIsDir
  <2>5. Parent(e) = f
    <3>1. f \in Seq(Names) /\ d[l] \in Names /\ Append(f, d[l]) = e
      BY <1>1, <2>2, <2>3, Uptos
    <3>2. PICK x \in Names : e = Append(f, x)
      BY <3>1
    <3>3. Front(e) = f /\ e # <<>>
      BY <3>1, <3>2, FrontOfAppend
    <3> QED  BY <3>3 DEF Parent
  <2>6. p \in Seq(Components) /\ p # <<>> /\ Head(p) = ".." /\ Tail(p) = From(z, i + 2)
    <3>1. /\ From(z, i + 1) \in Seq(Components) /\ From(z, i + 1) # <<>>
          /\ Head(From(z, i + 1)) = z[i + 1] /\ Tail(From(z, i + 1)) = From(z, i + 2)
      BY <1>4, <2>2, Uptos
    <3> QED  BY <1>5, <2>2, <2>3, <3>1
  <2>7. PICK child : child = Append(e, Head(p))
    OBVIOUS
  <2>8. Unfolds(t, n, e, p, FALSE, k, child)
    BY <2>4, <2>6, <2>7, AtStep
  <2>9. At(t, n, e, p, FALSE, k) = At(t, n, f, Tail(p), FALSE, k)
    BY <2>5, <2>6, <2>8 DEF Unfolds
  <2>10. At(t, n, d, z, FALSE, k) = At(t, n, e, p, FALSE, k)
    BY <1>7, <2>1, <2>3
  <2> QED  BY <2>2, <2>3, <2>6, <2>9, <2>10
<1>8. \A i \in 0 .. Len(d) : i \in S
  <2> HIDE DEF S
  <2> QED  BY <1>1, <1>6, <1>7, Climbs
<1>9. Len(d) \in S
  <2> HIDE DEF S
  <2> QED  BY <1>1, <1>8
<1>10. Len(d) - Len(d) = 0 /\ Upto(d, 0) = <<>>
  BY <1>1, SubSeqEmpty DEF Upto
<1> QED  BY <1>4, <1>9, <1>10

\* A link in a tree like the host: where the rest of the path is looked up.
AtLink(u, d, p, z) ==
    /\ p \in Seq(Components) /\ p # <<>> /\ Head(p) \notin {".", ".."}
    /\ u = Append(d, Head(p)) /\ d = Front(u) /\ z = Tail(p)

LeadsLike(t, n, d, p, q, z) ==
    At(t, n, d, p, FALSE, FALSE) = At(t, n - 1, <<>>, q \o z, FALSE, FALSE)

LEMMA LinkLike ==
    ASSUME Plain, NEW known, NEW t, Like(host, t, known), NEW n \in Nat, n > 0,
           NEW u \in LinkNames(host), u \in DOMAIN t, NEW d \in Dirs(t), NEW p, NEW z,
           AtLink(u, d, p, z), NEW q, q = Target(host, u)
    PROVE  LeadsLike(t, n, d, p, q, z)
<1>1. FileSystem(t) /\ SlashFree(t) /\ RealNames /\ t[u].kind = "link" /\ Points(host, t, u)
      /\ FileSystem(host)
  BY DEF Like, LinkNames, Plain
<1>2. d \in Seq(Names) /\ d \in Seq(Components) /\ Len(d) \in Nat
  <2>1. d \in Seq(Names) /\ Names \subseteq Components
    BY <1>1, ParentIsDir DEF Components
  <2> QED  BY <2>1, SeqMonotonic
<1>3. z \in Seq(Components) /\ (Len(p) = 1 <=> z = <<>>)
  BY TailFacts DEF AtLink
<1>4. PICK g, link : g = host[u].target /\ link = t[u].target
  OBVIOUS
<1>5. g.parts \in Seq(Components)
  BY <1>1, <1>4 DEF FileSystem, LinkNames
<1>6. q = (IF g.absolute THEN g.parts ELSE d \o g.parts) /\ q \in Seq(Components)
  BY <1>2, <1>4, <1>5 DEF Target, AtLink
<1>7. /\ link.parts \in Seq(Components) /\ link.slash = FALSE
      /\ WalksFrom(d, link) \in Dirs(t) /\ WalksFrom(d, link) \in Seq(Names)
  BY <1>1, <1>4, TargetFacts DEF SlashFree, AtLink
<1>8. Leads(t, n, d, p, FALSE, FALSE, link)
  BY <1>1, <1>4, Follows DEF AtLink
<1>9. PICK e, y, m : e = WalksFrom(d, link) /\ y = link.parts \o z /\ m = n - 1
  OBVIOUS
<1>10. m \in Nat /\ y \in Seq(Components) /\ q \o z \in Seq(Components)
       /\ e \in Dirs(t) /\ e \in Seq(Names)
  <2>1. m \in Nat /\ e \in Dirs(t) /\ e \in Seq(Names)
    BY <1>7, <1>9
  <2>2. link.parts \o z \in Seq(Components) /\ q \o z \in Seq(Components)
    BY <1>3, <1>6, <1>7, ConcatProperties
  <2> QED  BY <1>9, <2>1, <2>2
<1>11. At(t, n, d, p, FALSE, FALSE) = At(t, m, e, y, FALSE, FALSE)
  <2>1. CASE Len(p) # 1
    <3>1. Leads(t, n, d, p, FALSE, FALSE, link) /\ Len(p) # 1
      BY <1>8, <2>1
    <3>2. At(t, n, d, p, FALSE, FALSE)
            = At(t, n - 1, WalksFrom(d, link), link.parts \o Tail(p), FALSE, FALSE)
      BY ONLY <3>1 DEF Leads
    <3> QED  BY <1>9, <3>2 DEF AtLink
  <2>2. CASE Len(p) = 1
    <3>1. y = link.parts
      BY <1>3, <1>7, <1>9, <2>2, ConcatEmptySeq
    <3> QED  BY <1>7, <1>8, <1>9, <2>2, <3>1 DEF Leads
  <2> QED  BY <2>1, <2>2
<1>12. CASE t[u] = host[u]
  <2>1. link = g
    BY <1>4, <1>12
  <2>2. CASE g.absolute
    <3>1. e = <<>> /\ y = q \o z
      BY <1>6, <1>9, <2>1, <2>2 DEF WalksFrom
    <3> QED  BY <1>9, <1>11, <3>1 DEF LeadsLike
  <2>3. CASE ~g.absolute
    <3>1. e = d /\ y = g.parts \o z /\ q = d \o g.parts
      BY <1>6, <1>9, <2>1, <2>3 DEF WalksFrom
    <3>2. PICK r, b : r = q \o z /\ b = g.parts
      OBVIOUS
    <3>3. r = d \o y /\ r \in Seq(Components)
      <4>1. r = (d \o b) \o z /\ y = b \o z /\ b \in Seq(Components)
        BY <1>5, <3>1, <3>2
      <4>2. (d \o b) \o z = d \o (b \o z)
        <5>1. d \in Seq(Components) /\ b \in Seq(Components) /\ z \in Seq(Components)
          BY <1>2, <1>3, <4>1
        <5> QED  BY ONLY <5>1, ConcatAssociative
      <4> QED  BY <1>10, <3>2, <4>1, <4>2
    <3>4. Splits(Components, r, d, y)
      BY <1>2, <1>10, <3>3, Halves
    <3>5. Len(d) \in 0 .. Len(r) /\ Upto(r, Len(d)) = d /\ From(r, Len(d) + 1) = y
      BY <3>4 DEF Splits
    <3>6. At(t, m, <<>>, r, FALSE, FALSE)
            = At(t, m, Upto(r, Len(d)), From(r, Len(d) + 1), FALSE, FALSE)
      <4>1. Upto(r, Len(d)) \in Dirs(t) /\ Len(d) \in 0 .. Len(r) /\ FALSE \in BOOLEAN
        BY <3>5
      <4>2. At(t, m, <<>>, r, FALSE, FALSE)
              = At(t, m, Upto(r, Len(d)), From(r, Len(d) + 1), FALSE, FALSE)
        BY <1>1, <1>10, <3>3, <4>1, Descends
      <4> QED  BY <4>2
    <3>7. At(t, m, <<>>, r, FALSE, FALSE) = At(t, m, d, y, FALSE, FALSE)
      BY <3>5, <3>6
    <3> QED  BY <1>9, <1>11, <3>1, <3>2, <3>7 DEF LeadsLike
  <2> QED  BY <2>2, <2>3
<1>13. CASE t[u] # host[u]
  <2>1. link.absolute = FALSE /\ link.parts = Upwards(d) \o q
    BY <1>1, <1>4, <1>13 DEF Points, AtLink
  <2>2. PICK up : up = Upwards(d)
    OBVIOUS
  <2>3. up \in Seq(Components)
    BY <1>2, <2>2 DEF Upwards, Components
  <2>4. e = d
    BY <1>9, <2>1 DEF WalksFrom
  <2>5. PICK r : r = q \o z /\ r \in Seq(Components)
    BY <1>10
  <2>6. y = up \o r
    <3>1. y = (up \o q) \o z
      BY <1>9, <2>1, <2>2
    <3>2. (up \o q) \o z = up \o (q \o z)
      <4>1. up \in Seq(Components) /\ q \in Seq(Components) /\ z \in Seq(Components)
        BY <1>3, <1>6, <2>3
      <4> QED  BY ONLY <4>1, ConcatAssociative
    <3> QED  BY <2>5, <3>1, <3>2
  <2>7. At(t, m, d, y, FALSE, FALSE) = At(t, m, <<>>, r, FALSE, FALSE)
    <3>1. /\ FALSE \in BOOLEAN /\ y = Upwards(d) \o r /\ r \in Seq(Components)
          /\ FileSystem(t) /\ m \in Nat /\ d \in Dirs(t)
      BY <1>1, <1>10, <2>2, <2>5, <2>6
    <3> QED  BY ONLY <3>1, Ascends
  <2> QED  BY <1>9, <1>11, <2>4, <2>5, <2>7 DEF LeadsLike
<1> QED  BY <1>12, <1>13

Shortens(t, c, r) ==
    \A n \in Nat : n > 0 =>
        At(t, n, <<>>, c, FALSE, FALSE) = At(t, n - 1, <<>>, r, FALSE, FALSE)

Retargeted(t, c, r) ==
    /\ r \in Seq(Components) /\ \E j, m : Solid(t, r, j, m)
    /\ Shortens(t, c, r)

\* One link less is to be followed if its target takes its place.
LEMMA Retarget ==
    ASSUME Plain, NEW c \in Seq(Names), NEW i \in 1 .. Len(c), NEW u \in LinkNames(host),
           u = Upto(c, i), NoFollow(host, u).file = u,
           NEW r, r = ResolveLink(u) \o From(c, i + 1), NEW known, u \in known,
           NEW t, Like(host, t, known)
    PROVE  Retargeted(t, c, r)
<1>1. /\ RealNames /\ FileSystem(host) /\ FileSystem(t) /\ u \in DOMAIN t
      /\ u \in DOMAIN host /\ host[u].kind = "link" /\ u \in Seq(Names)
  BY DEF Plain, LinkNames, FileSystem, Like
<1>2. PICK d, e, q, z, link : /\ d = Upto(c, i - 1) /\ link = host[u].target
                              /\ q = link.parts /\ z = From(c, i + 1) /\ e = WalksFrom(d, link)
  OBVIOUS
<1>3. Len(c) \in Nat /\ i \in Nat /\ i - 1 \in 0 .. Len(c) - 1 /\ i - 1 \in 0 .. Len(c)
      /\ (i - 1) + 1 = i /\ (i - 1) + 2 = i + 1
  OBVIOUS
<1>4. Len(u) = i /\ Append(d, c[i]) = u /\ c[i] \in Names /\ d \in Seq(Names)
  <2>1. \A l \in 1 .. i : c[l] \in Names
    BY <1>3
  <2>2. Len(u) = i
    BY <1>3, <2>1, SubSeqProperties DEF Upto
  <2>3. /\ Append(Upto(c, i - 1), c[(i - 1) + 1]) = Upto(c, (i - 1) + 1)
        /\ c[(i - 1) + 1] \in Names /\ Upto(c, i - 1) \in Seq(Names)
    BY <1>3, Uptos
  <2> QED  BY <1>2, <1>3, <2>2, <2>3
<1>5. Front(u) = d /\ d \in Dirs(t)
  <2>1. PICK x : x = c[i]
    OBVIOUS
  <2>2. Append(d, x) = u /\ x \in Names /\ d \in Seq(Names)
    BY <1>4, <2>1
  <2>3. Front(u) = d /\ u # <<>>
    BY <2>2, FrontOfAppend
  <2> QED  BY <1>1, <2>2, <2>3 DEF FileSystem, Dirs
<1>6. z \in Seq(Names)
  <2>1. i + 1 \in Int /\ Len(c) \in Int /\ \A l \in i + 1 .. Len(c) : c[l] \in Names
    BY <1>3
  <2>2. SubSeq(c, i + 1, Len(c)) \in Seq(Names)
    BY ONLY <2>1, SubSeqProperties
  <2> QED  BY <1>2, <2>2 DEF From
<1>7. q \in Seq(Components) /\ e \in Dirs(t) /\ e \in Seq(Names) /\ DotsFirst(q)
  <2>1. q \in Seq(Components) /\ DotsFirst(q)
    BY <1>1, <1>2 DEF Plain, FileSystem
  <2>2. <<>> \in Dirs(t) /\ <<>> \in Seq(Names)
    BY <1>1 DEF FileSystem, Dirs
  <2> QED  BY <1>2, <1>4, <1>5, <2>1, <2>2 DEF WalksFrom
<1>8. r = (e \o q) \o z /\ r = Target(host, u) \o z
  <2>1. ResolveLink(u) = IF link.absolute THEN q ELSE d \o q
    BY <1>2, <1>5 DEF ResolveLink
  <2>2. <<>> \o q = q
    BY <1>7, ConcatEmptySeq
  <2>3. Target(host, u) = ResolveLink(u)
    BY <1>2, <1>5, <2>1 DEF Target
  <2> QED  BY <1>2, <2>1, <2>2, <2>3 DEF WalksFrom
<1>9. PICK y : y = q \o z
  OBVIOUS
<1>10. Pieced(t, e, y, r)
  BY <1>1, <1>6, <1>7, <1>8, <1>9, Pieces
<1>11. ASSUME NEW n \in Nat, n > 0
       PROVE  At(t, n, <<>>, c, FALSE, FALSE) = At(t, n - 1, <<>>, r, FALSE, FALSE)
  <2>1. PICK p : p = From(c, i)
    OBVIOUS
  <2>2. /\ p \in Seq(Components) /\ p # <<>> /\ Head(p) = c[i] /\ Tail(p) = z
    <3>1. /\ From(c, (i - 1) + 1) \in Seq(Names) /\ From(c, (i - 1) + 1) # <<>>
          /\ Head(From(c, (i - 1) + 1)) = c[(i - 1) + 1]
          /\ Tail(From(c, (i - 1) + 1)) = From(c, (i - 1) + 2)
      BY <1>3, Uptos
    <3>2. p \in Seq(Names) /\ Names \subseteq Components
      BY <1>3, <2>1, <3>1 DEF Components
    <3>3. p \in Seq(Components)
      BY <3>2, SeqMonotonic
    <3> QED  BY <1>2, <1>3, <2>1, <3>1, <3>3
  <2>3. At(t, n, <<>>, c, FALSE, FALSE) = At(t, n, d, p, FALSE, FALSE)
    <3>1. c \in Seq(Components) /\ FALSE \in BOOLEAN
      <4>1. Names \subseteq Components
        BY DEF Components
      <4> QED  BY <4>1, SeqMonotonic
    <3>2. Upto(c, i - 1) \in Dirs(t)
      BY <1>2, <1>5
    <3>3. At(t, n, <<>>, c, FALSE, FALSE)
            = At(t, n, Upto(c, i - 1), From(c, (i - 1) + 1), FALSE, FALSE)
      BY <1>1, <1>3, <3>1, <3>2, Descends
    <3> QED  BY <1>2, <1>3, <2>1, <3>3
  <2>4. PICK goal : goal = Target(host, u)
    OBVIOUS
  <2>5. LeadsLike(t, n, d, p, goal, z)
    <3>1. AtLink(u, d, p, z)
      BY <1>1, <1>4, <1>5, <2>2 DEF RealNames, AtLink
    <3> QED  BY <1>1, <1>5, <1>11, <2>2, <2>4, <3>1, LinkLike
  <2> QED  BY <1>8, <2>3, <2>4, <2>5 DEF LeadsLike
<1> QED  BY <1>10, <1>11 DEF Pieced, Shortens, Retargeted

-----------------------------------------------------------------------------
(* The invariant.                                                          *)
ModeSet == {Dir, Tmpfs, ReadOnly, ReadWrite}

IsWish(w) == w.mode \in ModeSet /\ w.path \in Seq(Components)

\* While a request is dealt with: on the host with the links that have been met, what
\* was asked for is where the path is by now, however many other links there are.
SameGoal(t, n, p) ==
    At(t, MaxLinks, <<>>, request.path, FALSE, FALSE) = At(t, n, <<>>, p, FALSE, FALSE)

Reaches ==
    /\ links \in Seq(LinkNames(host)) /\ path \in Seq(Components) /\ IsWish(request)
    /\ \A t : Like(host, t, Range(links)) => /\ \E j, m : Solid(t, path, j, m)
                                             /\ SameGoal(t, MaxLinks - Len(links), path)

\* The links in the table lead to what was granted, if it is there, whatever else is.
Known == DOMAIN exports \cap LinkNames(host)

FoundAt(w, p, n) ==
    \A t : Like(host, t, Known) /\ p \in DOMAIN t =>
        At(t, MaxLinks, <<>>, w.path, FALSE, FALSE) = Opened(p, n)

Enough(w) ==
    /\ IsWish(w) /\ RealPath(w) \in DOMAIN exports
    /\ RealPath(w) \in DOMAIN host /\ RealPath(w) \notin LinkNames(host)
    /\ \E n \in Nat : FoundAt(w, RealPath(w), n)

TableInv ==
    /\ stage = "expose" /\ Len(links) <= MaxLinkLevel => Reaches
    /\ \A w \in granted : Enough(w)
    /\ \A p \in DOMAIN exports : IsAsked(p)

ExportsInv == host \in Hosts /\ (IsPlain => TableInv)

LEMMA PlainHost ==
    ASSUME ExportsParameters, host \in Hosts, IsPlain
    PROVE  Plain
BY DEF ExportsParameters, IsPlain, TmpIsLink, Plain, RealNames, SlashFree, LinkNames

LEMMA RealPathIs ==
    ASSUME Plain, NEW w, w.path \in Seq(Components), NEW p, NEW n \in Nat,
           At(host, MaxLinks, <<>>, w.path, FALSE, FALSE) = Opened(p, n)
    PROVE  Follow(host, w.path) = Opened(p, n) /\ RealPath(w) = p
<1>1. Follow(host, w.path) = At(host, MaxLinks, <<>>, w.path, FALSE, FALSE)
  BY IsAtRoot DEF Plain
<1>2. Opened(p, n).file = p
  BY DEF Opened
<1> QED  BY <1>1, <1>2 DEF RealPath

\* The invariant says what is to be shown.
LEMMA TableIsAsAsked ==
    ASSUME ExportsParameters, ExportsInv PROVE TableAsAsked
<1>1. SUFFICES ASSUME IsPlain PROVE (\A w \in granted : HasFile(w))
                                    /\ (\A p \in DOMAIN exports : IsAsked(p))
  BY DEF TableAsAsked
<1>2. Plain
  BY <1>1, PlainHost DEF ExportsInv
<1>3. ASSUME NEW w \in granted PROVE HasFile(w)
  <2>1. Enough(w)
    BY <1>1 DEF ExportsInv, TableInv
  <2>2. PICK n \in Nat : FoundAt(w, RealPath(w), n)
    BY <2>1 DEF Enough
  <2>3. w.path \in Seq(Components) /\ RealPath(w) \in DOMAIN exports
    BY <2>1 DEF Enough, IsWish
  <2>4. FileSystem(host) /\ SlashFree(host) /\ Known \in SUBSET LinkNames(host)
    BY <1>2 DEF Plain, Known
  <2>5. Like(host, host, Known)
    BY <2>4, HostIsLike
  <2>6. PICK t : t = WithKnownLinks
    OBVIOUS
  <2>7. Like(host, t, Known) /\ RealPath(w) \in DOMAIN t
    <3>1. t = [p \in {q \in DOMAIN host : host[q].kind = "link" => q \in Known} |-> host[p]]
      BY <2>6 DEF WithKnownLinks, Known, LinkNames
    <3>2. Like(host, t, Known)
      BY <2>4, <3>1, PartIsLike
    <3> QED  BY <2>1, <3>1, <3>2 DEF Enough, LinkNames
  <2>8. FileSystem(t) /\ SlashFree(t)
    BY <2>7 DEF Like
  <2>9. /\ Follow(host, w.path) = At(host, MaxLinks, <<>>, w.path, FALSE, FALSE)
        /\ Follow(t, w.path) = At(t, MaxLinks, <<>>, w.path, FALSE, FALSE)
    BY <1>2, <2>3, <2>4, <2>8, IsAtRoot
  <2>10. /\ At(host, MaxLinks, <<>>, w.path, FALSE, FALSE) = Opened(RealPath(w), n)
         /\ At(t, MaxLinks, <<>>, w.path, FALSE, FALSE) = Opened(RealPath(w), n)
    BY <2>1, <2>2, <2>5, <2>7 DEF FoundAt, Enough
  <2>11. Finds(Follow(host, w.path))
    <3>1. Opened(RealPath(w), n).error = "opened"
      BY DEF Opened
    <3> QED  BY <2>9, <2>10, <3>1 DEF Finds
  <2> QED  BY <2>3, <2>6, <2>9, <2>10, <2>11 DEF HasFile
<1> QED  BY <1>1, <1>3 DEF ExportsInv, TableInv

LEMMA TableInit == ASSUME ExportsParameters, ExportsInit PROVE ExportsInv
BY DEF ExportsInit, ExportsInv, TableInv

LEMMA TableAsk == ASSUME ExportsParameters, ExportsInv, Ask PROVE ExportsInv'
<1>1. host' = host /\ exports' = exports /\ granted' = granted /\ host' \in Hosts
  BY DEF Ask, ExportsInv
<1>2. SUFFICES ASSUME IsPlain PROVE TableInv'
  BY <1>1 DEF ExportsInv, IsPlain, TmpIsLink, IsSymlink
<1>3. Plain /\ TableInv
  BY <1>2, PlainHost DEF ExportsInv
<1>4. Reaches'
  <2>1. /\ request' \in Wishes /\ path' = request'.path /\ links' = <<>>
    BY DEF Ask
  <2>2. IsWish(request') /\ DotsFirst(request'.path) /\ MaxLinks \in Nat
    BY <2>1 DEF ExportsParameters, IsWish, ModeSet
  <2>3. PICK r : r = request'.path
    OBVIOUS
  <2>4. ASSUME NEW t, FileSystem(t) PROVE \E j, m : Solid(t, r, j, m)
    <3>1. PICK n \in 0 .. Len(r) : /\ \A i \in 1 .. n : r[i] \in {".", ".."}
                                   /\ \A i \in n + 1 .. Len(r) : r[i] \notin {".", ".."}
      BY <2>2, <2>3 DEF DotsFirst
    <3>2. Upto(r, 0) = <<>> /\ <<>> \in Dirs(t)
      BY <2>4, SubSeqEmpty DEF Upto, FileSystem, Dirs
    <3>3. 0 \in 0 .. Len(r) /\ 0 + 1 = 1 /\ r \in Seq(Components)
      BY <2>2, <2>3 DEF IsWish
    <3>4. Solid(t, r, 0, n)
      BY <3>1, <3>2, <3>3 DEF Solid
    <3> QED  BY <3>4
  <2>5. links' \in Seq(LinkNames(host)) /\ Len(links') = 0 /\ MaxLinks - 0 = MaxLinks
    BY <2>1, <2>2
  <2>6. \A t : SameGoal(t, MaxLinks - Len(links), path)'
    BY <2>1, <2>5 DEF SameGoal
  <2>7. \A t : Like(host, t, Range(links')) => \E j, m : Solid(t, path', j, m)
    BY <2>1, <2>3, <2>4 DEF Like
  <2>8. /\ links' \in Seq(LinkNames(host)) /\ path' \in Seq(Components) /\ IsWish(request')
        /\ IsWish(request)' = IsWish(request') /\ LinkNames(host)' = LinkNames(host)
        /\ \A t : Like(host, t, Range(links))' = Like(host, t, Range(links'))
    BY <1>1, <2>1, <2>2, <2>5 DEF IsWish, ModeSet, LinkNames, Like, Points
  <2> QED  BY <2>6, <2>7, <2>8 DEF Reaches, Solid
<1> QED  BY <1>1, <1>3, <1>4 DEF TableInv, Enough, FoundAt, Known, IsAsked, RealPath

LEMMA TableRefuse == ASSUME ExportsParameters, ExportsInv, Refuse PROVE ExportsInv'
<1>1. /\ host' = host /\ exports' = exports /\ granted' = granted /\ stage' = "idle"
  BY DEF Refuse
<1>2. IsPlain' = IsPlain
  BY <1>1 DEF IsPlain, TmpIsLink, IsSymlink
<1>3. ASSUME TableInv PROVE TableInv'
  <2>1. \A w \in granted' : Enough(w)'
    BY <1>1, <1>3 DEF TableInv, Enough, FoundAt, Known, RealPath
  <2>2. \A p \in DOMAIN exports' : IsAsked(p)'
    BY <1>1, <1>3 DEF TableInv, IsAsked, RealPath
  <2> QED  BY <1>1, <2>1, <2>2 DEF TableInv
<1> QED  BY <1>1, <1>2, <1>3 DEF ExportsInv

\* Where a request has got to, by the name that _exports_path_expose() gives it.
GoodName(c) ==
    /\ c \in Seq(Names) /\ NoFollow(host, c) = NoFollow(host, path)
    /\ \A t : Like(host, t, Range(links)) => SameGoal(t, MaxLinks - Len(links), c)

LEMMA HasGoodName ==
    ASSUME Plain, Reaches, Len(links) <= MaxLinkLevel, NEW c, c = Canonical(path)
    PROVE  GoodName(c)
<1>1. PICK r, n : r = path /\ n = MaxLinks - Len(links)
  OBVIOUS
<1>2. RealNames /\ FileSystem(host) /\ SlashFree(host) /\ MaxLinks \in Nat
  BY DEF Plain
<1>3. r \in Seq(Components) /\ n \in Nat /\ c = Canonical(r)
  BY <1>1, <1>2 DEF Reaches, Plain
<1>4. ASSUME NEW t, Like(host, t, Range(links))
      PROVE  c \in Seq(Names) /\ SameWay(t, r, c) /\ SameGoal(t, n, c)
  <2>1. PICK j, m : Solid(t, r, j, m)
    BY <1>1, <1>4 DEF Reaches
  <2>2. FileSystem(t)
    BY <1>4 DEF Like
  <2>3. IsCanonical(t, r, c)
    BY <1>2, <1>3, <2>1, <2>2, Canonicalizes
  <2>4. SameGoal(t, n, r)
    BY <1>1, <1>4 DEF Reaches
  <2> QED  BY <1>3, <2>3, <2>4 DEF IsCanonical, SameGoal, SameWay
<1>5. Like(host, host, Range(links))
  <2>1. links \in Seq(LinkNames(host))
    BY DEF Reaches
  <2>2. Range(links) \in SUBSET LinkNames(host)
    BY <2>1 DEF Range
  <2> QED  BY <1>2, <2>2, HostIsLike
<1>6. c \in Seq(Names) /\ SameWay(host, r, c)
  BY <1>4, <1>5
<1>7. NoFollow(host, c) = NoFollow(host, r)
  <2>1. c \in Seq(Components)
    <3>1. Names \subseteq Components
      BY DEF Components
    <3> QED  BY <1>6, <3>1, SeqMonotonic
  <2>2. /\ NoFollow(host, c) = At(host, MaxLinks, <<>>, c, FALSE, TRUE)
        /\ NoFollow(host, r) = At(host, MaxLinks, <<>>, r, FALSE, TRUE)
    BY <1>2, <1>3, <2>1, IsAtRoot
  <2> QED  BY <1>2, <1>6, <2>2 DEF SameWay
<1> QED  BY <1>1, <1>4, <1>6, <1>7 DEF GoodName

LEMMA TableExposeTarget ==
    ASSUME ExportsParameters, ExportsInv, ExposeTarget PROVE ExportsInv'
<1>1. /\ host' = host /\ exports' = exports /\ granted' = granted /\ request' = request
      /\ stage = "expose" /\ MayExpose
  BY DEF ExposeTarget
<1>2. SUFFICES ASSUME IsPlain PROVE TableInv'
  <2>1. IsPlain' = IsPlain
    BY <1>1 DEF IsPlain, TmpIsLink, IsSymlink
  <2> QED  BY <1>1, <2>1 DEF ExportsInv
<1>3. Plain /\ TableInv /\ Len(links) <= MaxLinkLevel /\ Reaches
  BY <1>1, <1>2, PlainHost DEF ExportsInv, TableInv, MayExpose
<1>4. PICK c, i, u, r : /\ c = Canonical(path) /\ i = LinkAt(c) /\ u = Upto(c, i)
                        /\ r = ResolveLink(u) \o From(c, i + 1)
  OBVIOUS
<1>5. i # 0 /\ links' = Append(links, u) /\ path' = r
  BY <1>4 DEF ExposeTarget
<1>6. GoodName(c)
  BY <1>3, <1>4, HasGoodName
<1>7. c \in Seq(Names)
  BY <1>6 DEF GoodName
<1>8. i \in 1 .. Len(c) /\ u \in LinkNames(host) /\ NoFollow(host, u).file = u
  BY <1>3, <1>4, <1>5, <1>7, LinkOnTheWay
<1>9. /\ links \in Seq(LinkNames(host)) /\ links' \in Seq(LinkNames(host))
      /\ Len(links) \in Nat /\ Len(links') = Len(links) + 1
  <2>1. links \in Seq(LinkNames(host))
    BY <1>3 DEF Reaches
  <2> QED  BY <1>5, <1>8, <2>1, AppendProperties
<1>10. Range(links) \subseteq Range(links') /\ u \in Range(links')
  <2>1. /\ \A l \in DOMAIN links : l \in DOMAIN links' /\ links'[l] = links[l]
        /\ Len(links') \in DOMAIN links' /\ links'[Len(links')] = u
    BY <1>5, <1>8, <1>9, AppendProperties
  <2> QED  BY <2>1 DEF Range
<1>11. PICK known : known = Range(links')
  OBVIOUS
<1>12. ASSUME NEW t, Like(host, t, known)
       PROVE  r \in Seq(Components) /\ (\E j, m : Solid(t, r, j, m)) /\ Shortens(t, c, r)
  <2>1. Retargeted(t, c, r)
    BY <1>3, <1>4, <1>7, <1>8, <1>10, <1>11, <1>12, Retarget
  <2> QED  BY <2>1 DEF Retargeted
<1>13. ASSUME Len(links') <= MaxLinkLevel PROVE Reaches'
  <2>1. PICK n : n = MaxLinks - Len(links)
    OBVIOUS
  <2>2. n \in Nat /\ n > 0 /\ MaxLinks - Len(links') = n - 1
    BY <1>3, <1>9, <1>13, <2>1 DEF Plain
  <2>3. ASSUME NEW t, Like(host, t, known) PROVE SameGoal(t, n - 1, r)
    <3>1. Like(host, t, Range(links))
      BY <1>10, <1>11, <2>3, FewerKnown
    <3>2. SameGoal(t, n, c)
      BY <1>6, <2>1, <3>1 DEF GoodName
    <3>3. At(t, n, <<>>, c, FALSE, FALSE) = At(t, n - 1, <<>>, r, FALSE, FALSE)
      BY <1>12, <2>2, <2>3 DEF Shortens
    <3> QED  BY <3>2, <3>3 DEF SameGoal
  <2>4. \A t : Like(host', t, Range(links')) => /\ \E j, m : Solid(t, path', j, m)
                                               /\ SameGoal(t, MaxLinks - Len(links), path)'
    BY <1>1, <1>5, <1>11, <1>12, <2>2, <2>3 DEF SameGoal
  <2>5. r \in Seq(Components)
    <3>1. FileSystem(host) /\ SlashFree(host) /\ known \in SUBSET LinkNames(host)
      BY <1>3, <1>9, <1>11 DEF Plain, Range
    <3>2. Like(host, host, known)
      BY <3>1, HostIsLike
    <3> QED  BY <1>12, <3>2
  <2> QED  BY <1>1, <1>3, <1>5, <1>9, <2>4, <2>5 DEF Reaches, IsWish
<1>14. \A w \in granted' : Enough(w)'
  BY <1>1, <1>3 DEF TableInv, Enough, FoundAt, Known, RealPath
<1>15. \A p \in DOMAIN exports' : IsAsked(p)'
  BY <1>1, <1>3 DEF TableInv, IsAsked, RealPath
<1> QED  BY <1>13, <1>14, <1>15 DEF TableInv

-----------------------------------------------------------------------------
(* Adding to the table.                                                    *)
LEMMA MaxOfTwo ==
    ASSUME NEW a \in Int, NEW b \in Int
    PROVE  Max({a, b}) \in {a, b} /\ Max({a, b}) >= a /\ Max({a, b}) >= b
<1>1. \E m \in {a, b} : \A y \in {a, b} : m >= y
  <2>1. a >= b \/ b >= a
    OBVIOUS
  <2> QED  BY <2>1
<1> QED  BY <1>1 DEF Max

\* What do_export_path() does for a file and for the links on the way to it.
Exported(table, c, mode, known, new) ==
    /\ DOMAIN new = DOMAIN table \cup {c} \cup known
    /\ \A q \in known : new[q] = IF q \in DOMAIN table THEN Max({table[q], Symlink}) ELSE Symlink
    /\ new[c] = IF c \in DOMAIN table THEN Max({table[c], mode}) ELSE mode
    /\ \A q \in DOMAIN table : q # c /\ q \notin known => new[q] = table[q]

LEMMA ExportsBoth ==
    ASSUME NEW table, NEW c, NEW mode, NEW known, c \notin known, NEW new,
           new = DoExport(DoExport(table, {c}, mode), known, Symlink)
    PROVE  Exported(table, c, mode, known, new)
BY DEF DoExport, Exported

LEMMA TableExpose ==
    ASSUME ExportsParameters, ExportsInv, Expose PROVE ExportsInv'
<1>1. /\ host' = host /\ granted' = granted \cup {request} /\ stage' = "idle"
      /\ stage = "expose" /\ MayExpose
  BY DEF Expose
<1>2. SUFFICES ASSUME IsPlain PROVE TableInv'
  <2>1. IsPlain' = IsPlain
    BY <1>1 DEF IsPlain, TmpIsLink, IsSymlink
  <2> QED  BY <1>1, <2>1 DEF ExportsInv
<1>3. Plain /\ TableInv /\ Len(links) <= MaxLinkLevel /\ Reaches
  BY <1>1, <1>2, PlainHost DEF ExportsInv, TableInv, MayExpose
<1>4. PICK c, known, n : /\ c = Canonical(path) /\ known = Range(links)
                         /\ n = MaxLinks - Len(links)
  OBVIOUS
<1>5. GoodName(c)
  BY <1>3, <1>4, HasGoodName
<1>6. c \in Seq(Names) /\ Finds(NoFollow(host, c)) /\ LinkAt(c) = 0 /\ ~IsReserved(c)
  BY <1>4, <1>5 DEF GoodName, Expose, MayExpose
<1>7. c \in DOMAIN host /\ host[c].kind # "link"
  BY <1>3, <1>6, NoLinkOnTheWay
<1>8. known \subseteq LinkNames(host) /\ c \notin known /\ n \in Nat
  <2>1. links \in Seq(LinkNames(host))
    BY <1>3 DEF Reaches
  <2>2. known \subseteq LinkNames(host)
    BY <1>4, <2>1 DEF Range
  <2>3. n \in Nat
    BY <1>3, <1>4, <2>1 DEF Plain
  <2> QED  BY <1>7, <2>2, <2>3 DEF LinkNames
<1>9. Exported(exports, c, request.mode, known, exports')
  BY <1>4, <1>8, ExportsBoth DEF Expose
<1>10. DOMAIN exports' = DOMAIN exports \cup {c} \cup known
  BY <1>9 DEF Exported
<1>11. IsWish(request)
  BY <1>3 DEF Reaches
<1>12. ASSUME NEW t, Like(host, t, known), c \in DOMAIN t
       PROVE  At(t, MaxLinks, <<>>, request.path, FALSE, FALSE) = Opened(c, n)
  <2>1. SameGoal(t, n, c)
    BY <1>4, <1>5, <1>12 DEF GoodName
  <2>2. t[c].kind # "link" /\ FileSystem(t) /\ RealNames /\ FALSE \in BOOLEAN
    BY <1>3, <1>7, <1>12 DEF Like, Plain
  <2>3. At(t, n, <<>>, c, FALSE, FALSE) = Opened(c, n)
    BY <1>8, <1>12, <2>2, Itself
  <2> QED  BY <2>1, <2>3 DEF SameGoal
<1>13. RealPath(request) = c
  <2>1. FileSystem(host) /\ SlashFree(host) /\ known \in SUBSET LinkNames(host)
    BY <1>3, <1>8 DEF Plain
  <2>2. Like(host, host, known)
    BY <2>1, HostIsLike
  <2>3. At(host, MaxLinks, <<>>, request.path, FALSE, FALSE) = Opened(c, n)
    BY <1>7, <1>12, <2>2
  <2> QED  BY <1>3, <1>8, <1>11, <2>3, RealPathIs DEF IsWish
<1>17. known \subseteq Known' /\ Known \subseteq Known'
  BY <1>1, <1>8, <1>10 DEF Known
<1>14. \A w : RealPath(w)' = RealPath(w)
  BY <1>1 DEF RealPath
<1>15. ASSUME NEW w \in granted' PROVE Enough(w)'
  <2>1. CASE w = request
    <3>1. RealPath(w)' = c
      BY <1>13, <1>14, <2>1
    <3>2. FoundAt(w, c, n)'
      <4>1. \A t : Like(host, t, Known') => Like(host, t, known)
        BY <1>17, FewerKnown
      <4> QED  BY <1>1, <1>12, <2>1, <4>1 DEF FoundAt
    <3>3. IsWish(w) /\ c \in DOMAIN host /\ c \in DOMAIN exports' /\ c \notin LinkNames(host)
      BY <1>7, <1>10, <1>11, <2>1 DEF LinkNames
    <3> QED  BY <1>1, <1>8, <3>1, <3>2, <3>3 DEF Enough, IsWish
  <2>2. CASE w \in granted
    <3>1. Enough(w)
      BY <1>3, <2>2 DEF TableInv
    <3>2. PICK l \in Nat : FoundAt(w, RealPath(w), l)
      BY <3>1 DEF Enough
    <3>3. \A t : Like(host, t, Known') => Like(host, t, Known)
      BY <1>17, FewerKnown
    <3>4. FoundAt(w, RealPath(w), l)'
      BY <1>1, <1>14, <3>2, <3>3 DEF FoundAt
    <3> QED  BY <1>1, <1>10, <1>14, <3>1, <3>2, <3>4 DEF Enough, IsWish
  <2> QED  BY <1>1, <2>1, <2>2
<1>16. ASSUME NEW p \in DOMAIN exports' PROVE IsAsked(p)'
  <2>1. p \in DOMAIN exports => IsAsked(p)
    BY <1>3 DEF TableInv
  <2>2. CASE p \in known
    <3>1. p \in LinkNames(host) /\ Symlink \in Int
      BY <1>8, <2>2 DEF Symlink
    <3>2. p \in DOMAIN exports => exports[p] = Symlink
      BY <2>1, <3>1 DEF IsAsked, LinkNames
    <3>3. exports'[p] = Symlink
      BY <1>9, <2>2, <3>1, <3>2, MaxOfTwo DEF Exported
    <3> QED  BY <1>1, <3>1, <3>3 DEF IsAsked, LinkNames
  <2>3. CASE p = c
    <3>1. request.mode \in Int
      BY <1>11 DEF IsWish, ModeSet, Dir, Tmpfs, ReadOnly, ReadWrite
    <3>2. \A w \in granted : w.mode \in Int
      BY <1>3 DEF TableInv, Enough, IsWish, ModeSet, Dir, Tmpfs, ReadOnly, ReadWrite
    <3>3. CASE c \notin DOMAIN exports
      <4>1. \A w \in granted : RealPath(w) # c
        BY <1>3, <3>3 DEF TableInv, Enough
      <4>2. exports'[c] = request.mode
        BY <1>9, <3>3 DEF Exported
      <4>3. \A w \in granted' : RealPath(w)' = c => w = request
        BY <1>1, <1>14, <4>1
      <4> QED  BY <1>1, <1>6, <1>7, <1>13, <1>14, <2>3, <3>1, <4>2, <4>3 DEF IsAsked, IsReserved
    <3>4. CASE c \in DOMAIN exports
      <4>1. PICK v \in granted : RealPath(v) = c /\ v.mode = exports[c]
        BY <1>7, <2>1, <2>3, <3>4 DEF IsAsked
      <4>2. \A w \in granted : RealPath(w) = c => w.mode <= exports[c]
        BY <1>7, <2>1, <2>3, <3>4 DEF IsAsked
      <4>3. exports[c] \in Int
        BY <3>2, <4>1
      <4>4. exports'[c] = Max({exports[c], request.mode})
        BY <1>9, <3>4 DEF Exported
      <4>5. /\ exports'[c] \in {exports[c], request.mode} /\ exports'[c] >= exports[c]
            /\ exports'[c] >= request.mode
        BY <3>1, <4>3, <4>4, MaxOfTwo
      <4>6. \E w \in granted' : RealPath(w)' = c /\ w.mode = exports'[c]
        BY <1>1, <1>13, <1>14, <4>1, <4>5
      <4>7. \A w \in granted' : RealPath(w)' = c => w.mode <= exports'[c]
        BY <1>1, <1>14, <3>1, <3>2, <4>2, <4>3, <4>5
      <4> QED  BY <1>1, <1>6, <1>7, <2>3, <4>6, <4>7 DEF IsAsked, IsReserved
    <3> QED  BY <3>3, <3>4
  <2>4. CASE p \notin known /\ p # c
    <3>1. p \in DOMAIN exports /\ exports'[p] = exports[p]
      BY <1>9, <1>10, <2>4 DEF Exported
    <3>2. \A w \in granted' : RealPath(w)' = p <=> (w \in granted /\ RealPath(w) = p)
      BY <1>1, <1>13, <1>14, <2>4
    <3> QED  BY <1>1, <2>1, <3>1, <3>2 DEF IsAsked, IsReserved
  <2> QED  BY <2>2, <2>3, <2>4
<1> QED  BY <1>1, <1>15, <1>16 DEF TableInv

LEMMA TableStays ==
    ASSUME ExportsParameters, ExportsInv, UNCHANGED <<host, exports, granted, links, path, request>>,
           stage' \in {stage, "done"}
    PROVE  ExportsInv'
<1>1. /\ host' = host /\ exports' = exports /\ granted' = granted /\ links' = links
      /\ path' = path /\ request' = request
  OBVIOUS
<1>2. IsPlain' = IsPlain
  BY <1>1 DEF IsPlain, TmpIsLink, IsSymlink
<1>3. ASSUME TableInv PROVE TableInv'
  <2>1. \A w \in granted' : Enough(w)'
    BY <1>1, <1>3 DEF TableInv, Enough, FoundAt, Known, RealPath
  <2>2. \A p \in DOMAIN exports' : IsAsked(p)'
    BY <1>1, <1>3 DEF TableInv, IsAsked, RealPath
  <2>3. ASSUME stage' = "expose", Len(links') <= MaxLinkLevel PROVE Reaches'
    <3>1. Reaches
      BY <1>1, <1>3, <2>3 DEF TableInv
    <3> QED  BY <1>1, <3>1 DEF Reaches, SameGoal
  <2> QED  BY <2>1, <2>2, <2>3 DEF TableInv
<1> QED  BY <1>1, <1>2, <1>3 DEF ExportsInv

LEMMA TableStep ==
    ASSUME ExportsParameters, ExportsInv, [BoxNext]_boxVars PROVE ExportsInv'
<1>1. CASE Collect
  BY <1>1, TableAsk, TableRefuse, TableExposeTarget, TableExpose DEF Collect
<1>2. CASE Start
  BY <1>2, TableStays DEF Start
<1>3. CASE SetUp
  BY <1>3, TableStays DEF SetUp, exportVars
<1>4. CASE UNCHANGED boxVars
  BY <1>4, TableStays DEF boxVars, exportVars
<1> QED  BY <1>1, <1>2, <1>3, <1>4 DEF BoxNext

\* While requests are dealt with one after the other, what was granted stays within
\* reach (flatpak-exports.c, _exports_path_expose()).
THEOREM TableInvariant == ASSUME ExportsParameters PROVE BoxSpec => []ExportsInv
<1>1. ASSUME BoxInit PROVE ExportsInv
  BY <1>1, TableInit DEF BoxInit
<1>2. ASSUME ExportsInv, [BoxNext]_boxVars PROVE ExportsInv'
  BY <1>2, TableStep
<1> QED  BY <1>1, <1>2, PTL DEF BoxSpec

\* Whatever hosts and requests there are, the table of exports has the files that the
\* kernel finds for what was asked for, with the mode that allows most, and all links
\* that are needed to find them (flatpak-exports.c, _exports_path_expose()).
THEOREM ExportsAreAsAsked == ASSUME ExportsParameters PROVE BoxSpec => []TableAsAsked
<1>1. ASSUME ExportsInv PROVE TableAsAsked
  BY <1>1, TableIsAsAsked
<1> QED  BY <1>1, TableInvariant, PTL

-----------------------------------------------------------------------------
(* Bubblewrap has a kernel of its own, which is the same one.               *)
LEMMA SameLookup ==
    ASSUME NEW t, NEW p
    PROVE  B!Follow(t, p) = Follow(t, p) /\ B!NoFollow(t, p) = NoFollow(t, p)
<1>1. \A lax : B!Lookup(t, lax) = Lookup(t, lax)
  BY DEF B!Lookup, Lookup, B!Places, Places, B!Advance, Advance, B!GoOn, GoOn,
         B!Error, Error, B!Opened, Opened, B!Place, Place, B!Components, Components,
         B!Front, Front
<1> QED
  BY <1>1 DEF B!Follow, Follow, B!NoFollow, NoFollow, B!Find, Find, B!Place, Place

-----------------------------------------------------------------------------
(* Prefixes.                                                               *)
LEMMA PrefixIs ==
    ASSUME NEW S, NEW p \in Seq(S), NEW q \in Seq(S)
    PROVE  /\ IsPrefix(p, q) <=> Len(p) <= Len(q) /\ \A i \in 1 .. Len(p) : p[i] = q[i]
           /\ IsPrefix(p, q) /\ Len(p) = Len(q) => p = q
<1>1. Len(p) \in Nat /\ Len(q) \in Nat
  OBVIOUS
<1>2. SubSeq(p, 1, Len(p)) = p
  BY SubSeqFull
<1>3. CASE Len(p) <= Len(q)
  <2>1. /\ SubSeq(q, 1, Len(p)) \in Seq(S) /\ Len(SubSeq(q, 1, Len(p))) = Len(p)
        /\ \A i \in 1 .. Len(p) : SubSeq(q, 1, Len(p))[i] = q[i]
    BY <1>1, <1>3, SubSeqProperties
  <2>2. p = SubSeq(q, 1, Len(p)) <=> \A i \in 1 .. Len(p) : p[i] = q[i]
    BY <2>1, SeqEqual
  <2>3. Len(p) = Len(q) => SubSeq(q, 1, Len(p)) = q
    BY SubSeqFull
  <2> QED  BY <1>2, <1>3, <2>2, <2>3 DEF IsPrefix
<1>4. CASE ~(Len(p) <= Len(q))
  BY <1>4 DEF IsPrefix
<1> QED  BY <1>3, <1>4

-----------------------------------------------------------------------------
(* strcmp() is an order.                                                   *)
Ordered ==
    /\ \A n \in DOMAIN Order : /\ Order[n].end \in Int /\ Order[n].slash \in Int
                             /\ Order[n].end < Order[n].slash
    /\ \A m, n \in DOMAIN Order : m # n =>
          {Order[m].end, Order[m].slash} \cap {Order[n].end, Order[n].slash} = {}

\* They are the same up to the i-th component, and then p is before q.
Forks(p, q, i) ==
    /\ i < Len(p) /\ i < Len(q)
    /\ \A j \in 1 .. i : p[j] = q[j]
    /\ Letter(p, i + 1) < Letter(q, i + 1)

LEMMA Letters ==
    ASSUME Ordered, NEW p \in Seq(DOMAIN Order), NEW q \in Seq(DOMAIN Order),
           NEW i \in 1 .. Len(p), i <= Len(q)
    PROVE  /\ Letter(p, i) \in Int /\ Letter(q, i) \in Int
           /\ p[i] # q[i] => Letter(p, i) # Letter(q, i)
           /\ p[i] = q[i] => (Letter(p, i) < Letter(q, i) <=> i = Len(p) /\ i < Len(q))
<1>1. Len(p) \in Nat /\ Len(q) \in Nat /\ i \in 1 .. Len(q)
  OBVIOUS
<1>2. PICK m \in DOMAIN Order : m = p[i]
  OBVIOUS
<1>3. PICK n \in DOMAIN Order : n = q[i]
  BY <1>1
<1>4. /\ Order[m].end \in Int /\ Order[m].slash \in Int /\ Order[m].end < Order[m].slash
      /\ Order[n].end \in Int /\ Order[n].slash \in Int /\ Order[n].end < Order[n].slash
      /\ m # n => /\ Order[m].end # Order[n].end /\ Order[m].end # Order[n].slash
                  /\ Order[m].slash # Order[n].end /\ Order[m].slash # Order[n].slash
  BY DEF Ordered
<1>5. Letter(p, i) = IF i = Len(p) THEN Order[m].end ELSE Order[m].slash
  BY <1>2 DEF Letter
<1>6. Letter(q, i) = IF i = Len(q) THEN Order[n].end ELSE Order[n].slash
  BY <1>3 DEF Letter
<1> QED  BY <1>1, <1>2, <1>3, <1>4, <1>5, <1>6

LEMMA SortsIs ==
    ASSUME Ordered, NEW p \in Seq(DOMAIN Order), NEW q \in Seq(DOMAIN Order)
    PROVE  SortsBefore(p, q) <=> (p = << >> /\ q # << >>) \/ \E i \in Nat : Forks(p, q, i)
<1>1. Len(p) \in Nat /\ Len(q) \in Nat
  OBVIOUS
<1>3. \A i \in 0 .. Len(p) : i <= Len(q) =>
        (Upto(p, i) = Upto(q, i) <=> \A j \in 1 .. i : p[j] = q[j])
  <2> TAKE i \in 0 .. Len(p)
  <2> HAVE i <= Len(q)
  <2>1. /\ Upto(p, i) \in Seq(DOMAIN Order) /\ Len(Upto(p, i)) = i
        /\ \A j \in 1 .. i : Upto(p, i)[j] = p[j]
    BY <1>1, SubSeqProperties DEF Upto
  <2>2. /\ Upto(q, i) \in Seq(DOMAIN Order) /\ Len(Upto(q, i)) = i
        /\ \A j \in 1 .. i : Upto(q, i)[j] = q[j]
    BY <1>1, SubSeqProperties DEF Upto
  <2> QED  BY <2>1, <2>2, SeqEqual
<1> DEFINE Differ(i) == /\ i <= Len(q) /\ Upto(p, i - 1) = Upto(q, i - 1)
                        /\ Letter(p, i) < Letter(q, i)
<1>4. \A i \in 1 .. Len(p) : Differ(i) <=> Forks(p, q, i - 1)
  <2> TAKE i \in 1 .. Len(p)
  <2>1. i - 1 \in 0 .. Len(p) /\ i - 1 < Len(p) /\ (i - 1) + 1 = i /\ (i <= Len(q) <=> i - 1 < Len(q))
    BY <1>1
  <2>2. i <= Len(q) => (Upto(p, i - 1) = Upto(q, i - 1) <=> \A j \in 1 .. i - 1 : p[j] = q[j])
    BY <1>1, <1>3, <2>1
  <2> QED  BY <1>1, <2>1, <2>2 DEF Forks
<1>5. (\E i \in 1 .. Len(p) : Differ(i)) <=> \E i \in Nat : Forks(p, q, i)
  <2>1. ASSUME NEW i \in 1 .. Len(p), Differ(i) PROVE \E k \in Nat : Forks(p, q, k)
    <3>1. i - 1 \in Nat
      BY <1>1
    <3> QED  BY <1>4, <2>1, <3>1
  <2>2. ASSUME NEW i \in Nat, Forks(p, q, i) PROVE \E k \in 1 .. Len(p) : Differ(k)
    <3>1. i + 1 \in 1 .. Len(p) /\ (i + 1) - 1 = i
      BY <1>1, <2>2 DEF Forks
    <3>2. Differ(i + 1)
      BY <1>4, <2>2, <3>1
    <3> QED  BY <3>1, <3>2
  <2> QED  BY <2>1, <2>2
<1> QED  BY <1>5 DEF SortsBefore

LEMMA NotBelow ==
    ASSUME Ordered, NEW p \in Seq(DOMAIN Order), NEW q \in Seq(DOMAIN Order), SortsBefore(p, q)
    PROVE  ~IsPrefix(q, p)
<1>1. Len(p) \in Nat /\ Len(q) \in Nat
  OBVIOUS
<1> SUFFICES ASSUME IsPrefix(q, p) PROVE FALSE
  OBVIOUS
<1>2. Len(q) <= Len(p) /\ \A j \in 1 .. Len(q) : q[j] = p[j]
  BY PrefixIs
<1>3. PICK i \in Nat : Forks(p, q, i)
  BY <1>1, <1>2, SortsIs
<1>4. i + 1 \in 1 .. Len(p) /\ i + 1 <= Len(q) /\ Letter(p, i + 1) < Letter(q, i + 1)
  BY <1>1, <1>3 DEF Forks
<1>5. p[i + 1] = q[i + 1]
  BY <1>1, <1>2, <1>4
<1>6. i + 1 = Len(p) /\ i + 1 < Len(q)
  BY <1>4, <1>5, Letters
<1> QED  BY <1>1, <1>2, <1>6

LEMMA IsOwnPrefix ==
    ASSUME NEW S, NEW p \in Seq(S)
    PROVE  IsPrefix(p, p)
BY PrefixIs

LEMMA SortsOnlyOneWay ==
    ASSUME Ordered, NEW p \in Seq(DOMAIN Order)
    PROVE  ~SortsBefore(p, p)
BY NotBelow, IsOwnPrefix

LEMMA SortsOn ==
    ASSUME Ordered, NEW p \in Seq(DOMAIN Order), NEW q \in Seq(DOMAIN Order),
           NEW r \in Seq(DOMAIN Order), SortsBefore(p, q), SortsBefore(q, r)
    PROVE  SortsBefore(p, r)
<1>1. Len(p) \in Nat /\ Len(q) \in Nat /\ Len(r) \in Nat
  OBVIOUS
<1>2. r # << >>
  <2>1. CASE q = << >> /\ r # << >>
    BY <2>1
  <2>2. CASE \E k \in Nat : Forks(q, r, k)
    BY <1>1, <2>2 DEF Forks
  <2> QED  BY <2>1, <2>2, SortsIs
<1>3. CASE p = << >>
  BY <1>2, <1>3, SortsIs
<1>4. CASE p # << >>
  <2>1. PICK i \in Nat : Forks(p, q, i)
    BY <1>4, SortsIs
  <2>2. q # << >>
    BY <1>1, <2>1 DEF Forks
  <2>3. PICK k \in Nat : Forks(q, r, k)
    BY <2>2, SortsIs
  <2>4. CASE i < k
    <3>1. i < Len(p) /\ i < Len(q) /\ i < Len(r) /\ \A j \in 1 .. i : p[j] = r[j]
      BY <1>1, <2>1, <2>3, <2>4 DEF Forks
    <3>2. q[i + 1] = r[i + 1] /\ i + 1 < Len(q) /\ i + 1 < Len(r)
      BY <1>1, <2>1, <2>3, <2>4 DEF Forks
    <3>3. Letter(q, i + 1) = Letter(r, i + 1)
      BY <1>1, <3>2 DEF Letter
    <3>4. Forks(p, r, i)
      BY <2>1, <3>1, <3>3 DEF Forks
    <3> QED  BY <3>4, SortsIs
  <2>5. CASE k < i
    <3>1. k < Len(p) /\ k < Len(q) /\ k < Len(r) /\ \A j \in 1 .. k : p[j] = r[j]
      BY <1>1, <2>1, <2>3, <2>5 DEF Forks
    <3>2. p[k + 1] = q[k + 1] /\ k + 1 < Len(p) /\ k + 1 < Len(q)
      BY <1>1, <2>1, <2>3, <2>5 DEF Forks
    <3>3. Letter(p, k + 1) = Letter(q, k + 1)
      BY <1>1, <3>2 DEF Letter
    <3>4. Forks(p, r, k)
      BY <2>3, <3>1, <3>3 DEF Forks
    <3> QED  BY <3>4, SortsIs
  <2>6. CASE i = k
    <3>1. i < Len(p) /\ i < Len(q) /\ i < Len(r) /\ \A j \in 1 .. i : p[j] = r[j]
      BY <1>1, <2>1, <2>3, <2>6 DEF Forks
    <3>2. Letter(p, i + 1) < Letter(q, i + 1) /\ Letter(q, i + 1) < Letter(r, i + 1)
      BY <2>1, <2>3, <2>6 DEF Forks
    <3>3. i + 1 \in 1 .. Len(p) /\ i + 1 \in 1 .. Len(q) /\ i + 1 <= Len(q) /\ i + 1 <= Len(r)
      BY <1>1, <3>1
    <3>4. Letter(p, i + 1) \in Int /\ Letter(q, i + 1) \in Int /\ Letter(r, i + 1) \in Int
      BY <3>3, Letters
    <3>5. Forks(p, r, i)
      BY <3>1, <3>2, <3>4 DEF Forks
    <3> QED  BY <3>5, SortsIs
  <2> QED  BY <2>4, <2>5, <2>6
<1> QED  BY <1>3, <1>4

LEMMA SortsSomehow ==
    ASSUME Ordered, NEW p \in Seq(DOMAIN Order), NEW q \in Seq(DOMAIN Order), p # q
    PROVE  SortsBefore(p, q) \/ SortsBefore(q, p)
<1>1. Len(p) \in Nat /\ Len(q) \in Nat
  OBVIOUS
<1>2. CASE p = << >> \/ q = << >>
  BY <1>2, SortsIs
<1>3. CASE p # << >> /\ q # << >>
  <2> DEFINE Same(i) == i + 1 < Len(p) /\ i + 1 < Len(q) /\ p[i + 1] = q[i + 1]
             S == {i \in Nat : ~Same(i)}
  <2>1. PICK m \in S : \A i \in S : m <= i
    <3>1. S \in SUBSET Nat /\ Len(p) \in S
      BY <1>1
    <3> HIDE DEF S
    <3> QED  BY <3>1, HasMinimum
  <2>2. \A j \in 1 .. m : j < Len(p) /\ j < Len(q) /\ p[j] = q[j]
    <3> TAKE j \in 1 .. m
    <3>1. j - 1 \in Nat /\ j - 1 < m /\ (j - 1) + 1 = j
      BY <2>1
    <3>2. Same(j - 1)
      BY <2>1, <3>1
    <3> QED  BY <3>1, <3>2
  <2>3. m < Len(p) /\ m < Len(q)
    <3>1. CASE m = 0
      BY <1>1, <1>3, <3>1
    <3>2. CASE m > 0
      BY <1>1, <2>1, <2>2, <3>2
    <3> QED  BY <2>1, <3>1, <3>2
  <2>4. m + 1 \in 1 .. Len(p) /\ m + 1 \in 1 .. Len(q) /\ m + 1 <= Len(p) /\ m + 1 <= Len(q)
    BY <1>1, <2>1, <2>3
  <2>5. Letter(p, m + 1) \in Int /\ Letter(q, m + 1) \in Int
    BY <2>4, Letters
  <2>6. Letter(p, m + 1) # Letter(q, m + 1)
    <3>1. CASE p[m + 1] # q[m + 1]
      BY <2>4, <3>1, Letters
    <3>2. CASE p[m + 1] = q[m + 1]
      <4>1. m + 1 = Len(p) \/ m + 1 = Len(q)
        BY <1>1, <2>1, <2>3, <3>2
      <4>2. ~(m + 1 = Len(p) /\ m + 1 = Len(q))
        <5>1. (m + 1 = Len(p) /\ m + 1 = Len(q)) => \A j \in 1 .. Len(p) : p[j] = q[j]
          BY <1>1, <2>1, <2>2, <3>2
        <5> QED  BY <5>1, SeqEqual
      <4>3. Letter(p, m + 1) < Letter(q, m + 1) <=> m + 1 = Len(p) /\ m + 1 < Len(q)
        BY <2>4, <3>2, Letters
      <4>4. Letter(q, m + 1) < Letter(p, m + 1) <=> m + 1 = Len(q) /\ m + 1 < Len(p)
        BY <2>4, <3>2, Letters
      <4> QED  BY <1>1, <2>3, <2>5, <4>1, <4>2, <4>3, <4>4
    <3> QED  BY <3>1, <3>2
  <2>7. CASE Letter(p, m + 1) < Letter(q, m + 1)
    <3>1. Forks(p, q, m)
      BY <2>2, <2>3, <2>7 DEF Forks
    <3> QED  BY <2>1, <3>1, SortsIs
  <2>8. CASE Letter(q, m + 1) < Letter(p, m + 1)
    <3>1. Forks(q, p, m)
      BY <2>2, <2>3, <2>8 DEF Forks
    <3> QED  BY <2>1, <3>1, SortsIs
  <2> QED  BY <2>5, <2>6, <2>7, <2>8
<1> QED  BY <1>2, <1>3
-----------------------------------------------------------------------------
(* The arguments, by their ranks.                                          *)
Sortable ==
    /\ Ordered /\ Mentioned \subseteq Seq(DOMAIN Order) /\ IsFiniteSet(Mentioned)

LEMMA Turns ==
    ASSUME Sortable
    PROVE  /\ Cardinality(Mentioned) \in Nat
           /\ \A p \in Mentioned : Turn(p) \in 0 .. Cardinality(Mentioned) - 1
           /\ \A p, q \in Mentioned : Turn(p) < Turn(q) <=> SortsBefore(p, q)
           /\ \A i \in 1 .. Cardinality(Mentioned) : \E p \in Mentioned : Turn(p) = i - 1
<1> DEFINE S        == Mentioned
           Lower(p) == {q \in S : SortsBefore(q, p)}
<1>1. S \subseteq Seq(DOMAIN Order) /\ IsFiniteSet(S) /\ Ordered
  BY DEF Sortable
<1>2. PICK n : n = Cardinality(S) /\ n \in Nat
  BY <1>1, FS_CardinalityType
<1>3. \A p \in S : /\ Turn(p) = Cardinality(Lower(p)) /\ IsFiniteSet(Lower(p))
                   /\ Turn(p) \in Nat /\ Turn(p) <= n /\ p \notin Lower(p)
  <2> TAKE p \in S
  <2>1. Lower(p) \in SUBSET S
    OBVIOUS
  <2>2. IsFiniteSet(Lower(p)) /\ Cardinality(Lower(p)) <= Cardinality(S)
    BY <1>1, <2>1, FS_Subset
  <2>3. Cardinality(Lower(p)) \in Nat
    BY <2>2, FS_CardinalityType
  <2>4. p \notin Lower(p)
    BY <1>1, SortsOnlyOneWay
  <2> QED  BY <1>2, <2>2, <2>3, <2>4 DEF Turn
<1>11. \A p \in S : Turn(p) \in Nat
  BY <1>3
<1>4. \A p \in S : Turn(p) \in 0 .. n - 1
  <2> TAKE p \in S
  <2>1. Lower(p) \in SUBSET S /\ Lower(p) # S
    BY <1>3
  <2>2. Cardinality(Lower(p)) # Cardinality(S)
    BY <1>1, <2>1, FS_Subset
  <2> QED  BY <1>2, <1>3, <2>2
<1>5. \A p, q \in S : SortsBefore(p, q) => Turn(p) < Turn(q)
  <2> TAKE p, q \in S
  <2> HAVE SortsBefore(p, q)
  <2>1. \A r \in Lower(p) : r \in Lower(q)
    BY <1>1, SortsOn
  <2>2. Lower(p) \in SUBSET Lower(q) /\ p \in Lower(q) /\ p \notin Lower(p)
    BY <1>3, <2>1
  <2>3. /\ Cardinality(Lower(p)) <= Cardinality(Lower(q))
        /\ Cardinality(Lower(p)) # Cardinality(Lower(q))
    BY <1>3, <2>2, FS_Subset
  <2> QED  BY <1>3, <2>3
<1>6. \A p, q \in S : Turn(p) < Turn(q) => SortsBefore(p, q)
  <2> TAKE p, q \in S
  <2> HAVE Turn(p) < Turn(q)
  <2>1. p # q /\ ~(Turn(q) < Turn(p))
    BY <1>11
  <2>2. ~SortsBefore(q, p)
    BY <1>5, <2>1
  <2> QED  BY <1>1, <2>1, <2>2, SortsSomehow
<1>7. \A p, q \in S : Turn(p) = Turn(q) => p = q
  <2> TAKE p, q \in S
  <2> HAVE Turn(p) = Turn(q)
  <2>1. ~SortsBefore(p, q) /\ ~SortsBefore(q, p)
    BY <1>11, <1>5
  <2> QED  BY <1>1, <2>1, SortsSomehow
<1> DEFINE f == [p \in S |-> Turn(p) + 1]
<1>8. f \in Injection(S, 1 .. n)
  <2>1. \A p \in S : f[p] \in 1 .. n
    BY <1>2, <1>4
  <2>2. \A p, q \in S : f[p] = f[q] => p = q
    BY <1>11, <1>7
  <2> QED  BY <2>1, <2>2 DEF Injection, IsInjective
<1>9. f \in Surjection(S, 1 .. n)
  <2>1. IsFiniteSet(1 .. n) /\ Cardinality(1 .. n) = n
    BY <1>2, FS_Interval
  <2> HIDE DEF f
  <2> QED  BY <1>2, <1>8, <2>1, FS_Injection
<1>10. \A i \in 1 .. n : \E p \in S : Turn(p) = i - 1
  <2> TAKE i \in 1 .. n
  <2>1. PICK p \in S : f[p] = i
    BY <1>9 DEF Surjection
  <2> QED  BY <1>11, <2>1
<1> QED  BY <1>2, <1>4, <1>5, <1>6, <1>10

\* Which arguments there still are, and that they are in order.
Left(args) == {args[i].dest : i \in DOMAIN args}

InOrder(args) ==
    /\ args \in Seq(Range(args))
    /\ \A i \in 1 .. Len(args) : /\ args[i].dest \in Mentioned
                                 /\ args[i] = ArgumentFor(args[i].dest)
    /\ \A i, j \in 1 .. Len(args) : i < j => SortsBefore(args[i].dest, args[j].dest)
    /\ \A q \in Mentioned \ Left(args) : \A i \in 1 .. Len(args) : SortsBefore(q, args[i].dest)

LEMMA ArgumentIsFor ==
    ASSUME NEW p PROVE ArgumentFor(p).dest = p
BY DEF ArgumentFor, Argument

LEMMA AllInOrder ==
    ASSUME Sortable
    PROVE  InOrder(BwrapArguments) /\ Left(BwrapArguments) = Mentioned
<1>1. PICK n : n = Cardinality(Mentioned) /\ n \in Nat
  BY Turns
<1> DEFINE nth(i) == CHOOSE p \in Mentioned : Turn(p) = i - 1
<1>2. \A i \in 1 .. n : nth(i) \in Mentioned /\ Turn(nth(i)) = i - 1
  BY <1>1, Turns
<1>3. PICK args : args = BwrapArguments
  OBVIOUS
<1>4. args = [i \in 1 .. n |-> ArgumentFor(nth(i))]
  BY <1>1, <1>3 DEF BwrapArguments
<1> HIDE DEF nth
<1>5. DOMAIN args = 1 .. n /\ args \in Seq(Range(args)) /\ Len(args) = n
  BY <1>1, <1>4 DEF Range
<1>6. \A i \in 1 .. n : args[i] = ArgumentFor(nth(i)) /\ args[i].dest = nth(i)
  BY <1>4, ArgumentIsFor
<1>7. \A i \in 1 .. n : args[i].dest \in Mentioned /\ Turn(args[i].dest) = i - 1
                        /\ args[i] = ArgumentFor(args[i].dest)
  BY <1>2, <1>6
<1>8. \A i, j \in 1 .. n : i < j => SortsBefore(args[i].dest, args[j].dest)
  <2> TAKE i, j \in 1 .. n
  <2> HAVE i < j
  <2>1. i - 1 < j - 1
    BY <1>1
  <2> QED  BY <1>7, <2>1, Turns
<1>9. \A p \in Mentioned : p \in Left(args)
  <2> TAKE p \in Mentioned
  <2>1. PICK i \in 1 .. n : Turn(p) = i - 1
    <3>1. Turn(p) \in 0 .. n - 1
      BY <1>1, Turns
    <3>2. Turn(p) + 1 \in 1 .. n /\ Turn(p) = (Turn(p) + 1) - 1
      BY <1>1, <3>1
    <3> QED  BY <3>2
  <2>2. p = args[i].dest
    <3>1. ~(Turn(p) < Turn(args[i].dest)) /\ ~(Turn(args[i].dest) < Turn(p))
      BY <1>1, <1>7, <2>1
    <3>2. ~SortsBefore(p, args[i].dest) /\ ~SortsBefore(args[i].dest, p)
      BY <1>7, <3>1, Turns
    <3> QED  BY <1>7, <3>2, SortsSomehow DEF Sortable
  <2> QED  BY <1>5, <2>2 DEF Left
<1>10. Left(args) = Mentioned
  BY <1>5, <1>7, <1>9 DEF Left
<1> QED  BY <1>3, <1>5, <1>7, <1>8, <1>10 DEF InOrder

-----------------------------------------------------------------------------
(* The deepest of the files above a path.                                  *)
LEMMA PrefixOfPrefix ==
    ASSUME NEW S, NEW a \in Seq(S), NEW b \in Seq(S), NEW p \in Seq(S)
    PROVE  /\ IsPrefix(a, b) /\ IsPrefix(b, p) => IsPrefix(a, p)
           /\ IsPrefix(a, p) /\ IsPrefix(b, p) /\ Len(a) <= Len(b) => IsPrefix(a, b)
           /\ IsPrefix(a, p) /\ IsPrefix(b, p) /\ Len(a) = Len(b) => a = b
<1>1. Len(a) \in Nat /\ Len(b) \in Nat /\ Len(p) \in Nat
  OBVIOUS
<1>2. IsPrefix(a, b) <=> Len(a) <= Len(b) /\ \A i \in 1 .. Len(a) : a[i] = b[i]
  BY PrefixIs
<1>3. IsPrefix(b, p) <=> Len(b) <= Len(p) /\ \A i \in 1 .. Len(b) : b[i] = p[i]
  BY PrefixIs
<1>4. IsPrefix(a, p) <=> Len(a) <= Len(p) /\ \A i \in 1 .. Len(a) : a[i] = p[i]
  BY PrefixIs
<1>5. \A i \in 1 .. Len(a) : Len(a) <= Len(b) => i \in 1 .. Len(b)
  BY <1>1
<1>6. IsPrefix(a, b) /\ IsPrefix(b, p) => IsPrefix(a, p)
  BY <1>1, <1>2, <1>3, <1>4, <1>5
<1>7. IsPrefix(a, p) /\ IsPrefix(b, p) /\ Len(a) <= Len(b) => IsPrefix(a, b)
  BY <1>1, <1>2, <1>3, <1>4, <1>5
<1>8. IsPrefix(a, b) /\ Len(a) = Len(b) => a = b
  BY PrefixIs
<1> QED  BY <1>1, <1>6, <1>7, <1>8

LEMMA RootIsPrefix ==
    ASSUME NEW S, NEW p \in Seq(S)
    PROVE  IsPrefix(<<>>, p)
<1>1. PICK e \in Seq(S) : e = <<>>
  <2>1. <<>> \in Seq(S)
    OBVIOUS
  <2> QED  BY <2>1
<1>2. Len(p) \in Nat /\ Len(e) = 0 /\ 1 .. Len(e) = {}
  <2>1. Len(<<>>) = 0
    OBVIOUS
  <2> QED  BY <1>1, <2>1
<1>3. IsPrefix(e, p) <=> Len(e) <= Len(p) /\ \A i \in 1 .. Len(e) : e[i] = p[i]
  BY PrefixIs
<1>4. IsPrefix(e, p)
  BY <1>1, <1>2, <1>3
<1> QED  BY <1>1, <1>4

LEMMA HasMaximum ==
    ASSUME NEW n \in Nat, NEW S \in SUBSET (0 .. n), S # {}
    PROVE  \E m \in S : \A i \in S : i <= m
<1> DEFINE T == {n - i : i \in S}
<1>1. T \in SUBSET Nat /\ T # {}
  OBVIOUS
<1>2. PICK m \in T : \A i \in T : m <= i
  <2> HIDE DEF T
  <2> QED  BY <1>1, HasMinimum
<1>3. PICK k \in S : m = n - k
  BY <1>2
<1>4. \A i \in S : i <= k
  BY <1>2, <1>3
<1> QED  BY <1>4

IsDeepest(S, p, d) ==
    /\ d \in S /\ IsPrefix(d, p)
    /\ \A q \in S : IsPrefix(q, p) => Len(q) <= Len(d)

LEMMA DeepestIs ==
    ASSUME NEW A, NEW S, \A q \in S : q \in Seq(A), NEW p \in Seq(A), NEW T, T # {},
           \A q : q \in T <=> q \in S /\ IsPrefix(q, p)
    PROVE  /\ IsDeepest(S, p, Deepest(T))
           /\ \A d : IsDeepest(S, p, d) => d = Deepest(T)
<1>1. Len(p) \in Nat /\ \A q \in T : Len(q) \in 0 .. Len(p)
  BY DEF IsPrefix
<1>2. PICK m \in {Len(q) : q \in T} : \A i \in {Len(q) : q \in T} : i <= m
  <2>1. {Len(q) : q \in T} \in SUBSET (0 .. Len(p)) /\ {Len(q) : q \in T} # {}
    BY <1>1
  <2> QED  BY <1>1, <2>1, HasMaximum
<1>3. PICK d \in T : Len(d) = m
  BY <1>2
<1>4. \A q \in T : Len(q) <= Len(d)
  BY <1>2, <1>3
<1>5. Deepest(T) \in T /\ \A q \in T : Len(q) <= Len(Deepest(T))
  BY <1>4 DEF Deepest
<1>6. IsDeepest(S, p, Deepest(T))
  BY <1>5 DEF IsDeepest
<1>7. ASSUME NEW e, IsDeepest(S, p, e) PROVE e = Deepest(T)
  <2>1. e \in T /\ e \in Seq(A) /\ Deepest(T) \in Seq(A) /\ IsPrefix(Deepest(T), p) /\ IsPrefix(e, p)
    BY <1>5, <1>7 DEF IsDeepest
  <2>2. Len(e) \in Nat /\ Len(Deepest(T)) \in Nat
    BY <2>1
  <2>3. Len(e) <= Len(Deepest(T)) /\ Len(Deepest(T)) <= Len(e)
    BY <1>5, <1>7, <2>1 DEF IsDeepest
  <2> QED  BY <2>1, <2>2, <2>3, PrefixOfPrefix
<1> QED  BY <1>6, <1>7

\* A file below the deepest one has the same one.
LEMMA DeepestOfBelow ==
    ASSUME NEW A, NEW S \in SUBSET Seq(A), NEW p \in Seq(A), NEW d, IsDeepest(S, p, d),
           NEW q \in Seq(A), IsPrefix(d, q), IsPrefix(q, p)
    PROVE  IsDeepest(S, q, d)
<1>1. \A r \in S : IsPrefix(r, q) => IsPrefix(r, p)
  BY PrefixOfPrefix
<1> QED  BY <1>1 DEF IsDeepest

-----------------------------------------------------------------------------
(* What there is in the container.                                         *)
OwnerIn(table, p) == Deepest({m \in DOMAIN table : IsPrefix(m, p)})
OnHost(table, p)  == table[OwnerIn(table, p)].type = "bind"

LEMMA SameOwner ==
    ASSUME NEW p
    PROVE  /\ B!Owner(p) = OwnerIn(mounts, p) /\ B!Owner(p)' = OwnerIn(mounts', p)
           /\ B!IsOnHost(p) = OnHost(mounts, p) /\ B!IsOnHost(p)' = OnHost(mounts', p)
<1>1. B!Owner(p) = OwnerIn(mounts, p)
  BY DEF B!Owner, OwnerIn, Deepest, B!IsPrefix, IsPrefix
<1>2. B!Owner(p)' = OwnerIn(mounts', p)
  BY DEF B!Owner, OwnerIn, Deepest, B!IsPrefix, IsPrefix
<1> QED  BY <1>1, <1>2 DEF B!IsOnHost, OnHost

LEMMA OwnerIs ==
    ASSUME NEW table, DOMAIN table \in SUBSET Seq(Names), <<>> \in DOMAIN table,
           NEW p \in Seq(Names)
    PROVE  /\ IsDeepest(DOMAIN table, p, OwnerIn(table, p))
           /\ \A d : IsDeepest(DOMAIN table, p, d) => d = OwnerIn(table, p)
<1>1. PICK S : S = DOMAIN table /\ S \in SUBSET Seq(Names)
  OBVIOUS
<1>2. PICK T : T = {m \in S : IsPrefix(m, p)}
  OBVIOUS
<1>3. OwnerIn(table, p) = Deepest(T)
  BY <1>1, <1>2 DEF OwnerIn
<1>4. IsPrefix(<<>>, p)
  BY RootIsPrefix
<1>5. T # {}
  BY <1>1, <1>2, <1>4
<1>6. IsDeepest(S, p, Deepest(T)) /\ \A d : IsDeepest(S, p, d) => d = Deepest(T)
  <2>1. (\A q \in S : q \in Seq(Names)) /\ \A q : q \in T <=> q \in S /\ IsPrefix(q, p)
    BY <1>1, <1>2
  <2> QED  BY <1>5, <2>1, DeepestIs
<1> QED  BY <1>1, <1>3, <1>6

\* What the table is like when it becomes arguments.
Listed(p) ==
    /\ p \in DOMAIN host
    /\ IF p \in LinkNames(host) THEN exports[p] = Symlink
       ELSE exports[p] \in ModeSet /\ ~IsReserved(p)

Settled == Plain /\ Sortable /\ \A p \in DOMAIN exports : Listed(p)

LEMMA FilesAreNamed ==
    ASSUME Plain, NEW p \in DOMAIN host
    PROVE  p \in Seq(Names) /\ p \in Seq(Components)
BY DEF Plain, FileSystem, Components

LEMMA DirsAreSeen ==
    ASSUME Plain, NEW p \in DOMAIN host
    PROVE  IsDir(p) <=> p \in Dirs(host)
<1>1. FileSystem(host) /\ SlashFree(host) /\ RealNames /\ MaxLinks \in Nat
  BY DEF Plain
<1>2. p \in Seq(Components)
  BY FilesAreNamed
<1>3. NoFollow(host, p) = At(host, MaxLinks, <<>>, p, FALSE, TRUE)
  BY <1>1, <1>2, IsAtRoot
<1>4. At(host, MaxLinks, <<>>, p, FALSE, TRUE) = Opened(p, MaxLinks)
  BY <1>1, Itself
<1>5. NoFollow(host, p).file = p /\ NoFollow(host, p).error = "opened"
  <2>1. Opened(p, MaxLinks).file = p /\ Opened(p, MaxLinks).error = "opened"
    BY DEF Opened
  <2> QED  BY <1>3, <1>4, <2>1
<1> QED  BY <1>5 DEF IsDir, IsA, Finds, Dirs

IsMentioned(p) ==
    /\ p \in DOMAIN exports /\ p \in Seq(Names) /\ p \in DOMAIN host
    /\ p \in LinkNames(host) => exports[p] = Symlink /\ ~ParentIsMapped(p)
    /\ p \notin LinkNames(host) => exports[p] \in ModeSet /\ ~IsReserved(p)
    /\ exports[p] \in {Tmpfs, Dir} => p \in Dirs(host)

LEMMA MentionedIs ==
    ASSUME Settled, NEW p \in Mentioned
    PROVE  IsMentioned(p)
<1>1. p \in DOMAIN exports /\ Listed(p) /\ HasArgument(p) /\ Plain
  BY DEF Mentioned, Settled
<1>2. p \in DOMAIN host /\ p \in Seq(Names)
  BY <1>1, FilesAreNamed DEF Listed
<1>3. IsDir(p) <=> p \in Dirs(host)
  BY <1>1, <1>2, DirsAreSeen
<1>4. p \in LinkNames(host) => exports[p] = Symlink /\ ~ParentIsMapped(p)
  <2> HAVE p \in LinkNames(host)
  <2>1. exports[p] = Symlink
    BY <1>1 DEF Listed
  <2> QED  BY <1>1, <2>1 DEF HasArgument, Tmpfs, Dir, Symlink
<1>5. p \notin LinkNames(host) => exports[p] \in ModeSet /\ ~IsReserved(p)
  BY <1>1 DEF Listed
<1>6. exports[p] \in {Tmpfs, Dir} => p \in Dirs(host)
  BY <1>1, <1>3 DEF HasArgument, Tmpfs, Dir, Symlink
<1> QED  BY <1>1, <1>2, <1>4, <1>5, <1>6 DEF IsMentioned

\* The other way round.
LEMMA MentionsAll ==
    ASSUME Settled, NEW p \in DOMAIN exports, p \in Dirs(host) \/ exports[p] \in {ReadOnly, ReadWrite}
    PROVE  p \in Mentioned
<1>1. Listed(p) /\ Plain
  BY DEF Settled
<1>2. p \in DOMAIN host
  BY <1>1 DEF Listed
<1>3. IsDir(p) <=> p \in Dirs(host)
  BY <1>1, <1>2, DirsAreSeen
<1>4. p \notin LinkNames(host)
  BY <1>1 DEF Listed, Dirs, LinkNames, ReadOnly, ReadWrite, Symlink
<1>5. exports[p] \in ModeSet
  BY <1>1, <1>4 DEF Listed
<1>6. HasArgument(p)
  BY <1>3, <1>5 DEF HasArgument, ModeSet, Tmpfs, Dir, Symlink, ReadOnly, ReadWrite
<1> QED  BY <1>6 DEF Mentioned

-----------------------------------------------------------------------------
(* Mounts.  done: the paths for which there is no argument any more.       *)
Binds(p)  == exports[p] \in {ReadOnly, ReadWrite}
BindOf(p) == B!NewBind(p, exports[p] = ReadOnly)

IsMount(table, done, m) ==
    \/ m = <<>> /\ table[m] = B!NewTmpfs
    \/ m \in done /\ exports[m] = Tmpfs /\ table[m] = B!NewTmpfs
    \/ m \in done /\ Binds(m) /\ table[m] = BindOf(m)

MountsAre(table, done) ==
    /\ <<>> \in DOMAIN table
    /\ \A m \in DOMAIN table : IsMount(table, done, m)
    /\ \A q \in done : /\ Binds(q) => q \in DOMAIN table /\ table[q] = BindOf(q)
                       /\ exports[q] = Tmpfs => ~OnHost(table, q)

LEMMA MountsAreNamed ==
    ASSUME Settled, NEW done \in SUBSET Mentioned, NEW table, MountsAre(table, done)
    PROVE  DOMAIN table \in SUBSET Seq(Names) /\ <<>> \in DOMAIN table
<1>1. \A m \in DOMAIN table : m \in Seq(Names)
  <2> TAKE m \in DOMAIN table
  <2>1. m = <<>> \/ m \in Mentioned
    BY DEF MountsAre, IsMount
  <2>2. <<>> \in Seq(Names)
    OBVIOUS
  <2> QED  BY <2>1, <2>2, MentionedIs DEF IsMentioned
<1> QED  BY <1>1 DEF MountsAre

\* The last request that has something to say about a path decides.
LEMMA OnHostIs ==
    ASSUME Settled, NEW done \in SUBSET Mentioned, NEW table, MountsAre(table, done),
           NEW p \in Seq(Names), NEW C,
           C = {q \in done : IsPrefix(q, p) /\ exports[q] \in {Tmpfs, ReadOnly, ReadWrite}}
    PROVE  /\ OnHost(table, p) <=> C # {} /\ Binds(Deepest(C))
           /\ OnHost(table, p) => OwnerIn(table, p) = Deepest(C)
<1>1. DOMAIN table \in SUBSET Seq(Names) /\ <<>> \in DOMAIN table
  BY MountsAreNamed
<1>2. PICK d : d = OwnerIn(table, p)
  OBVIOUS
<1>3. IsDeepest(DOMAIN table, p, d)
  BY <1>1, <1>2, OwnerIs
<1>4. d \in Seq(Names) /\ IsPrefix(d, p) /\ d \in DOMAIN table /\ Len(d) \in Nat
  BY <1>1, <1>3 DEF IsDeepest
<1>5. IsMount(table, done, d)
  BY <1>4 DEF MountsAre
<1>6. OnHost(table, p) <=> table[d].type = "bind"
  BY <1>2 DEF OnHost
<1>7. OnHost(table, p) => d \in done /\ Binds(d) /\ d \in C
  BY <1>4, <1>5, <1>6 DEF IsMount, B!NewTmpfs, Binds
<1>8. C \in SUBSET Seq(Names) /\ \A q \in C : IsPrefix(q, p)
  BY MentionedIs DEF IsMentioned
<1>9. C # {} => IsDeepest(C, p, Deepest(C))
  <2> HAVE C # {}
  <2>1. (\A q \in C : q \in Seq(Names)) /\ \A q : q \in C <=> q \in C /\ IsPrefix(q, p)
    BY <1>8
  <2> QED  BY <2>1, DeepestIs
<1> DEFINE c == Deepest(C)
<1>10. C # {} => c \in C /\ c \in Seq(Names) /\ c \in done /\ IsPrefix(c, p) /\ Len(c) \in Nat
                 /\ exports[c] \in {Tmpfs, ReadOnly, ReadWrite}
  BY <1>8, <1>9 DEF IsDeepest
<1>11. C # {} /\ Binds(c) => c \in DOMAIN table /\ table[c] = BindOf(c) /\ Len(c) <= Len(d)
  BY <1>3, <1>10 DEF MountsAre, IsDeepest
<1> HIDE DEF c
<1>12. ASSUME OnHost(table, p) PROVE d = c
  <2>1. d \in C /\ C # {}
    BY <1>7, <1>12
  <2>2. Len(d) <= Len(c)
    <3>1. IsPrefix(d, p)
      BY <1>4
    <3> QED  BY <1>9, <2>1, <3>1 DEF IsDeepest, c
  <2>3. CASE Binds(c)
    <3>1. Len(c) = Len(d)
      BY <1>4, <1>10, <1>11, <2>1, <2>2, <2>3
    <3> QED  BY <1>4, <1>10, <2>1, <3>1, PrefixOfPrefix
  <2>4. CASE ~Binds(c)
    <3>1. exports[c] = Tmpfs /\ c \in done
      BY <1>10, <2>1, <2>4 DEF Binds
    <3>2. ~OnHost(table, c)
      BY <3>1 DEF MountsAre
    <3>3. IsPrefix(d, c)
      BY <1>4, <1>10, <2>1, <2>2, PrefixOfPrefix
    <3>4. IsDeepest(DOMAIN table, c, d)
      BY <1>1, <1>3, <1>4, <1>10, <2>1, <3>3, DeepestOfBelow
    <3>5. d = OwnerIn(table, c)
      BY <1>1, <1>10, <2>1, <3>4, OwnerIs
    <3>6. OnHost(table, c)
      BY <1>6, <1>12, <3>5 DEF OnHost
    <3> QED  BY <3>2, <3>6
  <2> QED  BY <2>3, <2>4
<1>13. ASSUME C # {}, Binds(c) PROVE OnHost(table, p)
  <2>1. CASE d = <<>>
    <3>1. Len(c) = 0 /\ Len(d) = 0
      BY <1>4, <1>10, <1>11, <1>13, <2>1
    <3>2. c = d
      BY <1>4, <1>10, <1>13, <3>1, PrefixOfPrefix
    <3> QED  BY <1>6, <1>11, <1>13, <3>2 DEF BindOf, B!NewBind
  <2>2. CASE d # <<>>
    <3>1. d \in C
      BY <1>4, <1>5, <2>2 DEF IsMount, Binds
    <3>2. Len(d) <= Len(c)
      BY <1>4, <1>9, <3>1 DEF IsDeepest, c
    <3>3. Len(c) = Len(d)
      BY <1>4, <1>10, <1>11, <1>13, <3>2
    <3>4. c = d
      BY <1>4, <1>10, <1>13, <3>3, PrefixOfPrefix
    <3> QED  BY <1>6, <1>11, <1>13, <3>4 DEF BindOf, B!NewBind
  <2> QED  BY <2>1, <2>2
<1> QED  BY <1>2, <1>7, <1>12, <1>13 DEF c

LEMMA StrictlyAbove ==
    ASSUME NEW t, FileSystem(t), NEW q \in Seq(Names), NEW p \in DOMAIN t, IsPrefix(q, p), q # p
    PROVE  q \in Dirs(t) /\ Len(q) < Len(p)
<1>1. p \in Seq(Names) /\ Len(p) \in Nat /\ Len(q) \in Nat
  BY DEF FileSystem
<1>2. Len(q) <= Len(p) /\ \A i \in 1 .. Len(q) : q[i] = p[i]
  BY <1>1, PrefixIs
<1>3. Len(q) < Len(p)
  <2>1. Len(q) # Len(p)
    BY <1>1, PrefixIs
  <2> QED  BY <1>1, <1>2, <2>1
<1>4. PICK d : d = Front(p)
  OBVIOUS
<1>5. d \in Seq(Names) /\ Len(d) = Len(p) - 1 /\ \A i \in 1 .. Len(p) - 1 : d[i] = p[i]
  BY <1>1, <1>3, <1>4, FrontIs
<1>6. d \in Dirs(t)
  <2>1. p # <<>>
    BY <1>1, <1>3
  <2> QED  BY <1>4, <2>1 DEF FileSystem, Dirs
<1>7. Upto(d, Len(q)) = q
  <2>1. Len(q) \in 0 .. Len(d)
    BY <1>1, <1>3, <1>5
  <2>2. Upto(d, Len(q)) \in Seq(Names) /\ Len(Upto(d, Len(q))) = Len(q)
        /\ \A i \in 1 .. Len(q) : Upto(d, Len(q))[i] = d[i]
    BY <1>5, <2>1, SubSeqProperties DEF Upto
  <2>3. \A i \in 1 .. Len(q) : Upto(d, Len(q))[i] = q[i]
    BY <1>1, <1>2, <1>3, <1>5, <2>2
  <2> QED  BY <2>2, <2>3, SeqEqual
<1>8. Len(q) \in 0 .. Len(d)
  BY <1>1, <1>3, <1>5
<1> QED  BY <1>3, <1>5, <1>6, <1>7, <1>8, DirsAbove

\* flatpak-exports.c goes by the table, bubblewrap by what is mounted.
LEMMA ParentIsOnHost ==
    ASSUME Settled, NEW done \in SUBSET Mentioned, NEW table, MountsAre(table, done),
           NEW p \in DOMAIN exports, p \notin done,
           \A q \in Mentioned : IsPrefix(q, p) /\ q # p => q \in done
    PROVE  ParentIsMapped(p) <=> OnHost(table, p)
<1> DEFINE C == {q \in done : IsPrefix(q, p) /\ exports[q] \in {Tmpfs, ReadOnly, ReadWrite}}
           K == Covering(p) \ {p}
<1>1. Plain /\ FileSystem(host) /\ p \in DOMAIN host /\ p \in Seq(Names)
  BY FilesAreNamed DEF Settled, Listed, Plain
<1>2. C \subseteq K
  BY MentionedIs DEF IsMentioned, Covering, Tmpfs, ReadOnly, ReadWrite, Dir
<1>3. K \subseteq C
  <2> SUFFICES ASSUME NEW q \in K PROVE q \in C
    OBVIOUS
  <2>1. q \in DOMAIN exports /\ IsPrefix(q, p) /\ exports[q] # Dir /\ q # p
    BY DEF Covering
  <2>2. Listed(q)
    BY <2>1 DEF Settled
  <2>3. q \in Seq(Names)
    BY <1>1, <2>2, FilesAreNamed DEF Listed
  <2>4. q \in Dirs(host)
    BY <1>1, <2>1, <2>3, StrictlyAbove
  <2>5. q \in done
    BY <2>1, <2>4, MentionsAll
  <2>6. q \notin LinkNames(host)
    BY <2>4 DEF Dirs, LinkNames
  <2>7. exports[q] \in {Tmpfs, ReadOnly, ReadWrite}
    BY <2>1, <2>2, <2>6 DEF Listed, ModeSet
  <2> QED  BY <2>1, <2>5, <2>7
<1>4. OnHost(table, p) <=> C # {} /\ Binds(Deepest(C))
  BY <1>1, OnHostIs
<1>5. C # {} => Deepest(C) \in C
  <2> HAVE C # {}
  <2>1. (\A q \in C : q \in Seq(Names)) /\ \A q : q \in C <=> q \in C /\ IsPrefix(q, p)
    BY MentionedIs DEF IsMentioned
  <2> HIDE DEF C
  <2>2. IsDeepest(C, p, Deepest(C))
    BY <1>1, <2>1, DeepestIs
  <2> QED  BY <2>2 DEF IsDeepest
<1>6. C # {} => (Binds(Deepest(C)) <=> exports[Deepest(C)] # Tmpfs)
  BY <1>5 DEF Binds, Tmpfs, ReadOnly, ReadWrite
<1>7. K = C
  BY <1>2, <1>3
<1>8. ParentIsMapped(p) <=> K # {} /\ exports[Deepest(K)] # Tmpfs
  BY DEF ParentIsMapped
<1> HIDE DEF C, K
<1> QED  BY <1>4, <1>6, <1>7, <1>8

-----------------------------------------------------------------------------
(* Files.                                                                  *)
Made(done, p) == p = <<>> \/ \E q \in done : IsPrefix(p, q)

Rewritten(p) == B!Link(MakeRelative(Front(p), ResolveLink(p)))

Looks(root, table, p) ==
    IF OnHost(table, p) THEN root[p] = host[p]
    ELSE /\ root[p].kind = host[p].kind
         /\ p \in LinkNames(host) => root[p] = Rewritten(p)

RootIs(root, table, done) ==
    /\ DOMAIN root = {p \in DOMAIN host : Made(done, p) \/ OnHost(table, p)}
    /\ \A p \in DOMAIN root : Looks(root, table, p)

Resembles(t) ==
    /\ FileSystem(t) /\ SlashFree(t)
    /\ \A p \in DOMAIN t : p \in DOMAIN host /\ t[p].kind = host[p].kind

LEMMA RewrittenIs ==
    ASSUME Plain, NEW p \in LinkNames(host)
    PROVE  /\ ResolveLink(p) \in Seq(Components) /\ Front(p) \in Seq(Names)
           /\ Rewritten(p).kind = "link" /\ Rewritten(p).target.absolute = FALSE
           /\ Rewritten(p).target.parts = [i \in 1 .. Len(Front(p)) |-> ".."] \o ResolveLink(p)
           /\ Rewritten(p).target.parts \in Seq(Components)
           /\ Rewritten(p).target.slash = FALSE
<1>1. p \in DOMAIN host /\ host[p].kind = "link" /\ p \in Seq(Names) /\ FileSystem(host)
  BY FilesAreNamed DEF LinkNames, Plain
<1>2. Len(p) > 0 /\ Front(p) \in Seq(Names) /\ Len(Front(p)) \in Nat
  <2>1. p # <<>>
    BY <1>1 DEF FileSystem
  <2>2. Len(p) > 0
    BY <1>1, <2>1, EmptySeq
  <2>3. Front(p) \in Seq(Names)
    BY <1>1, <2>2, FrontIs
  <2> QED  BY <2>2, <2>3
<1>3. NoFollow(host, p).file = p
  BY LinksAreSeen
<1>4. host[p].target.parts \in Seq(Components)
  BY <1>1 DEF FileSystem
<1>5. Front(p) \in Seq(Components)
  BY <1>2 DEF Components
<1>6. PICK g : g = host[p].target /\ g.parts \in Seq(Components)
  BY <1>4
<1>7. ResolveLink(p) = IF g.absolute THEN g.parts ELSE Front(p) \o g.parts
  BY <1>3, <1>6 DEF ResolveLink
<1>8. ResolveLink(p) \in Seq(Components)
  BY <1>5, <1>6, <1>7
<1>9. PICK up : up = [i \in 1 .. Len(Front(p)) |-> ".."]
  OBVIOUS
<1>10. up \in Seq(Components)
  BY <1>2, <1>9 DEF Components
<1>11. up \o ResolveLink(p) \in Seq(Components)
  BY <1>8, <1>10
<1>12. MakeRelative(Front(p), ResolveLink(p)) = up \o ResolveLink(p)
  BY <1>9 DEF MakeRelative
<1>13. PICK z : z = up \o ResolveLink(p)
  OBVIOUS
<1>14. Rewritten(p) = B!Link(z)
  BY <1>12, <1>13 DEF Rewritten
<1>15. /\ Rewritten(p).kind = "link" /\ Rewritten(p).target.absolute = FALSE
       /\ Rewritten(p).target.parts = z /\ Rewritten(p).target.slash = FALSE
  BY <1>14 DEF B!Link
<1> QED  BY <1>2, <1>8, <1>9, <1>11, <1>13, <1>15

LEMMA RootResembles ==
    ASSUME Settled, NEW done \in SUBSET Mentioned, NEW table, MountsAre(table, done),
           NEW root, RootIs(root, table, done)
    PROVE  Resembles(root)
<1>1. Plain /\ FileSystem(host) /\ SlashFree(host)
  BY DEF Settled, Plain
<1>2. \A p \in DOMAIN root : /\ p \in DOMAIN host /\ root[p].kind = host[p].kind
                             /\ p \in Seq(Names) /\ Looks(root, table, p)
  BY <1>1, FilesAreNamed DEF RootIs, Looks
<1>3. <<>> \in DOMAIN root /\ root[<<>>].kind = "dir"
  BY <1>1, <1>2 DEF RootIs, Made, FileSystem
<1>4. ASSUME NEW p \in DOMAIN root, p # <<>>
      PROVE  Front(p) \in DOMAIN root /\ root[Front(p)].kind = "dir"
  <2>1. p \in DOMAIN host /\ p \in Seq(Names)
    BY <1>2
  <2>2. PICK d : d = Front(p)
    OBVIOUS
  <2>3. d \in Dirs(host) /\ d \in DOMAIN host
    BY <1>1, <1>4, <2>1, <2>2 DEF FileSystem, Dirs
  <2>4. Len(p) > 0 /\ Len(p) \in Nat
    BY <1>4, <2>1, EmptySeq
  <2>5. d \in Seq(Names) /\ Len(d) = Len(p) - 1 /\ \A i \in 1 .. Len(p) - 1 : d[i] = p[i]
    BY <2>1, <2>2, <2>4, FrontIs
  <2>6. IsPrefix(d, p)
    BY <2>1, <2>4, <2>5, PrefixIs
  <2>7. Made(done, d) \/ OnHost(table, d)
    <3>1. CASE \E q \in done : IsPrefix(p, q)
      <4>1. PICK q \in done : IsPrefix(p, q)
        BY <3>1
      <4>2. q \in Seq(Names)
        BY MentionedIs DEF IsMentioned
      <4>3. IsPrefix(d, q)
        BY <2>1, <2>5, <2>6, <4>1, <4>2, PrefixOfPrefix
      <4> QED  BY <4>3 DEF Made
    <3>2. CASE OnHost(table, p) /\ ~\E q \in done : IsPrefix(p, q)
      <4>1. DOMAIN table \in SUBSET Seq(Names) /\ <<>> \in DOMAIN table
        BY MountsAreNamed
      <4>2. PICK m : m = OwnerIn(table, p)
        OBVIOUS
      <4>3. IsDeepest(DOMAIN table, p, m)
        BY <2>1, <4>1, <4>2, OwnerIs
      <4>4. m # p
        <5> SUFFICES ASSUME m = p PROVE FALSE
          OBVIOUS
        <5>1. m \in DOMAIN table /\ IsMount(table, done, m)
          BY <4>3 DEF IsDeepest, MountsAre
        <5>2. p \in done
          BY <1>4, <5>1 DEF IsMount
        <5> QED  BY <2>1, <3>2, <5>2, IsOwnPrefix
      <4>5. m \in Seq(Names) /\ IsPrefix(m, p) /\ Len(m) \in Nat
        BY <4>1, <4>3 DEF IsDeepest
      <4>6. Len(m) < Len(p)
        BY <1>1, <2>1, <4>4, <4>5, StrictlyAbove
      <4>7. IsPrefix(m, d)
        <5>1. Len(m) <= Len(d)
          BY <2>4, <2>5, <4>5, <4>6
        <5> QED  BY <2>1, <2>5, <2>6, <4>5, <5>1, PrefixOfPrefix
      <4>8. IsDeepest(DOMAIN table, d, m)
        BY <2>1, <2>5, <2>6, <4>1, <4>3, <4>7, DeepestOfBelow
      <4>9. m = OwnerIn(table, d)
        BY <2>5, <4>1, <4>8, OwnerIs
      <4> QED  BY <3>2, <4>2, <4>9 DEF OnHost
    <3>3. Made(done, p) \/ OnHost(table, p)
      BY DEF RootIs
    <3> QED  BY <1>4, <3>1, <3>2, <3>3 DEF Made
  <2>8. d \in DOMAIN root
    BY <2>3, <2>7 DEF RootIs
  <2> QED  BY <1>2, <2>2, <2>3, <2>8 DEF Dirs
<1>5. ASSUME NEW p \in DOMAIN root, root[p].kind = "link"
      PROVE  root[p].target.parts \in Seq(Components) /\ root[p].target.slash = FALSE
  <2>1. p \in LinkNames(host) /\ Looks(root, table, p)
    BY <1>2, <1>5 DEF LinkNames
  <2>2. CASE OnHost(table, p)
    BY <1>1, <2>1, <2>2 DEF Looks, FileSystem, SlashFree, LinkNames
  <2>3. CASE ~OnHost(table, p)
    <3>1. root[p] = Rewritten(p)
      BY <2>1, <2>3 DEF Looks
    <3> QED  BY <1>1, <2>1, <3>1, RewrittenIs
  <2> QED  BY <2>2, <2>3
<1>6. FileSystem(root)
  <2>1. \A p \in DOMAIN root : p \in Seq(Names)
    BY <1>2
  <2>2. \A p \in DOMAIN root : root[p].kind = "link" =>
          root[p].target.parts \in Seq(Components) /\ root[p].target.slash \in BOOLEAN
    BY <1>5
  <2> QED  BY <1>3, <1>4, <2>1, <2>2 DEF FileSystem
<1>7. SlashFree(root)
  BY <1>5 DEF SlashFree
<1> QED  BY <1>2, <1>6, <1>7 DEF Resembles

\* What the kernel finds where there are no links, as on the host.
Sees(t, u) ==
    /\ Finds(NoFollow(t, u)) <=> u \in DOMAIN t
    /\ u \in DOMAIN t => NoFollow(t, u).file = u
    /\ u \notin LinkNames(host) => /\ Finds(Follow(t, u)) <=> u \in DOMAIN t
                                   /\ u \in DOMAIN t => Follow(t, u).file = u

LEMMA Seen ==
    ASSUME Plain, NEW t, Resembles(t), NEW u \in DOMAIN host
    PROVE  Sees(t, u)
<1>1. FileSystem(t) /\ SlashFree(t) /\ RealNames /\ MaxLinks \in Nat /\ FileSystem(host)
  BY DEF Resembles, Plain
<1>2. u \in Seq(Names) /\ u \in Seq(Components) /\ Len(u) \in Nat
  BY FilesAreNamed
<1>3. \A i \in 0 .. Len(u) - 1 : Upto(u, i) \in DOMAIN t => t[Upto(u, i)].kind # "link"
  <2> TAKE i \in 0 .. Len(u) - 1
  <2> HAVE Upto(u, i) \in DOMAIN t
  <2>1. /\ Upto(u, i) \in Seq(Names) /\ Len(Upto(u, i)) = i
        /\ \A j \in 1 .. i : Upto(u, i)[j] = u[j]
    BY <1>2, SubSeqProperties DEF Upto
  <2>2. IsPrefix(Upto(u, i), u) /\ Upto(u, i) # u
    BY <1>2, <2>1, PrefixIs
  <2>3. Upto(u, i) \in Dirs(host)
    BY <1>1, <2>1, <2>2, StrictlyAbove
  <2> QED  BY <2>3 DEF Dirs, Resembles
<1>4. \A k \in BOOLEAN : Finds(At(t, MaxLinks, <<>>, u, FALSE, k)) => u \in DOMAIN t
  BY <1>1, <1>2, <1>3, Direct
<1>5. /\ NoFollow(t, u) = At(t, MaxLinks, <<>>, u, FALSE, TRUE)
      /\ Follow(t, u) = At(t, MaxLinks, <<>>, u, FALSE, FALSE)
  BY <1>1, <1>2, IsAtRoot
<1>6. Opened(u, MaxLinks).file = u /\ Finds(Opened(u, MaxLinks))
  BY DEF Opened, Finds
<1>7. u \in DOMAIN t => NoFollow(t, u) = Opened(u, MaxLinks)
  BY <1>1, <1>5, Itself
<1>8. u \in DOMAIN t /\ u \notin LinkNames(host) => Follow(t, u) = Opened(u, MaxLinks)
  <2> HAVE u \in DOMAIN t /\ u \notin LinkNames(host)
  <2>1. t[u].kind # "link"
    BY DEF Resembles, LinkNames
  <2> QED  BY <1>1, <1>5, <2>1, Itself
<1> QED  BY <1>4, <1>5, <1>6, <1>7, <1>8 DEF Sees

-----------------------------------------------------------------------------
(* The next argument.                                                      *)
LEMMA Uppers ==
    ASSUME NEW S, NEW p \in Seq(S), NEW i \in 0 .. Len(p)
    PROVE  /\ Upto(p, i) \in Seq(S) /\ Len(Upto(p, i)) = i /\ IsPrefix(Upto(p, i), p)
           /\ \A j \in 1 .. i : Upto(p, i)[j] = p[j]
           /\ i = Len(p) <=> Upto(p, i) = p
           /\ \A q \in Seq(S) : IsPrefix(q, p) /\ Len(q) = i => q = Upto(p, i)
<1>1. Len(p) \in Nat
  OBVIOUS
<1>2. PICK u : u = Upto(p, i)
  OBVIOUS
<1>3. u \in Seq(S) /\ Len(u) = i /\ \A j \in 1 .. i : u[j] = p[j]
  BY <1>1, <1>2, SubSeqProperties DEF Upto
<1>4. IsPrefix(u, p)
  BY <1>1, <1>3, PrefixIs
<1>5. i = Len(p) => u = p
  BY <1>3, <1>4, PrefixIs
<1>6. \A q \in Seq(S) : IsPrefix(q, p) /\ Len(q) = i => q = u
  BY <1>3, <1>4, PrefixOfPrefix
<1> QED  BY <1>2, <1>3, <1>4, <1>5, <1>6

\* The first b components are there, and no others.
Ends(t, p, N, b) ==
    /\ b \in 0 .. N
    /\ \A i \in 0 .. b : Upto(p, i) \in DOMAIN t
    /\ \A i \in b + 1 .. N : Upto(p, i) \notin DOMAIN t

LEMMA Bases ==
    ASSUME NEW t, FileSystem(t), NEW p \in Seq(Names), NEW N \in 0 .. Len(p),
           NEW b, b = Cardinality({i \in 1 .. N : Upto(p, i) \in DOMAIN t})
    PROVE  Ends(t, p, N, b)
<1>1. Len(p) \in Nat /\ N \in Nat
  OBVIOUS
<1> DEFINE S == {i \in 0 .. N : Upto(p, i) \in DOMAIN t}
<1>2. 0 \in S
  <2>1. Upto(p, 0) = <<>>
    <3>1. Upto(p, 0) \in Seq(Names) /\ Len(Upto(p, 0)) = 0
      BY <1>1, Uppers
    <3> QED  BY <3>1, EmptySeq
  <2> QED  BY <1>1, <2>1 DEF FileSystem
<1>3. PICK m \in S : \A i \in S : i <= m
  <2>1. S \in SUBSET (0 .. N) /\ S # {}
    BY <1>2
  <2> HIDE DEF S
  <2> QED  BY <1>1, <2>1, HasMaximum
<1>4. \A i \in 0 .. m : Upto(p, i) \in DOMAIN t
  <2> TAKE i \in 0 .. m
  <2>1. i \in 0 .. Len(p) /\ m \in 0 .. Len(p) /\ i <= m
    BY <1>1
  <2>2. /\ Upto(p, i) \in Seq(Names) /\ Len(Upto(p, i)) = i /\ IsPrefix(Upto(p, i), p)
        /\ Upto(p, m) \in Seq(Names) /\ Len(Upto(p, m)) = m /\ IsPrefix(Upto(p, m), p)
    BY <2>1, Uppers
  <2>3. IsPrefix(Upto(p, i), Upto(p, m))
    BY <2>1, <2>2, PrefixOfPrefix
  <2> QED  BY <2>2, <2>3, PrefixExists
<1>5. \A i \in m + 1 .. N : Upto(p, i) \notin DOMAIN t
  <2> TAKE i \in m + 1 .. N
  <2>1. i \in 0 .. N /\ ~(i <= m)
    BY <1>1
  <2> QED  BY <1>3, <2>1
<1>6. {i \in 1 .. N : Upto(p, i) \in DOMAIN t} = 1 .. m
  <2>1. m \in 0 .. N
    OBVIOUS
  <2>2. \A i \in 1 .. N : i \in 0 .. m \/ i \in m + 1 .. N
    BY <1>1, <2>1
  <2>3. \A i \in 1 .. m : i \in 1 .. N /\ i \in 0 .. m
    BY <1>1, <2>1
  <2>4. \A i \in 0 .. m : i >= 1 => i \in 1 .. m
    BY <1>1, <2>1
  <2> QED  BY <1>4, <1>5, <2>2, <2>3, <2>4
<1>7. m = b
  <2>1. m \in Nat /\ Cardinality(1 .. m) = m
    BY <1>1, FS_Interval
  <2> QED  BY <1>6, <2>1
<1> QED  BY <1>4, <1>5, <1>7 DEF Ends

LEMMA Rejoins ==
    ASSUME NEW S, NEW p \in Seq(S), NEW b \in 0 .. Len(p), NEW i \in b .. Len(p)
    PROVE  Upto(p, b) \o SubSeq(p, b + 1, i) = Upto(p, i)
<1>1. Len(p) \in Nat /\ b \in Nat /\ i \in Nat /\ i \in 0 .. Len(p)
  OBVIOUS
<1>2. PICK u, v, w : u = Upto(p, b) /\ v = SubSeq(p, b + 1, i) /\ w = Upto(p, i)
  OBVIOUS
<1>3. u \in Seq(S) /\ Len(u) = b /\ \A j \in 1 .. b : u[j] = p[j]
  BY <1>1, <1>2, Uppers
<1>4. w \in Seq(S) /\ Len(w) = i /\ \A j \in 1 .. i : w[j] = p[j]
  BY <1>1, <1>2, Uppers
<1>5. v \in Seq(S) /\ Len(v) = i - b /\ \A j \in 1 .. i - b : v[j] = p[b + j]
  <2>1. b + 1 \in 1 .. Len(p) + 1 /\ i \in b .. Len(p)
    BY <1>1
  <2>2. v \in Seq(S) /\ Len(v) = (IF b + 1 <= i THEN i - (b + 1) + 1 ELSE 0)
        /\ \A j \in 1 .. i - (b + 1) + 1 : v[j] = p[(b + 1) + j - 1]
    BY <1>1, <1>2, <2>1, SubSeqProperties
  <2>3. \A j \in 1 .. i - b : (b + 1) + j - 1 = b + j
    BY <1>1
  <2> QED  BY <1>1, <2>2, <2>3
<1>6. PICK z : z = u \o v
  OBVIOUS
<1>7. z \in Seq(S) /\ Len(z) = i
  BY <1>1, <1>3, <1>5, <1>6
<1>8. \A j \in 1 .. i : z[j] = w[j]
  <2> TAKE j \in 1 .. i
  <2>1. CASE j <= b
    <3>1. j \in 1 .. b
      BY <1>1, <2>1
    <3>2. z[j] = u[j]
      BY <1>1, <1>3, <1>5, <1>6, <3>1
    <3> QED  BY <1>3, <1>4, <3>1, <3>2
  <2>2. CASE j > b
    <3>1. j - b \in 1 .. i - b /\ b + (j - b) = j
      BY <1>1, <2>2
    <3>2. z[j] = v[j - b]
      BY <1>1, <1>3, <1>5, <1>6, <2>2
    <3> QED  BY <1>4, <1>5, <3>1, <3>2
  <2> QED  BY <1>1, <2>1, <2>2
<1>9. z = w
  BY <1>4, <1>7, <1>8, SeqEqual
<1> QED  BY <1>2, <1>6, <1>9

\* What comes next has not been there, what is above it has, and nothing below it.
IsNext(p, done, args) ==
    /\ p \in Mentioned /\ Head(args) = ArgumentFor(p) /\ p \notin done
    /\ \A q \in Mentioned : IsPrefix(q, p) /\ q # p => q \in done
    /\ \A q \in done : ~IsPrefix(p, q)
    /\ InOrder(Tail(args)) /\ Mentioned \ Left(Tail(args)) = done \cup {p}

LEMMA NextIs ==
    ASSUME Settled, NEW args, InOrder(args), args # <<>>, NEW done, done = Mentioned \ Left(args),
           NEW p, p = Head(args).dest
    PROVE  IsNext(p, done, args)
<1>1. PICK A : args \in Seq(A)
  BY DEF InOrder
<1>2. PICK n : n = Len(args) /\ n \in Nat
  BY <1>1
<1>3. n > 0 /\ DOMAIN args = 1 .. n /\ Head(args) = args[1]
  BY <1>1, <1>2, EmptySeq
<1>4. Ordered /\ Mentioned \subseteq Seq(DOMAIN Order)
  BY DEF Settled, Sortable
<1>5. /\ \A i \in 1 .. n : args[i].dest \in Mentioned /\ args[i] = ArgumentFor(args[i].dest)
      /\ \A i, j \in 1 .. n : i < j => SortsBefore(args[i].dest, args[j].dest)
      /\ \A q \in done : \A i \in 1 .. n : SortsBefore(q, args[i].dest)
  BY <1>2 DEF InOrder
<1>6. 1 \in 1 .. n /\ p = args[1].dest
  BY <1>2, <1>3
<1>7. p \in Mentioned /\ Head(args) = ArgumentFor(p)
  BY <1>3, <1>5, <1>6
<1>8. p \in Left(args) /\ p \notin done
  BY <1>3, <1>6 DEF Left
<1>9. \A q \in Left(args) : q # p => SortsBefore(p, q)
  <2> TAKE q \in Left(args)
  <2> HAVE q # p
  <2>1. PICK i \in 1 .. n : q = args[i].dest
    BY <1>3 DEF Left
  <2>2. 1 < i
    BY <1>2, <1>6, <2>1
  <2> QED  BY <1>5, <1>6, <2>1, <2>2
<1>10. \A q \in Mentioned : IsPrefix(q, p) /\ q # p => q \in done
  <2> TAKE q \in Mentioned
  <2> HAVE IsPrefix(q, p) /\ q # p
  <2>1. ~SortsBefore(p, q)
    BY <1>4, <1>7, NotBelow
  <2> QED  BY <1>9, <2>1
<1>11. \A q \in done : ~IsPrefix(p, q)
  <2> TAKE q \in done
  <2>1. SortsBefore(q, p)
    BY <1>5, <1>6
  <2> QED  BY <1>4, <1>7, <2>1, NotBelow
<1>12. PICK rest : rest = Tail(args)
  OBVIOUS
<1>13. rest \in Seq(A) /\ Len(rest) = n - 1 /\ \A i \in 1 .. n - 1 : rest[i] = args[i + 1]
  BY <1>1, <1>2, <1>3, <1>12, HeadTailProperties
<1>14. DOMAIN rest = 1 .. n - 1 /\ \A i \in 1 .. n - 1 : i + 1 \in 1 .. n
  BY <1>2, <1>3, <1>13
<1>15. Left(args) = Left(rest) \cup {p}
  <2>1. \A i \in 1 .. n : i = 1 \/ (i - 1 \in 1 .. n - 1 /\ args[i] = rest[i - 1])
    <3> TAKE i \in 1 .. n
    <3> SUFFICES ASSUME i # 1 PROVE i - 1 \in 1 .. n - 1 /\ args[i] = rest[i - 1]
      OBVIOUS
    <3>1. i - 1 \in 1 .. n - 1 /\ (i - 1) + 1 = i
      BY <1>2
    <3> QED  BY <1>13, <3>1
  <2>2. \A q : q \in Left(args) <=> \E i \in 1 .. n : q = args[i].dest
    BY <1>3 DEF Left
  <2>3. \A q : q \in Left(rest) <=> \E i \in 1 .. n - 1 : q = rest[i].dest
    BY <1>14 DEF Left
  <2>4. \A q \in Left(rest) : q \in Left(args)
    BY <1>13, <1>14, <2>2, <2>3
  <2>5. \A q \in Left(args) : q = p \/ q \in Left(rest)
    BY <1>6, <2>1, <2>2, <2>3
  <2> QED  BY <1>8, <2>4, <2>5
<1>16. p \notin Left(rest)
  <2> SUFFICES ASSUME NEW i \in 1 .. n - 1, p = rest[i].dest PROVE FALSE
    BY <1>14 DEF Left
  <2>1. i + 1 \in 1 .. n /\ 1 < i + 1 /\ p = args[i + 1].dest
    BY <1>2, <1>13, <1>14
  <2>2. SortsBefore(p, p)
    BY <1>5, <1>6, <2>1
  <2> QED  BY <1>4, <1>7, <2>2, SortsOnlyOneWay
<1>17. Mentioned \ Left(rest) = done \cup {p}
  BY <1>7, <1>15, <1>16
<1>18. InOrder(rest)
  <2>1. rest \in Seq(Range(rest))
    <3>1. \A i \in 1 .. Len(rest) : rest[i] \in Range(rest)
      BY <1>13, <1>14 DEF Range
    <3> QED  BY <1>13, <3>1, SeqDef
  <2>2. \A i \in 1 .. Len(rest) : rest[i].dest \in Mentioned /\ rest[i] = ArgumentFor(rest[i].dest)
    BY <1>5, <1>13, <1>14
  <2>3. \A i, j \in 1 .. Len(rest) : i < j => SortsBefore(rest[i].dest, rest[j].dest)
    <3> TAKE i, j \in 1 .. Len(rest)
    <3> HAVE i < j
    <3>1. i + 1 \in 1 .. n /\ j + 1 \in 1 .. n /\ i + 1 < j + 1
      BY <1>2, <1>13, <1>14
    <3> QED  BY <1>5, <1>13, <3>1
  <2>4. \A q \in Mentioned \ Left(rest) : \A i \in 1 .. Len(rest) : SortsBefore(q, rest[i].dest)
    <3> TAKE q \in Mentioned \ Left(rest)
    <3> TAKE i \in 1 .. Len(rest)
    <3>1. i + 1 \in 1 .. n /\ 1 < i + 1 /\ rest[i] = args[i + 1]
      BY <1>2, <1>13, <1>14
    <3>2. q \in done \/ q = p
      BY <1>17
    <3> QED  BY <1>5, <1>6, <3>1, <3>2
  <2> QED  BY <2>1, <2>2, <2>3, <2>4 DEF InOrder
<1> QED  BY <1>7, <1>8, <1>10, <1>11, <1>12, <1>17, <1>18 DEF IsNext

Kinds(p, op) ==
    /\ op.dest = p
    /\ op.type = "symlink" <=> p \in LinkNames(host)
    /\ op.type = "symlink" => op.source = MakeRelative(Front(p), ResolveLink(p))
    /\ op.type = "dir" => exports[p] \in {Dir, Tmpfs} /\ (exports[p] = Tmpfs => ~ParentIsMapped(p))
    /\ op.type = "tmpfs" => exports[p] = Tmpfs
    /\ op.type = "bind" => exports[p] = ReadWrite /\ op.source = p
    /\ op.type = "ro-bind" => exports[p] = ReadOnly /\ op.source = p
    /\ op.type \in {"dir", "tmpfs"} => p \in Dirs(host)
    /\ op.type \in {"symlink", "dir", "tmpfs", "bind", "ro-bind"}

LEMMA ArgumentKinds ==
    ASSUME Settled, NEW p \in Mentioned
    PROVE  Kinds(p, ArgumentFor(p))
<1>1. IsMentioned(p)
  BY MentionedIs
<1>2. CASE p \in LinkNames(host)
  <2>1. exports[p] = Symlink
    BY <1>1, <1>2 DEF IsMentioned
  <2>2. ArgumentFor(p) = Argument("symlink", MakeRelative(Front(p), ResolveLink(p)), p)
    BY <2>1 DEF ArgumentFor, Tmpfs, Dir, Symlink
  <2> QED  BY <1>2, <2>2 DEF Kinds, Argument
<1>3. CASE p \notin LinkNames(host)
  <2>1. exports[p] \in ModeSet /\ (exports[p] \in {Tmpfs, Dir} => p \in Dirs(host))
    BY <1>1, <1>3 DEF IsMentioned
  <2>2. CASE exports[p] \in {Tmpfs, Dir}
    <3>1. ArgumentFor(p) = Argument(IF exports[p] = Tmpfs /\ ParentIsMapped(p) THEN "tmpfs" ELSE "dir",
                                    <<>>, p)
      BY <2>2 DEF ArgumentFor, Tmpfs, Dir, Symlink
    <3> QED  BY <1>3, <2>1, <2>2, <3>1 DEF Kinds, Argument
  <2>3. CASE exports[p] \in {ReadOnly, ReadWrite}
    <3>1. ArgumentFor(p) = Argument(IF exports[p] = ReadOnly THEN "ro-bind" ELSE "bind", p, p)
      BY <2>3 DEF ArgumentFor, Tmpfs, Dir, Symlink, ReadOnly, ReadWrite
    <3> QED  BY <1>3, <2>1, <2>3, <3>1 DEF Kinds, Argument
  <2> QED  BY <2>1, <2>2, <2>3 DEF ModeSet
<1> QED  BY <1>2, <1>3

Building(done) ==
    /\ Settled /\ done = Mentioned \ Left(ops) /\ InOrder(ops)
    /\ MountsAre(mounts, done) /\ RootIs(newroot, mounts, done)

\* How much of a path has to be there before the operation is done.
Reach(p) == IF p \in LinkNames(host) THEN Len(p) - 1 ELSE Len(p)

IsWay(p, N, b) ==
    /\ N \in 0 .. Len(p) /\ Ends(newroot, p, N, b)
    /\ B!Needed = 1 .. N /\ B!Lacking = b + 1 .. N
    /\ B!There(b).file = Upto(p, b) /\ B!Dest = p
    /\ \A i \in b .. Len(p) : B!Real(i) = Upto(p, i)
    /\ \A i \in 0 .. N : /\ B!Finds(B!There(i)) <=> Upto(p, i) \in DOMAIN newroot
                         /\ Upto(p, i) \in DOMAIN newroot => B!There(i).file = Upto(p, i)
    /\ \A i \in 0 .. N : /\ Upto(p, i) \in DOMAIN host /\ Upto(p, i) \notin LinkNames(host)
                         /\ i < Len(p) => Upto(p, i) \in Dirs(host)

LEMMA WayIs ==
    ASSUME NEW done, Building(done), ops # <<>>, NEW p, p = B!Op.dest, NEW N, N = Reach(p),
           NEW b, b = B!Base
    PROVE  IsWay(p, N, b) /\ B!Base = b
<1>1. Settled /\ Plain /\ FileSystem(host) /\ done \in SUBSET Mentioned
  BY DEF Building, Settled, Plain
<1>2. IsNext(p, done, ops)
  BY NextIs DEF Building, B!Op
<1>3. p \in Mentioned /\ IsMentioned(p) /\ Kinds(p, ArgumentFor(p)) /\ B!Op = ArgumentFor(p)
  BY <1>1, <1>2, MentionedIs, ArgumentKinds DEF IsNext, B!Op
<1>4. p \in Seq(Names) /\ p \in DOMAIN host /\ Len(p) \in Nat
  BY <1>3 DEF IsMentioned
<1>5. B!Op.type = "symlink" <=> p \in LinkNames(host)
  BY <1>3 DEF Kinds
<1>6. N \in 0 .. Len(p)
  <2>1. p \in LinkNames(host) => Len(p) > 0
    <3>1. p \in LinkNames(host) => p # <<>>
      BY <1>1 DEF FileSystem, LinkNames
    <3> QED  BY <1>4, <3>1, EmptySeq
  <2> QED  BY <1>4, <2>1 DEF Reach
<1>7. B!Needed = 1 .. N
  BY <1>5 DEF B!Needed, Reach
<1>8. Resembles(newroot) /\ FileSystem(newroot)
  BY <1>1, RootResembles DEF Building, Resembles
<1>9. \A i \in 0 .. N : /\ Upto(p, i) \in DOMAIN host /\ Upto(p, i) \notin LinkNames(host)
                        /\ i < Len(p) => Upto(p, i) \in Dirs(host)
  <2> TAKE i \in 0 .. N
  <2>1. PICK u : u = Upto(p, i)
    OBVIOUS
  <2>2. u \in Seq(Names) /\ Len(u) = i /\ IsPrefix(u, p) /\ (i = Len(p) <=> u = p)
    BY <1>4, <1>6, <2>1, Uppers
  <2>3. i < Len(p) => u \in Dirs(host)
    BY <1>1, <1>4, <2>2, StrictlyAbove
  <2>4. CASE i < Len(p)
    BY <2>1, <2>3, <2>4 DEF Dirs, LinkNames
  <2>5. CASE ~(i < Len(p))
    <3>1. i = Len(p) /\ u = p
      BY <1>4, <1>6, <2>2, <2>5
    <3>2. p \notin LinkNames(host)
      BY <1>4, <1>6, <3>1 DEF Reach
    <3> QED  BY <1>4, <2>1, <2>5, <3>1, <3>2
  <2> QED  BY <2>4, <2>5
<1>10. \A i \in 0 .. N : /\ B!Finds(B!There(i)) <=> Upto(p, i) \in DOMAIN newroot
                         /\ Upto(p, i) \in DOMAIN newroot => B!There(i).file = Upto(p, i)
  <2> TAKE i \in 0 .. N
  <2>1. PICK u : u = Upto(p, i) /\ u \in DOMAIN host /\ u \notin LinkNames(host)
    BY <1>9
  <2>2. Sees(newroot, u)
    BY <1>1, <1>8, <2>1, Seen
  <2>3. B!There(i) = Follow(newroot, u)
    BY <2>1, SameLookup DEF B!There, B!At, Upto
  <2> QED  BY <2>1, <2>2, <2>3 DEF Sees, B!Finds, Finds
<1>11. B!Needed \ B!Lacking = {i \in 1 .. N : Upto(p, i) \in DOMAIN newroot}
  <2>1. \A i \in 1 .. N : i \in 0 .. N
    BY <1>6
  <2> QED  BY <1>7, <1>10, <2>1 DEF B!Lacking
<1>12. Ends(newroot, p, N, b)
  <2>1. b = Cardinality({i \in 1 .. N : Upto(p, i) \in DOMAIN newroot})
    <3>1. b = Cardinality(B!Needed \ B!Lacking)
      BY DEF B!Base, B!Cardinality, Cardinality
    <3>2. PICK S : S = {i \in 1 .. N : Upto(p, i) \in DOMAIN newroot}
      OBVIOUS
    <3>3. B!Needed \ B!Lacking = S
      BY <1>11, <3>2
    <3> QED  BY <3>1, <3>2, <3>3
  <2> QED  BY <1>4, <1>6, <1>8, <2>1, Bases
<1>13. b \in 0 .. N
  BY <1>12 DEF Ends
<1>14. B!Lacking = b + 1 .. N
  <2>1. \A i \in 1 .. N : i \in 0 .. N /\ (i \in 0 .. b \/ i \in b + 1 .. N)
    BY <1>6, <1>13
  <2>2. \A i \in b + 1 .. N : i \in 1 .. N /\ i \in 0 .. N
    BY <1>6, <1>13
  <2>3. \A i \in 1 .. N : i \in B!Lacking <=> i \in b + 1 .. N
    BY <1>7, <1>10, <1>12, <2>1 DEF B!Lacking, Ends
  <2>4. B!Lacking \subseteq 1 .. N
    BY <1>7 DEF B!Lacking
  <2> QED  BY <2>2, <2>3, <2>4
<1>15. B!There(b).file = Upto(p, b)
  <2>1. b \in 0 .. b
    BY <1>13
  <2> QED  BY <1>10, <1>12, <1>13, <2>1 DEF Ends
<1>16. \A i \in b .. Len(p) : B!Real(i) = Upto(p, i)
  <2> TAKE i \in b .. Len(p)
  <2>1. b \in 0 .. Len(p)
    BY <1>4, <1>6, <1>13
  <2>2. Upto(p, b) \o SubSeq(p, b + 1, i) = Upto(p, i)
    BY <1>4, <2>1, Rejoins
  <2>3. B!Real(i) = B!There(b).file \o SubSeq(p, b + 1, i)
    BY DEF B!Real
  <2> QED  BY <1>15, <2>2, <2>3
<1>17. B!Dest = p
  <2>1. Len(p) \in b .. Len(p) /\ Len(p) \in 0 .. Len(p)
    BY <1>4, <1>6, <1>13
  <2>2. Upto(p, Len(p)) = p
    BY <1>4, <2>1, Uppers
  <2>3. B!Dest = B!Real(Len(p))
    BY DEF B!Dest
  <2> QED  BY <1>16, <2>1, <2>2, <2>3
<1> QED  BY <1>6, <1>7, <1>9, <1>10, <1>12, <1>14, <1>15, <1>16, <1>17 DEF IsWay

LEMMA OwnerOfParent ==
    ASSUME NEW table, DOMAIN table \in SUBSET Seq(Names), <<>> \in DOMAIN table,
           NEW u \in Seq(Names), u \notin DOMAIN table,
           NEW d \in Seq(Names), IsPrefix(d, u), Len(d) = Len(u) - 1
    PROVE  OwnerIn(table, u) = OwnerIn(table, d)
<1>1. PICK m : m = OwnerIn(table, u)
  OBVIOUS
<1>2. IsDeepest(DOMAIN table, u, m)
  BY <1>1, OwnerIs
<1>3. m \in Seq(Names) /\ IsPrefix(m, u) /\ m # u
  BY <1>2 DEF IsDeepest
<1>4. Len(m) \in Nat /\ Len(u) \in Nat /\ Len(d) \in Nat
  BY <1>3
<1>5. Len(m) <= Len(d)
  <2>1. Len(m) <= Len(u)
    BY <1>3 DEF IsPrefix
  <2>2. Len(m) # Len(u)
    BY <1>3, PrefixIs
  <2> QED  BY <1>4, <2>1, <2>2
<1>6. IsPrefix(m, d)
  BY <1>3, <1>5, PrefixOfPrefix
<1>7. IsDeepest(DOMAIN table, d, m)
  BY <1>2, <1>6, DeepestOfBelow
<1> QED  BY <1>1, <1>7, OwnerIs

\* Nothing prevents the operation, and nothing is created on the host for it.
IsPossible(p) ==
    /\ B!Possible /\ ~B!OutIn /\ ~B!LinkExists
    /\ B!IsBind => B!BindSource.file = p
    /\ B!WantsFile <=> B!IsBind /\ p \notin Dirs(host)

LEMMA PossibleIs ==
    ASSUME NEW done, Building(done), ops # <<>>, NEW p, p = B!Op.dest
    PROVE  IsPossible(p)
<1>1. Settled /\ Plain /\ done \in SUBSET Mentioned /\ FileSystem(host) /\ SlashFree(host)
  BY DEF Building, Settled, Plain
<1>2. IsNext(p, done, ops)
  BY NextIs DEF Building, B!Op
<1>3. p \in Mentioned /\ IsMentioned(p) /\ Kinds(p, ArgumentFor(p)) /\ B!Op = ArgumentFor(p)
  BY <1>1, <1>2, MentionedIs, ArgumentKinds DEF IsNext, B!Op
<1>4. p \in Seq(Names) /\ p \in DOMAIN host /\ Len(p) \in Nat /\ p \in DOMAIN exports
  BY <1>3 DEF IsMentioned
<1>5. PICK N, b : N = Reach(p) /\ b = B!Base
  OBVIOUS
<1>6. IsWay(p, N, b) /\ B!Base = b
  BY <1>5, WayIs
<1>7. Resembles(newroot)
  BY <1>1, RootResembles DEF Building
<1>8. N \in Nat /\ b \in Nat /\ b <= N /\ N <= Len(p)
  BY <1>4, <1>6 DEF IsWay, Ends
<1>9. B!IsBind => B!Op.source = p /\ p \notin LinkNames(host)
  BY <1>3 DEF Kinds, B!IsBind
<1>10. B!IsBind => /\ B!BindSource.file = p /\ B!Finds(B!BindSource)
                   /\ B!IsA(host, B!BindSource, "dir") <=> p \in Dirs(host)
  <2> HAVE B!IsBind
  <2>1. B!BindSource = Follow(host, p)
    BY <1>9, SameLookup DEF B!BindSource
  <2>2. Resembles(host)
    BY <1>1 DEF Resembles
  <2>3. Sees(host, p)
    BY <1>1, <1>4, <2>2, Seen
  <2>4. Finds(Follow(host, p)) /\ Follow(host, p).file = p
    BY <1>4, <1>9, <2>3 DEF Sees
  <2> QED  BY <1>4, <2>1, <2>4 DEF B!Finds, Finds, B!IsA, Dirs
<1>11. B!WantsFile <=> B!IsBind /\ p \notin Dirs(host)
  BY <1>10 DEF B!WantsFile
<1>12. \A i \in 1 .. N : ~B!Blocked(i)
  <2> TAKE i \in 1 .. N
  <2>1. i \in 0 .. N /\ i \in 0 .. Len(p)
    BY <1>4, <1>8
  <2>2. PICK u : u = Upto(p, i)
    OBVIOUS
  <2>3. u \in DOMAIN host /\ (i < Len(p) => u \in Dirs(host)) /\ (i = Len(p) => u = p)
    BY <1>4, <1>6, <2>1, <2>2, Uppers DEF IsWay
  <2>4. /\ B!Finds(B!There(i)) <=> u \in DOMAIN newroot
        /\ u \in DOMAIN newroot => B!There(i).file = u
    BY <1>6, <2>1, <2>2 DEF IsWay
  <2>5. CASE u \in DOMAIN newroot
    <3>1. newroot[u].kind = host[u].kind
      BY <1>7, <2>5 DEF Resembles
    <3>2. newroot[u].kind = "dir" <=> u \in Dirs(host)
      BY <2>3, <3>1 DEF Dirs
    <3>3. (newroot[u].kind = "dir") # (B!WantsFile /\ i = Len(p))
      <4>1. CASE i < Len(p)
        BY <1>4, <2>3, <3>2, <4>1
      <4>2. CASE i = Len(p)
        <5>1. p \notin LinkNames(host)
          BY <1>4, <1>5, <1>8, <4>2 DEF Reach
        <5>2. B!IsBind \/ p \in Dirs(host)
          BY <1>3, <5>1 DEF Kinds, B!IsBind
        <5> QED  BY <1>11, <2>3, <3>2, <4>2, <5>2
      <4> QED  BY <1>4, <2>1, <4>1, <4>2
    <3>4. B!Op.dest = p
      OBVIOUS
    <3> QED  BY <2>4, <2>5, <3>3, <3>4 DEF B!Blocked
  <2>6. CASE u \notin DOMAIN newroot
    <3>1. Sees(newroot, u)
      BY <1>1, <1>7, <2>3, Seen
    <3>2. B!NoFollow(newroot, B!At(i)) = NoFollow(newroot, u)
      BY <2>2, SameLookup DEF B!At, Upto
    <3>3. ~B!Finds(B!NoFollow(newroot, B!At(i)))
      BY <2>6, <3>1, <3>2 DEF Sees, B!Finds, Finds
    <3> QED  BY <2>4, <2>6, <3>3 DEF B!Blocked
  <2> QED  BY <2>5, <2>6
<1>13. p \in LinkNames(host) => p \notin DOMAIN newroot
  <2> HAVE p \in LinkNames(host)
  <2>1. ~ParentIsMapped(p)
    BY <1>3 DEF IsMentioned
  <2>2. ~OnHost(mounts, p)
    <3>1. p \notin done /\ \A q \in Mentioned : IsPrefix(q, p) /\ q # p => q \in done
      BY <1>2 DEF IsNext
    <3>2. MountsAre(mounts, done)
      BY DEF Building
    <3> QED  BY <1>1, <1>4, <2>1, <3>1, <3>2, ParentIsOnHost
  <2>3. p # <<>>
    BY <1>1 DEF FileSystem, LinkNames
  <2>4. ~Made(done, p)
    BY <1>2, <2>3 DEF Made, IsNext
  <2> QED  BY <2>2, <2>4 DEF Building, RootIs
<1>14. ~B!LinkExists
  <2> SUFFICES ASSUME B!LinkExists PROVE FALSE
    OBVIOUS
  <2>1. B!Op.type = "symlink" /\ p \in LinkNames(host)
    BY <1>3 DEF B!LinkExists, Kinds
  <2>2. Sees(newroot, p)
    BY <1>1, <1>4, <1>7, Seen
  <2>3. Finds(NoFollow(newroot, p))
    <3>1. B!NoFollow(newroot, p) = NoFollow(newroot, p)
      BY SameLookup
    <3> QED  BY <3>1 DEF B!LinkExists, B!Finds, Finds
  <2> QED  BY <1>13, <2>1, <2>2, <2>3 DEF Sees
<1>15. B!Possible
  BY <1>6, <1>10, <1>12, <1>14 DEF B!Possible, IsWay
<1>16. ~B!OutIn
  <2> SUFFICES ASSUME B!OutIn PROVE FALSE
    OBVIOUS
  <2>1. B!There(b).file = Upto(p, b)
    BY <1>6 DEF IsWay
  <2>2. OnHost(mounts, Upto(p, b))
    BY <1>5, <2>1, SameOwner DEF B!OutIn
  <2>3. b < N \/ (b = N /\ p \in LinkNames(host))
    <3>1. b + 1 .. N # {} \/ B!Op.type = "symlink"
      BY <1>6 DEF B!OutIn, B!Creates, IsWay
    <3>2. b + 1 .. N # {} => b < N
      BY <1>8
    <3>3. B!Op.type = "symlink" => p \in LinkNames(host)
      BY <1>3 DEF Kinds
    <3> QED  BY <1>8, <3>1, <3>2, <3>3
  <2>4. b < Len(p)
    BY <1>4, <1>5, <1>8, <2>3 DEF Reach
  <2>5. PICK d, u : d = Upto(p, b) /\ u = Upto(p, b + 1)
    OBVIOUS
  <2>6. b \in 0 .. Len(p) /\ b + 1 \in 0 .. Len(p)
    BY <1>4, <1>8, <2>4
  <2>7. /\ d \in Seq(Names) /\ Len(d) = b /\ IsPrefix(d, p)
        /\ u \in Seq(Names) /\ Len(u) = b + 1 /\ IsPrefix(u, p)
        /\ b + 1 = Len(p) => u = p
    BY <1>4, <2>5, <2>6, Uppers
  <2>8. IsPrefix(d, u) /\ Len(d) = Len(u) - 1
    <3>1. Len(d) <= Len(u) /\ Len(d) = Len(u) - 1
      BY <1>8, <2>7
    <3> QED  BY <1>4, <2>7, <3>1, PrefixOfPrefix
  <2>9. u \in DOMAIN host /\ u \notin DOMAIN newroot
    <3>1. CASE b < N
      <4>1. b + 1 \in 0 .. N /\ b + 1 \in b + 1 .. N
        BY <1>8, <3>1
      <4> QED  BY <1>6, <2>5, <4>1 DEF IsWay, Ends
    <3>2. CASE b = N /\ p \in LinkNames(host)
      <4>1. u = p
        BY <1>4, <1>5, <2>7, <3>2 DEF Reach
      <4> QED  BY <1>4, <1>13, <3>2, <4>1
    <3> QED  BY <2>3, <3>1, <3>2
  <2>10. ~Made(done, u) /\ ~OnHost(mounts, u)
    BY <2>9 DEF Building, RootIs
  <2>11. DOMAIN mounts \in SUBSET Seq(Names) /\ <<>> \in DOMAIN mounts
    BY <1>1, MountsAreNamed DEF Building
  <2>12. u \notin DOMAIN mounts
    <3> SUFFICES ASSUME u \in DOMAIN mounts PROVE FALSE
      OBVIOUS
    <3>1. u = <<>> \/ u \in done
      BY DEF Building, MountsAre, IsMount
    <3>2. u # <<>>
      BY <1>8, <2>7
    <3> QED  BY <2>7, <2>10, <3>1, <3>2, IsOwnPrefix DEF Made
  <2>13. OwnerIn(mounts, u) = OwnerIn(mounts, d)
    BY <2>7, <2>8, <2>11, <2>12, OwnerOfParent
  <2> QED  BY <2>2, <2>5, <2>10, <2>13 DEF OnHost
<1> QED  BY <1>10, <1>11, <1>14, <1>15, <1>16 DEF IsPossible

\* What is above a path, and itself if it is not a link, is there afterwards.
IsNeeded(q, p) == q \in Seq(Names) /\ IsPrefix(q, p) /\ (p \in LinkNames(host) => q # p)

IsPrepared(t, p) ==
    /\ \A q : q \in DOMAIN t <=> q \in DOMAIN newroot \/ IsNeeded(q, p)
    /\ \A q \in DOMAIN newroot : t[q] = newroot[q]
    /\ \A q \in DOMAIN t \ DOMAIN newroot :
          /\ q \in DOMAIN host /\ IsPrefix(q, p) /\ q \notin LinkNames(host)
          /\ q # p => q \in Dirs(host)
          /\ q # p \/ ~B!WantsFile => t[q] = B!Directory

LEMMA PreparedIs ==
    ASSUME NEW done, Building(done), ops # <<>>, NEW p, p = B!Op.dest
    PROVE  IsPrepared(B!Prepared, p)
<1>1. Settled /\ Plain /\ done \in SUBSET Mentioned /\ FileSystem(host)
  BY DEF Building, Settled, Plain
<1>2. IsMentioned(p)
  <2>1. IsNext(p, done, ops)
    BY NextIs DEF Building, B!Op
  <2> QED  BY <1>1, <2>1, MentionedIs DEF IsNext
<1>3. p \in Seq(Names) /\ p \in DOMAIN host /\ Len(p) \in Nat
  BY <1>2 DEF IsMentioned
<1>4. PICK N, b : N = Reach(p) /\ b = B!Base
  OBVIOUS
<1>5. IsWay(p, N, b)
  BY <1>4, WayIs
<1>6. N \in Nat /\ b \in Nat /\ b <= N /\ N <= Len(p)
  BY <1>3, <1>5 DEF IsWay, Ends
<1>7. B!Lacking = b + 1 .. N /\ B!Dest = p /\ \A i \in b .. Len(p) : B!Real(i) = Upto(p, i)
  BY <1>5 DEF IsWay
<1>8. PICK new : new = {B!Real(i) : i \in B!Lacking}
  OBVIOUS
<1>9. \A i \in b + 1 .. N : i \in b .. Len(p)
  BY <1>3, <1>6
<1>10. new = {Upto(p, i) : i \in b + 1 .. N}
  BY <1>7, <1>8, <1>9
<1>11. PICK t : t = B!Prepared
  OBVIOUS
<1>12. /\ DOMAIN t = DOMAIN newroot \cup new
       /\ \A q \in DOMAIN t : t[q] = IF q \notin new THEN newroot[q]
                                     ELSE IF B!WantsFile /\ q = p THEN B!EmptyFile ELSE B!Directory
  BY <1>7, <1>8, <1>11 DEF B!Prepared
<1>13. \A q \in new : q \notin DOMAIN newroot /\ IsNeeded(q, p) /\ q \in DOMAIN host
                      /\ q \notin LinkNames(host) /\ (q # p => q \in Dirs(host))
  <2> TAKE q \in new
  <2>1. PICK i \in b + 1 .. N : q = Upto(p, i)
    BY <1>10
  <2>2. i \in 0 .. N /\ i \in 0 .. Len(p)
    BY <1>3, <1>6
  <2>3. q \in Seq(Names) /\ IsPrefix(q, p) /\ (i = Len(p) <=> q = p)
    BY <1>3, <2>1, <2>2, Uppers
  <2>4. p \in LinkNames(host) => q # p
    <3>1. p \in LinkNames(host) => i < Len(p)
      BY <1>3, <1>4, <1>6 DEF Reach
    <3> QED  BY <1>3, <2>2, <2>3, <3>1
  <2>5. q \notin DOMAIN newroot
    BY <1>5, <2>1 DEF IsWay, Ends
  <2>6. q \in DOMAIN host /\ q \notin LinkNames(host) /\ (i < Len(p) => q \in Dirs(host))
    BY <1>5, <2>1, <2>2 DEF IsWay
  <2>7. i < Len(p) \/ i = Len(p)
    BY <1>3, <2>2
  <2> QED  BY <2>3, <2>4, <2>5, <2>6, <2>7 DEF IsNeeded
<1>14. ASSUME NEW q, IsNeeded(q, p) PROVE q \in DOMAIN newroot \/ q \in new
  <2>1. q \in Seq(Names) /\ IsPrefix(q, p) /\ (p \in LinkNames(host) => q # p)
    BY <1>14 DEF IsNeeded
  <2>2. PICK i : i = Len(q)
    OBVIOUS
  <2>3. i \in 0 .. Len(p) /\ (i = Len(p) => q = p)
    <3>1. i \in Nat /\ i <= Len(p)
      BY <2>1, <2>2 DEF IsPrefix
    <3>2. Len(q) = Len(p) => q = p
      BY <1>3, <2>1, PrefixIs
    <3> QED  BY <1>3, <2>2, <3>1, <3>2
  <2>4. q = Upto(p, i)
    BY <1>3, <2>1, <2>2, <2>3, Uppers
  <2>5. i \in 0 .. N
    BY <1>3, <1>4, <1>6, <2>1, <2>3 DEF Reach
  <2>6. i \in 0 .. b \/ i \in b + 1 .. N
    BY <1>6, <2>5
  <2> QED  BY <1>5, <1>10, <2>4, <2>6 DEF IsWay, Ends
<1>15. \A q : q \in DOMAIN t <=> q \in DOMAIN newroot \/ IsNeeded(q, p)
  BY <1>12, <1>13, <1>14
<1>16. \A q \in DOMAIN newroot : t[q] = newroot[q]
  BY <1>12, <1>13
<1>17. \A q \in DOMAIN t \ DOMAIN newroot :
          /\ q \in DOMAIN host /\ IsPrefix(q, p) /\ q \notin LinkNames(host)
          /\ q # p => q \in Dirs(host)
          /\ q # p \/ ~B!WantsFile => t[q] = B!Directory
  BY <1>12, <1>13 DEF IsNeeded
<1> QED  BY <1>11, <1>15, <1>16, <1>17 DEF IsPrepared

-----------------------------------------------------------------------------
(* The operations.                                                         *)
Built(p, done) ==
    MountsAre(mounts', done \cup {p}) /\ RootIs(newroot', mounts', done \cup {p})

LEMMA MadeMore ==
    ASSUME NEW done, NEW p \in Seq(Names), NEW q
    PROVE  Made(done \cup {p}, q) <=> Made(done, q) \/ IsPrefix(q, p)
<1>1. IsPrefix(<<>>, p)
  BY RootIsPrefix
<1> QED  BY <1>1 DEF Made

LEMMA BuildsDir ==
    ASSUME NEW done, Building(done), ops # <<>>, NEW p, p = B!Op.dest, B!MakeDir
    PROVE  Built(p, done)
<1>1. Settled /\ Plain /\ done \in SUBSET Mentioned
  BY DEF Building, Settled
<1>2. IsNext(p, done, ops) /\ p \in Mentioned
  BY NextIs DEF Building, B!Op, IsNext
<1>3. IsMentioned(p) /\ Kinds(p, ArgumentFor(p)) /\ B!Op = ArgumentFor(p)
  BY <1>1, <1>2, MentionedIs, ArgumentKinds DEF IsNext, B!Op
<1>4. p \in Seq(Names) /\ p \in DOMAIN host /\ p \in DOMAIN exports
  BY <1>3 DEF IsMentioned
<1>5. B!Op.type = "dir" /\ newroot' = B!Prepared /\ mounts' = mounts
  BY DEF B!MakeDir, B!Do
<1>6. /\ exports[p] \in {Dir, Tmpfs} /\ (exports[p] = Tmpfs => ~ParentIsMapped(p))
      /\ p \in Dirs(host) /\ p \notin LinkNames(host)
  BY <1>3, <1>5 DEF Kinds
<1>7. exports[p] = Tmpfs => ~OnHost(mounts, p)
  <2>1. p \notin done /\ \A q \in Mentioned : IsPrefix(q, p) /\ q # p => q \in done
    BY <1>2 DEF IsNext
  <2>2. MountsAre(mounts, done)
    BY DEF Building
  <2> QED  BY <1>1, <1>4, <1>6, <2>1, <2>2, ParentIsOnHost
<1>8. MountsAre(mounts', done \cup {p})
  <2>1. MountsAre(mounts, done)
    BY DEF Building
  <2>2. ~Binds(p)
    BY <1>6 DEF Binds, Dir, Tmpfs, ReadOnly, ReadWrite
  <2>3. \A m \in DOMAIN mounts : IsMount(mounts, done \cup {p}, m)
    BY <2>1 DEF MountsAre, IsMount
  <2> QED  BY <1>5, <1>7, <2>1, <2>2, <2>3 DEF MountsAre
<1>9. IsPrepared(newroot', p)
  BY <1>5, PreparedIs
<1>10. ~B!WantsFile
  <2>1. ~B!IsBind
    BY <1>5 DEF B!IsBind
  <2> QED  BY <2>1 DEF B!WantsFile
<1>11. RootIs(newroot, mounts, done)
  BY DEF Building
<1>12. \A q : IsNeeded(q, p) <=> q \in Seq(Names) /\ IsPrefix(q, p)
  BY <1>6 DEF IsNeeded
<1>13. \A q \in DOMAIN host : q \in Seq(Names)
  BY <1>1, FilesAreNamed
<1>14. \A q : q \in DOMAIN newroot' <=>
                q \in DOMAIN host /\ (Made(done \cup {p}, q) \/ OnHost(mounts, q))
  <2>1. \A q \in DOMAIN newroot' : q \in DOMAIN host
    BY <1>9, <1>11 DEF IsPrepared, RootIs
  <2>2. \A q \in DOMAIN host : q \in DOMAIN newroot' <=> q \in DOMAIN newroot \/ IsPrefix(q, p)
    BY <1>9, <1>12, <1>13 DEF IsPrepared
  <2>3. \A q \in DOMAIN host : q \in DOMAIN newroot <=> Made(done, q) \/ OnHost(mounts, q)
    BY <1>11 DEF RootIs
  <2>4. \A q : Made(done \cup {p}, q) <=> Made(done, q) \/ IsPrefix(q, p)
    BY <1>4, MadeMore
  <2> QED  BY <2>1, <2>2, <2>3, <2>4
<1>15. ASSUME NEW q \in DOMAIN newroot' PROVE Looks(newroot', mounts, q)
  <2>1. CASE q \in DOMAIN newroot
    <3>1. newroot'[q] = newroot[q]
      BY <1>9, <2>1 DEF IsPrepared
    <3>2. Looks(newroot, mounts, q)
      BY <1>11, <2>1 DEF RootIs
    <3> QED  BY <3>1, <3>2 DEF Looks
  <2>2. CASE q \notin DOMAIN newroot
    <3>1. /\ q \in DOMAIN host /\ q \notin LinkNames(host) /\ newroot'[q] = B!Directory
          /\ q \in Dirs(host)
      BY <1>6, <1>9, <1>10, <1>15, <2>2 DEF IsPrepared
    <3>2. ~OnHost(mounts, q)
      BY <1>11, <2>2, <3>1 DEF RootIs
    <3> QED  BY <3>1, <3>2 DEF Looks, B!Directory, Dirs
  <2> QED  BY <2>1, <2>2
<1>16. RootIs(newroot', mounts', done \cup {p})
  <2>1. DOMAIN newroot' = {q \in DOMAIN host : Made(done \cup {p}, q) \/ OnHost(mounts, q)}
    BY <1>14
  <2> QED  BY <1>5, <1>15, <2>1 DEF RootIs
<1> QED  BY <1>8, <1>16 DEF Built

LEMMA BuildsLink ==
    ASSUME NEW done, Building(done), ops # <<>>, NEW p, p = B!Op.dest, B!MakeSymlink
    PROVE  Built(p, done)
<1>1. Settled /\ Plain /\ done \in SUBSET Mentioned
  BY DEF Building, Settled
<1>2. IsNext(p, done, ops) /\ p \in Mentioned
  BY NextIs DEF Building, B!Op, IsNext
<1>3. IsMentioned(p) /\ Kinds(p, ArgumentFor(p)) /\ B!Op = ArgumentFor(p)
  BY <1>1, <1>2, MentionedIs, ArgumentKinds DEF IsNext, B!Op
<1>4. p \in Seq(Names) /\ p \in DOMAIN host /\ p \in DOMAIN exports
  BY <1>3 DEF IsMentioned
<1>5. B!Op.type = "symlink" /\ mounts' = mounts
  BY DEF B!MakeSymlink, B!Do
<1>6. p \in LinkNames(host) /\ B!Op.source = MakeRelative(Front(p), ResolveLink(p))
  BY <1>3, <1>5 DEF Kinds
<1>7. exports[p] = Symlink /\ ~ParentIsMapped(p)
  BY <1>3, <1>6 DEF IsMentioned
<1>8. ~OnHost(mounts, p)
  <2>1. p \notin done /\ \A q \in Mentioned : IsPrefix(q, p) /\ q # p => q \in done
    BY <1>2 DEF IsNext
  <2>2. MountsAre(mounts, done)
    BY DEF Building
  <2> QED  BY <1>1, <1>4, <1>7, <2>1, <2>2, ParentIsOnHost
<1>9. MountsAre(mounts', done \cup {p})
  <2>1. MountsAre(mounts, done)
    BY DEF Building
  <2>2. ~Binds(p) /\ exports[p] # Tmpfs
    BY <1>7 DEF Binds, Symlink, Tmpfs, ReadOnly, ReadWrite
  <2>3. \A m \in DOMAIN mounts : IsMount(mounts, done \cup {p}, m)
    BY <2>1 DEF MountsAre, IsMount
  <2> QED  BY <1>5, <2>1, <2>2, <2>3 DEF MountsAre
<1>10. PICK t : t = B!Prepared
  OBVIOUS
<1>11. IsPrepared(t, p)
  BY <1>10, PreparedIs
<1>12. ~B!WantsFile
  <2>1. ~B!IsBind
    BY <1>5 DEF B!IsBind
  <2> QED  BY <2>1 DEF B!WantsFile
<1>13. B!Dest = p /\ ~B!LinkExists
  <2>1. PICK N, b : N = Reach(p) /\ b = B!Base
    OBVIOUS
  <2>2. IsWay(p, N, b)
    BY <2>1, WayIs
  <2> QED  BY <2>2, PossibleIs DEF IsWay, IsPossible
<1>14. newroot' = [q \in DOMAIN t \cup {p} |-> IF q = p THEN Rewritten(p) ELSE t[q]]
  BY <1>6, <1>10, <1>13 DEF B!MakeSymlink, Rewritten
<1>15. RootIs(newroot, mounts, done)
  BY DEF Building
<1>16. \A q : IsNeeded(q, p) \/ q = p <=> q \in Seq(Names) /\ IsPrefix(q, p)
  BY <1>4, <1>6, IsOwnPrefix DEF IsNeeded
<1>17. \A q \in DOMAIN host : q \in Seq(Names)
  BY <1>1, FilesAreNamed
<1>18. \A q : q \in DOMAIN newroot' <=>
                q \in DOMAIN host /\ (Made(done \cup {p}, q) \/ OnHost(mounts, q))
  <2>1. \A q \in DOMAIN newroot' : q \in DOMAIN host
    BY <1>4, <1>11, <1>14, <1>15 DEF IsPrepared, RootIs
  <2>2. \A q \in DOMAIN host : q \in DOMAIN newroot' <=> q \in DOMAIN newroot \/ IsPrefix(q, p)
    BY <1>11, <1>14, <1>16, <1>17 DEF IsPrepared
  <2>3. \A q \in DOMAIN host : q \in DOMAIN newroot <=> Made(done, q) \/ OnHost(mounts, q)
    BY <1>15 DEF RootIs
  <2>4. \A q : Made(done \cup {p}, q) <=> Made(done, q) \/ IsPrefix(q, p)
    BY <1>4, MadeMore
  <2> QED  BY <2>1, <2>2, <2>3, <2>4
<1>19. ASSUME NEW q \in DOMAIN newroot' PROVE Looks(newroot', mounts, q)
  <2>1. CASE q = p
    <3>1. newroot'[p] = Rewritten(p)
      BY <1>14
    <3>2. Rewritten(p).kind = "link" /\ host[p].kind = "link"
      BY <1>1, <1>6, RewrittenIs DEF LinkNames
    <3> QED  BY <1>8, <2>1, <3>1, <3>2 DEF Looks
  <2>2. CASE q # p /\ q \in DOMAIN newroot
    <3>1. newroot'[q] = newroot[q]
      BY <1>11, <1>14, <2>2 DEF IsPrepared
    <3>2. Looks(newroot, mounts, q)
      BY <1>15, <2>2 DEF RootIs
    <3> QED  BY <3>1, <3>2 DEF Looks
  <2>3. CASE q # p /\ q \notin DOMAIN newroot
    <3>1. q \in DOMAIN t /\ newroot'[q] = t[q]
      BY <1>14, <1>19, <2>3
    <3>2. /\ q \in DOMAIN host /\ q \notin LinkNames(host) /\ t[q] = B!Directory
          /\ q \in Dirs(host)
      BY <1>11, <2>3, <3>1 DEF IsPrepared
    <3>3. ~OnHost(mounts, q)
      BY <1>15, <2>3, <3>2 DEF RootIs
    <3> QED  BY <3>1, <3>2, <3>3 DEF Looks, B!Directory, Dirs
  <2> QED  BY <2>1, <2>2, <2>3
<1>20. RootIs(newroot', mounts', done \cup {p})
  <2>1. DOMAIN newroot' = {q \in DOMAIN host : Made(done \cup {p}, q) \/ OnHost(mounts, q)}
    BY <1>18
  <2> QED  BY <1>5, <1>19, <2>1 DEF RootIs
<1> QED  BY <1>9, <1>20 DEF Built

\* Nothing is mounted further down already.
IsMounted(t, p, mount) ==
    /\ DOMAIN mounts' = DOMAIN mounts \cup {p} /\ mounts'[p] = mount
    /\ \A m \in DOMAIN mounts \ {p} : mounts'[m] = mounts[m] /\ ~IsPrefix(p, m)
    /\ \A q \in DOMAIN host :
          q \in DOMAIN newroot' <=> IF IsPrefix(p, q) THEN mount.type = "bind" \/ q = p
                                    ELSE q \in DOMAIN t
    /\ \A q \in DOMAIN newroot' :
          /\ q \in DOMAIN host
          /\ newroot'[q] = IF ~IsPrefix(p, q) THEN t[q]
                           ELSE IF mount.type = "bind" THEN host[q] ELSE B!Directory

LEMMA AfterIs ==
    ASSUME NEW S, NEW p \in Seq(S), NEW q \in Seq(S), IsPrefix(p, q)
    PROVE  p \o B!After(p, q) = q
<1>1. Len(p) \in Nat /\ Len(q) \in Nat /\ Len(p) <= Len(q)
  BY DEF IsPrefix
<1>2. Len(p) \in 0 .. Len(q) /\ Len(q) \in Len(p) .. Len(q) /\ Len(q) \in 0 .. Len(q)
  BY <1>1
<1>3. Upto(q, Len(p)) = p /\ Upto(q, Len(q)) = q
  BY <1>2, Uppers
<1>4. Upto(q, Len(p)) \o SubSeq(q, Len(p) + 1, Len(q)) = Upto(q, Len(q))
  BY <1>2, Rejoins
<1> QED  BY <1>3, <1>4 DEF B!After

LEMMA Mounting ==
    ASSUME NEW done, Building(done), ops # <<>>, NEW p, p = B!Op.dest,
           NEW t, \A q \in DOMAIN t : q \in DOMAIN host,
           NEW mount, mount = B!NewTmpfs \/ mount = B!NewBind(p, TRUE) \/ mount = B!NewBind(p, FALSE),
           B!Mount(t, p, mount)
    PROVE  IsMounted(t, p, mount)
<1>1. Settled /\ Plain /\ done \in SUBSET Mentioned
  BY DEF Building, Settled
<1>2. IsNext(p, done, ops) /\ p \in Mentioned /\ IsMentioned(p)
  BY <1>1, NextIs, MentionedIs DEF Building, B!Op, IsNext
<1>3. p \in Seq(Names) /\ p \in DOMAIN host
  BY <1>2 DEF IsMentioned
<1>4. \A q \in DOMAIN host : q \in Seq(Names)
  BY <1>1, FilesAreNamed
<1>5. \A a, b : B!IsPrefix(a, b) <=> IsPrefix(a, b)
  BY DEF B!IsPrefix, IsPrefix
<1>6. \A m \in DOMAIN mounts \ {p} : ~IsPrefix(p, m)
  <2> TAKE m \in DOMAIN mounts \ {p}
  <2>1. m = <<>> \/ m \in done
    BY DEF Building, MountsAre, IsMount
  <2>2. CASE m = <<>>
    <3>1. m \in Seq(Names) /\ IsPrefix(m, p)
      BY <1>3, <2>2, RootIsPrefix
    <3>2. Len(m) = 0 /\ Len(p) \in Nat
      BY <1>3, <2>2
    <3>3. IsPrefix(p, m) => Len(p) = Len(m)
      BY <3>2 DEF IsPrefix
    <3> QED  BY <1>3, <3>1, <3>3, PrefixIs
  <2>3. CASE m \in done
    BY <1>2, <2>3 DEF IsNext
  <2> QED  BY <2>1, <2>2, <2>3
<1>7. PICK content : content = IF mount.type = "bind" THEN B!Content(mount.source)
                               ELSE [q \in {<<>>} |-> B!Directory]
  OBVIOUS
<1>8. PICK there : there = {p \o q : q \in DOMAIN content}
  OBVIOUS
<1>9. PICK rest : rest = B!Hide(t, p)
  OBVIOUS
<1>10. /\ newroot' = [q \in DOMAIN rest \cup there |->
                         IF q \in there THEN content[B!After(p, q)] ELSE rest[q]]
       /\ mounts' = [q \in DOMAIN B!Hide(mounts, p) \cup {p} |->
                        IF q = p THEN mount ELSE mounts[q]]
  BY <1>7, <1>8, <1>9 DEF B!Mount
<1>11. DOMAIN rest = {q \in DOMAIN t : ~IsPrefix(p, q)} /\ \A q \in DOMAIN rest : rest[q] = t[q]
  BY <1>5, <1>9 DEF B!Hide
<1>12. DOMAIN B!Hide(mounts, p) = {q \in DOMAIN mounts : ~IsPrefix(p, q)}
  BY <1>5 DEF B!Hide
<1>13. IsPrefix(p, p)
  BY <1>3, IsOwnPrefix
<1>14. DOMAIN mounts' = DOMAIN mounts \cup {p} /\ mounts'[p] = mount
       /\ \A m \in DOMAIN mounts \ {p} : mounts'[m] = mounts[m]
  BY <1>6, <1>10, <1>12
<1>15. \A q \in DOMAIN host : IsPrefix(p, q) => p \o B!After(p, q) = q
  BY <1>3, <1>4, AfterIs
<1>16. CASE mount.type = "bind"
  <2>1. mount.source = p
    BY <1>16 DEF B!NewTmpfs, B!NewBind
  <2>2. content = [q \in {B!After(p, h) : h \in {h \in DOMAIN host : IsPrefix(p, h)}} |-> host[p \o q]]
    BY <1>5, <1>7, <1>16, <2>1 DEF B!Content
  <2>3. DOMAIN content = {B!After(p, h) : h \in {h \in DOMAIN host : IsPrefix(p, h)}}
    BY <2>2
  <2>4. \A q : q \in there <=> q \in DOMAIN host /\ IsPrefix(p, q)
    <3>1. ASSUME NEW q \in there PROVE q \in DOMAIN host /\ IsPrefix(p, q)
      <4>1. PICK c \in DOMAIN content : q = p \o c
        BY <1>8, <3>1
      <4>2. PICK h \in DOMAIN host : IsPrefix(p, h) /\ c = B!After(p, h)
        BY <2>3, <4>1
      <4> QED  BY <1>15, <4>1, <4>2
    <3>2. ASSUME NEW q \in DOMAIN host, IsPrefix(p, q) PROVE q \in there
      <4>1. B!After(p, q) \in DOMAIN content
        BY <2>3, <3>2
      <4> QED  BY <1>8, <1>15, <3>2, <4>1
    <3> QED  BY <3>1, <3>2
  <2>5. \A q \in there : content[B!After(p, q)] = host[q]
    <3> TAKE q \in there
    <3>1. q \in DOMAIN host /\ IsPrefix(p, q) /\ p \o B!After(p, q) = q
      BY <1>15, <2>4
    <3>2. B!After(p, q) \in DOMAIN content
      BY <2>3, <3>1
    <3>3. content[B!After(p, q)] = host[p \o B!After(p, q)]
      BY <2>2, <2>3, <3>2
    <3> QED  BY <3>1, <3>3
  <2>6. \A q \in DOMAIN host :
          q \in DOMAIN newroot' <=> IF IsPrefix(p, q) THEN mount.type = "bind" \/ q = p
                                    ELSE q \in DOMAIN t
    BY <1>10, <1>11, <1>16, <2>4
  <2>7. \A q \in DOMAIN newroot' :
          /\ q \in DOMAIN host
          /\ newroot'[q] = IF ~IsPrefix(p, q) THEN t[q]
                           ELSE IF mount.type = "bind" THEN host[q] ELSE B!Directory
    BY <1>10, <1>11, <1>16, <2>4, <2>5
  <2> QED  BY <1>6, <1>14, <2>6, <2>7 DEF IsMounted
<1>17. CASE mount.type # "bind"
  <2>1. content = [q \in {<<>>} |-> B!Directory]
    BY <1>7, <1>17
  <2>2. p \o <<>> = p
    BY <1>3
  <2>3. there = {p}
    BY <1>8, <2>1, <2>2
  <2>4. B!After(p, p) = <<>>
    <3>1. Len(p) \in Nat /\ Len(p) + 1 > Len(p)
      BY <1>3
    <3> QED  BY <1>3, <3>1 DEF B!After
  <2>5. content[B!After(p, p)] = B!Directory
    BY <2>1, <2>4
  <2>6. \A q \in DOMAIN host :
          q \in DOMAIN newroot' <=> IF IsPrefix(p, q) THEN mount.type = "bind" \/ q = p
                                    ELSE q \in DOMAIN t
    BY <1>10, <1>11, <1>13, <1>17, <2>3
  <2>7. \A q \in DOMAIN newroot' :
          /\ q \in DOMAIN host
          /\ newroot'[q] = IF ~IsPrefix(p, q) THEN t[q]
                           ELSE IF mount.type = "bind" THEN host[q] ELSE B!Directory
    BY <1>3, <1>10, <1>11, <1>13, <1>17, <2>3, <2>5
  <2> QED  BY <1>6, <1>14, <2>6, <2>7 DEF IsMounted
<1> QED  BY <1>16, <1>17

\* The next argument is a mount.
MountFor(p) == IF exports[p] = Tmpfs THEN B!NewTmpfs ELSE BindOf(p)

LEMMA NewMount ==
    ASSUME NEW done, Building(done), ops # <<>>, NEW p, p = B!Op.dest,
           B!MakeTmpfs \/ B!BindReadOnly \/ B!BindWritable
    PROVE  /\ IsMounted(B!Prepared, p, MountFor(p)) /\ p \notin LinkNames(host)
           /\ exports[p] = Tmpfs \/ Binds(p)
<1>1. Settled /\ done \in SUBSET Mentioned
  BY DEF Building
<1>2. IsNext(p, done, ops) /\ p \in Mentioned
  BY NextIs DEF Building, B!Op, IsNext
<1>3. IsMentioned(p) /\ Kinds(p, ArgumentFor(p)) /\ B!Op = ArgumentFor(p)
  BY <1>1, <1>2, MentionedIs, ArgumentKinds DEF IsNext, B!Op
<1>4. p \in Seq(Names) /\ p \in DOMAIN host
  BY <1>3 DEF IsMentioned
<1>5. B!Dest = p
  <2>1. PICK N, b : N = Reach(p) /\ b = B!Base
    OBVIOUS
  <2> QED  BY <2>1, WayIs DEF IsWay
<1>6. B!IsBind => B!BindSource.file = p
  BY PossibleIs DEF IsPossible
<1>7. \A q \in DOMAIN B!Prepared : q \in DOMAIN host
  <2>1. IsPrepared(B!Prepared, p)
    BY PreparedIs
  <2> QED  BY <2>1 DEF IsPrepared, Building, RootIs
<1>8. CASE B!MakeTmpfs
  <2>1. B!Op.type = "tmpfs" /\ B!Mount(B!Prepared, p, B!NewTmpfs)
    BY <1>5, <1>8 DEF B!MakeTmpfs, B!Do
  <2>2. exports[p] = Tmpfs /\ p \notin LinkNames(host)
    BY <1>3, <2>1 DEF Kinds
  <2>3. MountFor(p) = B!NewTmpfs
    BY <2>2 DEF MountFor
  <2>4. IsMounted(B!Prepared, p, B!NewTmpfs)
    BY <1>7, <2>1, Mounting
  <2> QED  BY <2>2, <2>3, <2>4
<1>9. CASE B!BindReadOnly
  <2>1. B!Op.type = "ro-bind" /\ B!Mount(B!Prepared, p, B!NewBind(p, TRUE))
    BY <1>5, <1>6, <1>9 DEF B!BindReadOnly, B!Do, B!IsBind
  <2>2. exports[p] = ReadOnly /\ p \notin LinkNames(host)
    BY <1>3, <2>1 DEF Kinds
  <2>3. MountFor(p) = B!NewBind(p, TRUE) /\ Binds(p)
    <3>1. (exports[p] = ReadOnly) = TRUE /\ exports[p] # Tmpfs
      BY <2>2 DEF ReadOnly, Tmpfs
    <3>2. MountFor(p) = B!NewBind(p, TRUE)
      BY <3>1, Zenon DEF MountFor, BindOf
    <3> QED  BY <2>2, <3>2 DEF Binds
  <2>4. IsMounted(B!Prepared, p, B!NewBind(p, TRUE))
    BY <1>7, <2>1, Mounting
  <2> QED  BY <2>2, <2>3, <2>4
<1>10. CASE B!BindWritable
  <2>1. B!Op.type = "bind" /\ B!Mount(B!Prepared, p, B!NewBind(p, FALSE))
    BY <1>5, <1>6, <1>10 DEF B!BindWritable, B!Do, B!IsBind
  <2>2. exports[p] = ReadWrite /\ p \notin LinkNames(host)
    BY <1>3, <2>1 DEF Kinds
  <2>3. MountFor(p) = B!NewBind(p, FALSE) /\ Binds(p)
    <3>1. (exports[p] = ReadOnly) = FALSE /\ exports[p] # Tmpfs
      BY <2>2 DEF ReadOnly, ReadWrite, Tmpfs
    <3>2. MountFor(p) = B!NewBind(p, FALSE)
      BY <3>1, Zenon DEF MountFor, BindOf
    <3> QED  BY <2>2, <3>2 DEF Binds
  <2>4. IsMounted(B!Prepared, p, B!NewBind(p, FALSE))
    BY <1>7, <2>1, Mounting
  <2> QED  BY <2>2, <2>3, <2>4
<1> QED  BY <1>8, <1>9, <1>10

\* A new mount has what is below it, unless there are mounts further down.
Takes(table, after, p, q) ==
    /\ ~IsPrefix(p, q) => OwnerIn(after, q) = OwnerIn(table, q) /\ OwnerIn(after, q) # p
    /\ IsPrefix(p, q) /\ (\A m \in DOMAIN table \ {p} : ~IsPrefix(p, m)) =>
          OwnerIn(after, q) = p

LEMMA OwnerAfterMount ==
    ASSUME NEW table, DOMAIN table \in SUBSET Seq(Names), <<>> \in DOMAIN table,
           NEW after, NEW p \in Seq(Names), DOMAIN after = DOMAIN table \cup {p},
           NEW q \in Seq(Names)
    PROVE  Takes(table, after, p, q)
<1>1. DOMAIN after \in SUBSET Seq(Names) /\ <<>> \in DOMAIN after
  OBVIOUS
<1>2. ASSUME ~IsPrefix(p, q)
      PROVE  OwnerIn(after, q) = OwnerIn(table, q) /\ OwnerIn(after, q) # p
  <2>1. IsDeepest(DOMAIN table, q, OwnerIn(table, q))
    BY OwnerIs
  <2>2. IsDeepest(DOMAIN after, q, OwnerIn(table, q)) /\ OwnerIn(table, q) # p
    BY <1>2, <2>1 DEF IsDeepest
  <2> QED  BY <1>1, <2>2, OwnerIs
<1>3. ASSUME IsPrefix(p, q), \A m \in DOMAIN table \ {p} : ~IsPrefix(p, m)
      PROVE  OwnerIn(after, q) = p
  <2>1. \A m \in DOMAIN after : IsPrefix(m, q) => Len(m) <= Len(p)
    <3> TAKE m \in DOMAIN after
    <3> HAVE IsPrefix(m, q)
    <3>1. m \in Seq(Names) /\ Len(m) \in Nat /\ Len(p) \in Nat
      BY <1>1
    <3>2. CASE m = p
      BY <3>1, <3>2
    <3>3. CASE m # p
      <4>1. ~IsPrefix(p, m)
        BY <1>3, <3>3
      <4> QED  BY <1>3, <3>1, <4>1, PrefixOfPrefix
    <3> QED  BY <3>2, <3>3
  <2>2. IsDeepest(DOMAIN after, q, p)
    BY <1>3, <2>1 DEF IsDeepest
  <2> QED  BY <1>1, <2>2, OwnerIs
<1> QED  BY <1>2, <1>3 DEF Takes

LEMMA BuildsMount ==
    ASSUME NEW done, Building(done), ops # <<>>, NEW p, p = B!Op.dest,
           B!MakeTmpfs \/ B!BindReadOnly \/ B!BindWritable
    PROVE  Built(p, done)
<1>1. Settled /\ Plain /\ done \in SUBSET Mentioned /\ MountsAre(mounts, done)
      /\ RootIs(newroot, mounts, done)
  BY DEF Building, Settled
<1>2. IsNext(p, done, ops) /\ p \in Mentioned /\ IsMentioned(p)
  BY <1>1, NextIs, MentionedIs DEF Building, B!Op, IsNext
<1>3. p \in Seq(Names) /\ p \in DOMAIN host
  BY <1>2 DEF IsMentioned
<1>4. PICK t, mount : t = B!Prepared /\ mount = MountFor(p)
  OBVIOUS
<1>5. IsMounted(t, p, mount) /\ p \notin LinkNames(host) /\ (exports[p] = Tmpfs \/ Binds(p))
  BY <1>4, NewMount
<1>6. IsPrepared(t, p)
  BY <1>4, PreparedIs
<1>7. DOMAIN mounts \in SUBSET Seq(Names) /\ <<>> \in DOMAIN mounts
  BY <1>1, MountsAreNamed
<1>8. /\ DOMAIN mounts' = DOMAIN mounts \cup {p} /\ mounts'[p] = mount
      /\ \A m \in DOMAIN mounts \ {p} : mounts'[m] = mounts[m] /\ ~IsPrefix(p, m)
  BY <1>5 DEF IsMounted
<1>9. \A q \in DOMAIN host : q \in Seq(Names)
  BY <1>1, FilesAreNamed
<1>10. PICK after : after = mounts'
  OBVIOUS
<1>11. mount.type = "bind" <=> exports[p] # Tmpfs
  BY <1>4 DEF MountFor, BindOf, B!NewBind, B!NewTmpfs
<1>12. ASSUME NEW q \in Seq(Names)
       PROVE  OnHost(after, q) <=> IF IsPrefix(p, q) THEN mount.type = "bind"
                                   ELSE OnHost(mounts, q)
  <2>0. Takes(mounts, after, p, q)
    <3>1. DOMAIN after = DOMAIN mounts \cup {p}
      BY <1>8, <1>10
    <3> QED  BY <1>3, <1>7, <3>1, OwnerAfterMount
  <2>1. CASE IsPrefix(p, q)
    <3>1. OwnerIn(after, q) = p
      BY <1>8, <2>0, <2>1 DEF Takes
    <3> QED  BY <1>8, <1>10, <2>1, <3>1 DEF OnHost
  <2>2. CASE ~IsPrefix(p, q)
    <3>1. OwnerIn(after, q) = OwnerIn(mounts, q) /\ OwnerIn(after, q) # p
      BY <2>0, <2>2 DEF Takes
    <3>2. OwnerIn(mounts, q) \in DOMAIN mounts
      BY <1>7, OwnerIs DEF IsDeepest
    <3> QED  BY <1>8, <1>10, <2>2, <3>1, <3>2 DEF OnHost
  <2> QED  BY <2>1, <2>2
<1>13. MountsAre(after, done \cup {p})
  <2>1. <<>> \in DOMAIN after
    BY <1>7, <1>8, <1>10
  <2>2. ASSUME NEW m \in DOMAIN after PROVE IsMount(after, done \cup {p}, m)
    <3>1. CASE m = p
      <4>1. after[p] = mount
        BY <1>8, <1>10
      <4> QED  BY <1>4, <1>5, <3>1, <4>1 DEF IsMount, MountFor, Binds, Tmpfs, ReadOnly, ReadWrite
    <3>2. CASE m # p
      <4>1. m \in DOMAIN mounts /\ after[m] = mounts[m]
        BY <1>8, <1>10, <2>2, <3>2
      <4>2. IsMount(mounts, done, m)
        BY <1>1, <4>1 DEF MountsAre
      <4> QED  BY <4>1, <4>2 DEF IsMount
    <3> QED  BY <3>1, <3>2
  <2>3. ASSUME NEW q \in done
        PROVE  /\ Binds(q) => q \in DOMAIN after /\ after[q] = BindOf(q)
               /\ exports[q] = Tmpfs => ~OnHost(after, q)
    <3>1. ~IsPrefix(p, q) /\ q # p
      BY <1>2, <2>3 DEF IsNext
    <3>2. q \in Seq(Names)
      BY <1>1, <2>3, MentionedIs DEF IsMentioned
    <3>3. OnHost(after, q) <=> OnHost(mounts, q)
      BY <1>12, <3>1, <3>2
    <3>4. Binds(q) => q \in DOMAIN mounts /\ mounts[q] = BindOf(q)
      BY <1>1, <2>3 DEF MountsAre
    <3>5. exports[q] = Tmpfs => ~OnHost(mounts, q)
      BY <1>1, <2>3 DEF MountsAre
    <3> QED  BY <1>8, <1>10, <3>1, <3>3, <3>4, <3>5
  <2>4. Binds(p) => p \in DOMAIN after /\ after[p] = BindOf(p)
    BY <1>4, <1>8, <1>10 DEF MountFor, Binds, Tmpfs, ReadOnly, ReadWrite
  <2>5. exports[p] = Tmpfs => ~OnHost(after, p)
    BY <1>3, <1>11, <1>12, IsOwnPrefix
  <2> QED  BY <2>1, <2>2, <2>3, <2>4, <2>5 DEF MountsAre
<1>14. \A q : IsNeeded(q, p) <=> q \in Seq(Names) /\ IsPrefix(q, p)
  BY <1>5 DEF IsNeeded
<1>15. ASSUME NEW q \in DOMAIN host
       PROVE  q \in DOMAIN newroot' <=> Made(done \cup {p}, q) \/ OnHost(after, q)
  <2>1. q \in Seq(Names)
    BY <1>9
  <2>2. Made(done \cup {p}, q) <=> Made(done, q) \/ IsPrefix(q, p)
    BY <1>3, MadeMore
  <2>3. q \in DOMAIN newroot' <=> IF IsPrefix(p, q) THEN mount.type = "bind" \/ q = p
                                  ELSE q \in DOMAIN t
    BY <1>5 DEF IsMounted
  <2>4. CASE IsPrefix(p, q)
    <3>1. OnHost(after, q) <=> mount.type = "bind"
      BY <1>12, <2>1, <2>4
    <3>2. IsPrefix(q, p) <=> q = p
      <4>1. IsPrefix(q, p) => Len(q) = Len(p)
        BY <1>3, <2>1, <2>4 DEF IsPrefix
      <4>2. IsPrefix(q, p) => q = p
        BY <1>3, <2>1, <4>1, PrefixIs
      <4> QED  BY <1>3, <4>2, IsOwnPrefix
    <3>3. Made(done, q) => q = p
      <4>1. q = <<>> => q = p
        <5>1. IsPrefix(<<>>, p)
          BY <1>3, RootIsPrefix
        <5> QED  BY <3>2, <5>1
      <4>2. ASSUME NEW r \in done, IsPrefix(q, r) PROVE FALSE
        <5>1. r \in Seq(Names)
          BY <1>1, <4>2, MentionedIs DEF IsMentioned
        <5>2. IsPrefix(p, r)
          BY <1>3, <2>1, <2>4, <4>2, <5>1, PrefixOfPrefix
        <5> QED  BY <1>2, <4>2, <5>2 DEF IsNext
      <4> QED  BY <4>1, <4>2 DEF Made
    <3> QED  BY <2>2, <2>3, <2>4, <3>1, <3>2, <3>3
  <2>5. CASE ~IsPrefix(p, q)
    <3>1. OnHost(after, q) <=> OnHost(mounts, q)
      BY <1>12, <2>1, <2>5
    <3>2. q \in DOMAIN t <=> q \in DOMAIN newroot \/ IsPrefix(q, p)
      BY <1>6, <1>14, <2>1 DEF IsPrepared
    <3>3. q \in DOMAIN newroot <=> Made(done, q) \/ OnHost(mounts, q)
      BY <1>1 DEF RootIs
    <3> QED  BY <2>2, <2>3, <2>5, <3>1, <3>2, <3>3
  <2> QED  BY <2>4, <2>5
<1>16. \A q \in DOMAIN newroot' : q \in DOMAIN host
  BY <1>5 DEF IsMounted
<1>17. ASSUME NEW q \in DOMAIN newroot' PROVE Looks(newroot', after, q)
  <2>1. q \in DOMAIN host /\ q \in Seq(Names)
    BY <1>9, <1>16
  <2>2. newroot'[q] = IF ~IsPrefix(p, q) THEN t[q]
                      ELSE IF mount.type = "bind" THEN host[q] ELSE B!Directory
    BY <1>5 DEF IsMounted
  <2>3. OnHost(after, q) <=> IF IsPrefix(p, q) THEN mount.type = "bind" ELSE OnHost(mounts, q)
    BY <1>12, <2>1
  <2>4. CASE IsPrefix(p, q) /\ mount.type = "bind"
    BY <2>2, <2>3, <2>4 DEF Looks
  <2>5. CASE IsPrefix(p, q) /\ mount.type # "bind"
    <3>1. q = p
      BY <1>5, <2>1, <2>5 DEF IsMounted
    <3>2. exports[p] = Tmpfs
      BY <1>11, <2>5
    <3>3. p \in Dirs(host)
      BY <1>2, <3>2 DEF IsMentioned
    <3> QED  BY <1>5, <2>2, <2>3, <2>5, <3>1, <3>3 DEF Looks, Dirs, B!Directory
  <2>6. CASE ~IsPrefix(p, q) /\ q \in DOMAIN newroot
    <3>1. newroot'[q] = newroot[q]
      BY <1>6, <2>2, <2>6 DEF IsPrepared
    <3>2. Looks(newroot, mounts, q)
      BY <1>1, <2>6 DEF RootIs
    <3> QED  BY <2>3, <2>6, <3>1, <3>2 DEF Looks
  <2>7. CASE ~IsPrefix(p, q) /\ q \notin DOMAIN newroot
    <3>1. q \in DOMAIN t
      BY <1>5, <2>1, <2>7 DEF IsMounted
    <3>2. q # p
      BY <1>3, <2>7, IsOwnPrefix
    <3>3. q \notin LinkNames(host) /\ q \in Dirs(host) /\ t[q] = B!Directory
      BY <1>6, <2>7, <3>1, <3>2 DEF IsPrepared
    <3>4. ~OnHost(mounts, q)
      BY <1>1, <2>1, <2>7 DEF RootIs
    <3> QED  BY <2>2, <2>3, <2>7, <3>3, <3>4 DEF Looks, Dirs, B!Directory
  <2> QED  BY <2>4, <2>5, <2>6, <2>7
<1>18. RootIs(newroot', after, done \cup {p})
  <2>1. DOMAIN newroot' = {q \in DOMAIN host : Made(done \cup {p}, q) \/ OnHost(after, q)}
    BY <1>15, <1>16
  <2> QED  BY <1>17, <2>1 DEF RootIs
<1> QED  BY <1>10, <1>13, <1>18 DEF Built

-----------------------------------------------------------------------------
(* The steps of both together.                                              *)
LEMMA IsSettled ==
    ASSUME ExportsParameters, ExportsInv, IsPlain
    PROVE  Settled
<1>1. Plain /\ TableInv /\ host \in Hosts
  BY PlainHost DEF ExportsInv
<1>2. \A p \in DOMAIN exports : IsAsked(p)
  BY <1>1 DEF TableInv
<1>3. \A w \in granted : w.mode \in ModeSet
  BY <1>1 DEF TableInv, Enough, IsWish
<1>4. ASSUME NEW p \in DOMAIN exports PROVE Listed(p)
  <2>1. IsAsked(p)
    BY <1>2
  <2>2. p \in DOMAIN host
    BY <2>1 DEF IsAsked
  <2>3. CASE p \in LinkNames(host)
    BY <2>1, <2>2, <2>3 DEF IsAsked, LinkNames, Listed
  <2>4. CASE p \notin LinkNames(host)
    <3>1. ~IsReserved(p) /\ \E w \in granted : w.mode = exports[p]
      BY <2>1, <2>2, <2>4 DEF IsAsked, LinkNames
    <3> QED  BY <1>3, <2>2, <2>4, <3>1 DEF Listed
  <2> QED  BY <2>3, <2>4
<1>5. IsFiniteSet(DOMAIN host) /\ DOMAIN host \subseteq Seq(DOMAIN Order) /\ Ordered
  BY <1>1 DEF ExportsParameters, Ordered, FileSystem
<1>6. Mentioned \subseteq DOMAIN host
  BY <1>4 DEF Mentioned, Listed
<1>7. Sortable
  <2>1. IsFiniteSet(Mentioned)
    BY <1>5, <1>6, FS_Subset
  <2> QED  BY <1>5, <1>6, <2>1 DEF Sortable
<1> QED  BY <1>1, <1>4, <1>7 DEF Settled

Unused ==
    /\ ops = <<>> /\ newroot = [p \in {<<>>} |-> B!Directory]
    /\ mounts = [p \in {<<>>} |-> B!NewTmpfs]

BoxInv ==
    /\ stage # "done" => Unused
    /\ IsPlain => outcome = "running" /\ (stage = "done" => Building(Mentioned \ Left(ops)))

\* As the table and the host do not change, it makes no difference when one asks.
LEMMA SameTable ==
    ASSUME host' = host, exports' = exports
    PROVE  /\ IsPlain' = IsPlain /\ Mentioned' = Mentioned /\ Settled' = Settled
           /\ \A args : InOrder(args)' = InOrder(args)
           /\ \A table, done : MountsAre(table, done)' = MountsAre(table, done)
           /\ \A root, table, done : RootIs(root, table, done)' = RootIs(root, table, done)
<1>1. IsPlain' = IsPlain
  BY DEF IsPlain, TmpIsLink, IsSymlink
<1>2. \A p : ParentIsMapped(p)' = ParentIsMapped(p) /\ IsDir(p)' = IsDir(p)
             /\ IsSymlink(p)' = IsSymlink(p) /\ ResolveLink(p)' = ResolveLink(p)
  BY DEF ParentIsMapped, Covering, IsDir, IsSymlink, ResolveLink
<1>3. \A p : HasArgument(p)' = HasArgument(p) /\ ArgumentFor(p)' = ArgumentFor(p)
  BY <1>2 DEF HasArgument, ArgumentFor
<1>4. Mentioned' = Mentioned
  BY <1>3 DEF Mentioned
<1>5. Plain' = Plain
  BY <1>2 DEF Plain
<1>6. Sortable' = Sortable
  BY <1>4 DEF Sortable
<1>7. Settled' = Settled
  BY <1>5, <1>6 DEF Settled, Listed
<1>8. \A args : InOrder(args)' = InOrder(args)
  BY <1>3, <1>4 DEF InOrder
<1>9. \A table, done : MountsAre(table, done)' = MountsAre(table, done)
  BY DEF MountsAre, IsMount, Binds, BindOf
<1>10. \A root, table, done : RootIs(root, table, done)' = RootIs(root, table, done)
  BY <1>2 DEF RootIs, Looks, Rewritten
<1> QED  BY <1>1, <1>4, <1>7, <1>8, <1>9, <1>10

LEMMA BuildsNext ==
    ASSUME NEW done, Building(done), B!Next, host' = host, exports' = exports
    PROVE  Building(Mentioned \ Left(ops))' /\ outcome' = outcome
<1>1. ops # <<>>
  BY DEF B!Next, B!Fail, B!MakeDir, B!MakeTmpfs, B!BindReadOnly, B!BindWritable, B!MakeSymlink,
         B!Do, B!Running
<1>2. PICK p : p = B!Op.dest
  OBVIOUS
<1>3. ~B!Fail
  BY <1>1, <1>2, PossibleIs DEF B!Fail, IsPossible
<1>4. outcome' = outcome /\ ops' = Tail(ops)
  BY <1>3 DEF B!Next, B!MakeDir, B!MakeTmpfs, B!BindReadOnly, B!BindWritable, B!MakeSymlink, B!Do
<1>5. Built(p, done)
  BY <1>1, <1>2, <1>3, BuildsDir, BuildsLink, BuildsMount DEF B!Next
<1>6. Settled /\ done = Mentioned \ Left(ops) /\ InOrder(ops)
  BY DEF Building
<1>7. IsNext(p, done, ops)
  BY <1>1, <1>2, <1>6, NextIs DEF B!Op
<1>8. PICK rest, table, root, more :
         rest = ops' /\ table = mounts' /\ root = newroot' /\ more = done \cup {p}
  OBVIOUS
<1>9. InOrder(rest) /\ Mentioned \ Left(rest) = more
  BY <1>4, <1>7, <1>8 DEF IsNext
<1>10. MountsAre(table, more) /\ RootIs(root, table, more)
  BY <1>5, <1>8 DEF Built
<1>11. Settled' /\ Mentioned' = Mentioned /\ InOrder(rest)' /\ MountsAre(table, more)'
       /\ RootIs(root, table, more)'
  BY <1>6, <1>9, <1>10, SameTable
<1>12. (Mentioned \ Left(ops))' = more
  BY <1>8, <1>9, <1>11 DEF Left
<1>13. Building(more)'
  <2>1. InOrder(ops)' /\ MountsAre(mounts, more)' /\ RootIs(newroot, mounts, more)'
    <3>1. InOrder(ops)'
      BY <1>8, <1>11 DEF InOrder, Left
    <3>2. MountsAre(mounts, more)'
      BY <1>8, <1>11 DEF MountsAre
    <3>3. RootIs(newroot, mounts, more)'
      BY <1>8, <1>11 DEF RootIs, Looks
    <3> QED  BY <3>1, <3>2, <3>3
  <2>2. more = (Mentioned \ Left(ops))'
    BY <1>12
  <2> QED  BY <1>11, <2>1, <2>2 DEF Building
<1>14. PICK all : all = (Mentioned \ Left(ops))'
  OBVIOUS
<1>15. Building(all)'
  BY <1>12, <1>13, <1>14
<1> QED  BY <1>4, <1>14, <1>15 DEF Building

LEMMA BuildsFirst ==
    ASSUME Settled, Unused, Start
    PROVE  Building(Mentioned \ Left(ops))'
<1>1. host' = host /\ exports' = exports /\ ops' = BwrapArguments /\ newroot' = newroot
      /\ mounts' = mounts
  BY DEF Start
<1>2. PICK args, table, root : args = BwrapArguments /\ table = mounts /\ root = newroot
  OBVIOUS
<1>3. InOrder(args) /\ Left(args) = Mentioned
  BY <1>2, AllInOrder DEF Settled
<1>4. table = [q \in {<<>>} |-> B!NewTmpfs] /\ root = [q \in {<<>>} |-> B!Directory]
  BY <1>2 DEF Unused
<1>5. DOMAIN table \in SUBSET Seq(Names) /\ <<>> \in DOMAIN table
  <2>1. DOMAIN table = {<<>>} /\ <<>> \in Seq(Names)
    BY <1>4
  <2> QED  BY <2>1
<1>6. \A q \in Seq(Names) : ~OnHost(table, q)
  <2> TAKE q \in Seq(Names)
  <2>1. OwnerIn(table, q) \in DOMAIN table
    BY <1>5, OwnerIs DEF IsDeepest
  <2>2. table[OwnerIn(table, q)] = B!NewTmpfs
    BY <1>4, <2>1
  <2> QED  BY <2>2 DEF OnHost, B!NewTmpfs
<1>7. MountsAre(table, {})
  BY <1>4 DEF MountsAre, IsMount
<1>8. RootIs(root, table, {})
  <2>1. FileSystem(host) /\ Plain
    BY DEF Settled, Plain
  <2>2. \A q \in DOMAIN host : q \in Seq(Names)
    BY <2>1, FilesAreNamed
  <2>3. <<>> \in Dirs(host) /\ <<>> \in DOMAIN host /\ <<>> \notin LinkNames(host)
    BY <2>1 DEF FileSystem, Dirs, LinkNames
  <2>4. \A q : Made({}, q) <=> q = <<>>
    BY DEF Made
  <2>5. DOMAIN root = {q \in DOMAIN host : Made({}, q) \/ OnHost(table, q)}
    BY <1>4, <1>6, <2>2, <2>3, <2>4
  <2>6. Looks(root, table, <<>>)
    <3>1. ~OnHost(table, <<>>)
      BY <1>6, <2>2, <2>3
    <3>2. root[<<>>] = B!Directory
      BY <1>4
    <3> QED  BY <2>3, <3>1, <3>2 DEF Looks, B!Directory, Dirs
  <2>7. \A q \in DOMAIN root : Looks(root, table, q)
    BY <1>4, <2>6
  <2> QED  BY <2>5, <2>7 DEF RootIs
<1>9. PICK none : none = {}
  OBVIOUS
<1>10. MountsAre(table, none) /\ RootIs(root, table, none)
  BY <1>7, <1>8, <1>9
<1>11. Settled' /\ Mentioned' = Mentioned /\ InOrder(args)' /\ MountsAre(table, none)'
       /\ RootIs(root, table, none)'
  BY <1>1, <1>3, <1>10, SameTable
<1>12. (Mentioned \ Left(ops))' = none
  BY <1>1, <1>2, <1>3, <1>9, <1>11 DEF Left
<1>13. InOrder(ops)' /\ MountsAre(mounts, none)' /\ RootIs(newroot, mounts, none)'
  BY <1>1, <1>2, <1>11 DEF InOrder, Left, MountsAre, IsMount, RootIs, Looks
<1> QED  BY <1>11, <1>12, <1>13 DEF Building

LEMMA BoxStarts == ASSUME BoxInit PROVE BoxInv
BY DEF BoxInit, ExportsInit, B!Init, BoxInv, Unused

LEMMA BoxStep ==
    ASSUME ExportsParameters, ExportsInv, BoxInv, [BoxNext]_boxVars
    PROVE  BoxInv'
<1>1. CASE Collect
  <2>1. stage # "done" /\ stage' # "done" /\ host' = host
    BY <1>1 DEF Collect, Ask, Refuse, ExposeTarget, Expose
  <2>2. UNCHANGED wrapVars
    BY <1>1 DEF Collect
  <2>3. IsPlain' = IsPlain
    BY <2>1 DEF IsPlain, TmpIsLink, IsSymlink
  <2> QED  BY <2>1, <2>2, <2>3 DEF BoxInv, Unused, wrapVars
<1>2. CASE Start
  <2>1. stage = "idle" /\ stage' = "done" /\ host' = host /\ exports' = exports
        /\ outcome' = outcome /\ Unused
    BY <1>2 DEF Start, BoxInv
  <2>2. IsPlain' = IsPlain
    BY <2>1, SameTable
  <2>3. IsPlain => Building(Mentioned \ Left(ops))'
    BY <1>2, <2>1, IsSettled, BuildsFirst
  <2> QED  BY <2>1, <2>2, <2>3 DEF BoxInv
<1>3. CASE SetUp
  <2>1. B!Next /\ host' = host /\ exports' = exports /\ stage' = stage
    BY <1>3 DEF SetUp, exportVars
  <2>2. ops # <<>>
    BY <2>1 DEF B!Next, B!Fail, B!MakeDir, B!MakeTmpfs, B!BindReadOnly, B!BindWritable,
                B!MakeSymlink, B!Do, B!Running
  <2>3. stage = "done"
    BY <2>2 DEF BoxInv, Unused
  <2>4. IsPlain' = IsPlain
    BY <2>1, SameTable
  <2>5. ASSUME IsPlain PROVE Building(Mentioned \ Left(ops))' /\ outcome' = outcome
    <3>1. PICK done : done = Mentioned \ Left(ops)
      OBVIOUS
    <3>2. Building(done)
      BY <2>3, <2>5, <3>1 DEF BoxInv
    <3> QED  BY <2>1, <3>2, BuildsNext
  <2> QED  BY <2>1, <2>3, <2>4, <2>5 DEF BoxInv
<1>4. CASE UNCHANGED boxVars
  <2>1. host' = host /\ exports' = exports /\ stage' = stage /\ ops' = ops /\ mounts' = mounts
        /\ newroot' = newroot /\ outcome' = outcome
    BY <1>4 DEF boxVars, exportVars, wrapVars
  <2>2. IsPlain' = IsPlain /\ Mentioned' = Mentioned /\ Settled' = Settled
    BY <2>1, SameTable
  <2>3. Unused' = Unused
    BY <2>1 DEF Unused
  <2>4. ASSUME Building(Mentioned \ Left(ops)) PROVE Building(Mentioned \ Left(ops))'
    <3>1. PICK args, table, root, done :
             args = ops /\ table = mounts /\ root = newroot /\ done = Mentioned \ Left(ops)
      OBVIOUS
    <3>2. Settled /\ InOrder(args) /\ MountsAre(table, done) /\ RootIs(root, table, done)
      BY <2>4, <3>1 DEF Building
    <3>3. InOrder(args)' /\ MountsAre(table, done)' /\ RootIs(root, table, done)'
      BY <2>1, <3>2, SameTable
    <3>4. args = ops' /\ table = mounts' /\ root = newroot'
      BY <2>1, <3>1
    <3>5. InOrder(ops)' /\ MountsAre(mounts, done)' /\ RootIs(newroot, mounts, done)'
      BY <3>3, <3>4 DEF InOrder, Left, MountsAre, IsMount, RootIs, Looks
    <3>6. (Mentioned \ Left(ops))' = done
      BY <2>1, <2>2, <3>1 DEF Left
    <3> QED  BY <2>2, <3>2, <3>5, <3>6 DEF Building
  <2> QED  BY <2>1, <2>2, <2>3, <2>4 DEF BoxInv
<1> QED  BY <1>1, <1>2, <1>3, <1>4 DEF BoxNext

\* In every state of a container that is set up, bubblewrap has not failed, and has
\* made of the arguments so far what the table says (bubblewrap.c, setup_newroot()).
THEOREM BoxInvariant == ASSUME ExportsParameters PROVE BoxSpec => [](ExportsInv /\ BoxInv)
<1>1. ASSUME BoxInit PROVE BoxInv
  BY <1>1, BoxStarts
<1>2. ASSUME ExportsInv, BoxInv, [BoxNext]_boxVars PROVE BoxInv'
  BY <1>2, BoxStep
<1> QED  BY <1>1, <1>2, TableInvariant, PTL DEF BoxSpec

\* Nothing is mounted where the container has its own files.
LEMMA MountsAreNotReserved ==
    ASSUME NEW done, Building(done), NEW m \in DOMAIN mounts \ {<<>>}
    PROVE  ~IsReserved(m)
<1>1. m \in done /\ exports[m] \in {Tmpfs, ReadOnly, ReadWrite} /\ Settled /\ m \in Mentioned
  BY DEF Building, MountsAre, IsMount, Binds
<1>2. IsMentioned(m)
  BY <1>1, MentionedIs
<1> QED  BY <1>1, <1>2 DEF IsMentioned, Symlink, Tmpfs, ReadOnly, ReadWrite

-----------------------------------------------------------------------------
(* The container that has been set up.                                     *)

\* All links that are needed are there.
LEMMA NewRootIsLike ==
    ASSUME Building(Mentioned)
    PROVE  Like(host, newroot, Known)
<1>1. /\ Settled /\ Plain /\ Mentioned \in SUBSET Mentioned
      /\ MountsAre(mounts, Mentioned) /\ RootIs(newroot, mounts, Mentioned)
  BY DEF Building, Settled
<1>2. Resembles(newroot)
  BY <1>1, RootResembles
<1>3. ASSUME NEW p \in Known PROVE p \in DOMAIN newroot
  <2>1. p \in DOMAIN exports /\ p \in LinkNames(host) /\ p \in DOMAIN host
    BY DEF Known, LinkNames
  <2>2. exports[p] = Symlink /\ p \in Seq(Names)
    BY <1>1, <2>1, FilesAreNamed DEF Settled, Listed
  <2>3. CASE p \in Mentioned
    <3>1. Made(Mentioned, p)
      BY <2>2, <2>3, IsOwnPrefix DEF Made
    <3> QED  BY <1>1, <2>1, <3>1 DEF RootIs
  <2>4. CASE p \notin Mentioned
    <3>1. ParentIsMapped(p)
      BY <2>1, <2>2, <2>4 DEF Mentioned, HasArgument, Tmpfs, Dir, Symlink
    <3>2. OnHost(mounts, p)
      BY <1>1, <2>1, <2>4, <3>1, ParentIsOnHost
    <3> QED  BY <1>1, <2>1, <3>2 DEF RootIs
  <2> QED  BY <2>3, <2>4
<1>4. ASSUME NEW p \in DOMAIN newroot, p \in LinkNames(host) PROVE Points(host, newroot, p)
  <2>1. Looks(newroot, mounts, p)
    BY <1>1 DEF RootIs
  <2>2. CASE OnHost(mounts, p)
    BY <2>1, <2>2 DEF Looks, Points
  <2>3. CASE ~OnHost(mounts, p)
    <3>1. newroot[p] = Rewritten(p)
      BY <1>4, <2>1, <2>3 DEF Looks
    <3>2. /\ Rewritten(p).target.absolute = FALSE
          /\ Rewritten(p).target.parts = [i \in 1 .. Len(Front(p)) |-> ".."] \o ResolveLink(p)
      BY <1>1, <1>4, RewrittenIs
    <3>3. NoFollow(host, p).file = p
      BY <1>1, <1>4, LinksAreSeen
    <3>4. ResolveLink(p) = Target(host, p)
      BY <3>3 DEF ResolveLink, Target
    <3> QED  BY <3>1, <3>2, <3>4 DEF Points, Upwards
  <2> QED  BY <2>2, <2>3
<1> QED  BY <1>2, <1>3, <1>4 DEF Like, Resembles

\* The requests that have something to say about a file.
Deciding(p) == {q \in Mentioned : IsPrefix(q, p) /\ exports[q] \in {Tmpfs, ReadOnly, ReadWrite}}

IsDecided(p) ==
    /\ OnHost(mounts, p) => /\ Deciding(p) # {} /\ Binds(Deepest(Deciding(p)))
                            /\ mounts[B!Owner(p)] = BindOf(Deepest(Deciding(p)))
                            /\ B!Source(p) = p /\ p \in DOMAIN newroot
    /\ ~OnHost(mounts, p) => Deciding(p) = {} \/ ~Binds(Deepest(Deciding(p)))
    /\ Deciding(p) # {} => /\ Deepest(Deciding(p)) \in Deciding(p)
                           /\ \A q \in Deciding(p) : /\ Len(q) <= Len(Deepest(Deciding(p)))
                                                     /\ Len(q) = Len(Deepest(Deciding(p))) =>
                                                           q = Deepest(Deciding(p))

LEMMA Decided ==
    ASSUME Building(Mentioned), NEW p \in DOMAIN host
    PROVE  IsDecided(p)
<1>1. /\ Settled /\ Plain /\ Mentioned \in SUBSET Mentioned
      /\ MountsAre(mounts, Mentioned) /\ RootIs(newroot, mounts, Mentioned)
  BY DEF Building, Settled
<1>2. p \in Seq(Names)
  BY <1>1, FilesAreNamed
<1>3. PICK C : C = Deciding(p)
  OBVIOUS
<1>4. C = {q \in Mentioned : IsPrefix(q, p) /\ exports[q] \in {Tmpfs, ReadOnly, ReadWrite}}
  BY <1>3 DEF Deciding
<1>5. /\ OnHost(mounts, p) <=> C # {} /\ Binds(Deepest(C))
      /\ OnHost(mounts, p) => OwnerIn(mounts, p) = Deepest(C)
  BY <1>1, <1>2, <1>4, OnHostIs
<1>6. C \in SUBSET Seq(Names) /\ \A q \in C : IsPrefix(q, p)
  BY <1>1, <1>4, MentionedIs DEF IsMentioned
<1>7. PICK d : d = Deepest(C)
  OBVIOUS
<1>8. C # {} => /\ d \in C
                /\ \A q \in C : Len(q) <= Len(d) /\ (Len(q) = Len(d) => q = d)
  <2> HAVE C # {}
  <2>1. (\A q \in C : q \in Seq(Names)) /\ \A q : q \in C <=> q \in C /\ IsPrefix(q, p)
    BY <1>6
  <2>2. IsDeepest(C, p, d)
    BY <1>2, <1>6, <1>7, <2>1, DeepestIs
  <2>3. d \in C /\ d \in Seq(Names) /\ IsPrefix(d, p) /\ \A q \in C : Len(q) <= Len(d)
    BY <1>6, <2>2 DEF IsDeepest
  <2>4. \A q \in C : Len(q) = Len(d) => q = d
    BY <1>2, <1>6, <2>3, PrefixOfPrefix
  <2> QED  BY <2>3, <2>4
<1>9. ASSUME OnHost(mounts, p)
      PROVE  mounts[B!Owner(p)] = BindOf(d) /\ B!Source(p) = p /\ p \in DOMAIN newroot
  <2>1. C # {} /\ Binds(d) /\ OwnerIn(mounts, p) = d /\ d \in C
    BY <1>5, <1>7, <1>8, <1>9
  <2>2. d \in Mentioned /\ IsPrefix(d, p) /\ d \in Seq(Names)
    BY <1>4, <1>6, <2>1
  <2>3. mounts[d] = BindOf(d)
    BY <1>1, <2>1, <2>2 DEF MountsAre
  <2>4. B!Owner(p) = d
    BY <2>1, SameOwner
  <2>5. BindOf(d).source = d
    BY DEF BindOf, B!NewBind
  <2>6. d \o B!After(d, p) = p
    BY <1>2, <2>2, AfterIs
  <2>7. B!Source(p) = mounts[d].source \o B!After(d, p)
    BY <2>4 DEF B!Source
  <2>8. B!Source(p) = p
    BY <2>3, <2>5, <2>6, <2>7
  <2>9. p \in DOMAIN newroot
    BY <1>1, <1>9 DEF RootIs
  <2> QED  BY <2>3, <2>4, <2>8, <2>9
<1> QED  BY <1>3, <1>5, <1>7, <1>8, <1>9 DEF IsDecided

\* What one may do with a file in the container.
ModeIn(p) == IF OnHost(mounts, p) THEN exports[Deepest(Deciding(p))] ELSE None

LEMMA SharedModeIs ==
    ASSUME Building(Mentioned), NEW p \in DOMAIN host, p \notin LinkNames(host)
    PROVE  SharedMode(p) = ModeIn(p)
<1>1. /\ Settled /\ Plain /\ Mentioned \in SUBSET Mentioned
      /\ MountsAre(mounts, Mentioned) /\ RootIs(newroot, mounts, Mentioned)
  BY DEF Building, Settled
<1>2. Resembles(newroot) /\ Resembles(host)
  <2>1. Resembles(host)
    BY <1>1 DEF Resembles, Plain
  <2> QED  BY <1>1, <2>1, RootResembles
<1>3. Sees(newroot, p) /\ Sees(host, p)
  BY <1>1, <1>2, Seen
<1>4. IsDecided(p)
  BY Decided
<1>5. PICK here, there : here = Follow(newroot, p) /\ there = Follow(host, p)
  OBVIOUS
<1>6. /\ Finds(NoFollow(host, p)) /\ Finds(there) /\ there.file = p
      /\ Finds(here) <=> p \in DOMAIN newroot
      /\ p \in DOMAIN newroot => here.file = p
  BY <1>3, <1>5 DEF Sees
<1>7. B!IsOnHost(p) = OnHost(mounts, p)
  BY SameOwner
<1>8. IsShared(p) <=> Finds(here) /\ B!IsOnHost(here.file) /\ B!Source(here.file) = p
  BY <1>5, <1>6 DEF IsShared
<1>9. IsShared(p) <=> OnHost(mounts, p)
  BY <1>4, <1>6, <1>7, <1>8 DEF IsDecided
<1>10. CASE ~OnHost(mounts, p)
  <2>1. ~IsShared(p)
    BY <1>9, <1>10
  <2> QED  BY <1>6, <1>10, <2>1 DEF SharedMode, ModeIn
<1>11. CASE OnHost(mounts, p)
  <2>1. PICK d : d = Deepest(Deciding(p))
    OBVIOUS
  <2>2. here.file = p /\ mounts[B!Owner(p)] = BindOf(d) /\ Binds(d) /\ IsShared(p)
    BY <1>4, <1>6, <1>9, <1>11, <2>1 DEF IsDecided
  <2>3. B!IsReadOnly(p) = (exports[d] = ReadOnly)
    BY <2>2 DEF B!IsReadOnly, BindOf, B!NewBind
  <2>4. SharedMode(p) = IF B!IsReadOnly(here.file) THEN ReadOnly ELSE ReadWrite
    BY <1>5, <1>6, <2>2 DEF SharedMode
  <2>5. SharedMode(p) = exports[d]
    BY <2>2, <2>3, <2>4 DEF Binds
  <2> QED  BY <1>11, <2>1, <2>5 DEF ModeIn
<1> QED  BY <1>10, <1>11

\* A request, and what the table has made of it.
IsListed(w, r) ==
    /\ r = RealPath(w) /\ w.mode \in ModeSet /\ w.path \in Seq(Components)
    /\ r \in DOMAIN exports /\ r \in DOMAIN host /\ r \in Seq(Names) /\ r \notin LinkNames(host)
    /\ exports[r] \in ModeSet /\ w.mode <= exports[r]
    /\ \E v \in granted : RealPath(v) = r /\ v.mode = exports[r]
    /\ \A v \in granted : RealPath(v) = r => v.mode <= exports[r]

LEMMA RequestIsListed ==
    ASSUME Plain, TableInv, NEW w \in granted, NEW r, r = RealPath(w)
    PROVE  IsListed(w, r)
<1>1. Enough(w) /\ \A v \in granted : v.mode \in ModeSet
  BY DEF TableInv, Enough, IsWish
<1>2. /\ r \in DOMAIN exports /\ r \in DOMAIN host /\ r \notin LinkNames(host)
      /\ w.mode \in ModeSet /\ w.path \in Seq(Components)
  BY <1>1 DEF Enough, IsWish
<1>3. r \in Seq(Names)
  BY <1>2, FilesAreNamed
<1>4. IsAsked(r) /\ host[r].kind # "link"
  BY <1>2 DEF TableInv, LinkNames
<1>5. /\ \E v \in granted : RealPath(v) = r /\ v.mode = exports[r]
      /\ \A v \in granted : RealPath(v) = r => v.mode <= exports[r]
  BY <1>4 DEF IsAsked
<1> QED  BY <1>1, <1>2, <1>3, <1>5 DEF IsListed

\* Requests have an effect if they are mentioned.
LEMMA EffectIs ==
    ASSUME Building(Mentioned), TableInv, NEW w \in granted, NEW r, r = RealPath(w),
           w.mode \in {ReadOnly, ReadWrite} \/ r \in Dirs(host)
    PROVE  /\ r \in Mentioned /\ r \in DOMAIN newroot
           /\ w.mode \in {ReadOnly, ReadWrite} => exports[r] \in {ReadOnly, ReadWrite}
           /\ w.mode # Dir => exports[r] \in {Tmpfs, ReadOnly, ReadWrite}
<1>1. Settled /\ Plain /\ RootIs(newroot, mounts, Mentioned)
  BY DEF Building, Settled
<1>2. IsListed(w, r)
  BY <1>1, RequestIsListed
<1>3. exports[r] \in ModeSet /\ w.mode \in ModeSet /\ w.mode <= exports[r]
      /\ r \in DOMAIN exports /\ r \in DOMAIN host /\ r \in Seq(Names)
  BY <1>2 DEF IsListed
<1>4. /\ w.mode \in {ReadOnly, ReadWrite} => exports[r] \in {ReadOnly, ReadWrite}
      /\ w.mode # Dir => exports[r] \in {Tmpfs, ReadOnly, ReadWrite}
  BY <1>3 DEF ModeSet, Dir, Tmpfs, ReadOnly, ReadWrite
<1>5. r \in Mentioned
  BY <1>1, <1>3, <1>4, MentionsAll
<1>6. Made(Mentioned, r)
  BY <1>3, <1>5, IsOwnPrefix DEF Made
<1> QED  BY <1>1, <1>3, <1>4, <1>5, <1>6 DEF RootIs

\* The requests that decide.
LEMMA MaxIs ==
    ASSUME NEW S, NEW m \in Int, m \in S, \A i \in S : i <= m /\ i \in Int
    PROVE  Max(S) = m
<1>1. \A i \in S : m >= i
  OBVIOUS
<1>2. PICK k : k = Max(S)
  OBVIOUS
<1>3. k \in S /\ \A i \in S : k >= i
  BY <1>1, <1>2 DEF Max
<1>4. k \in Int /\ k <= m /\ k >= m
  BY <1>3
<1> QED  BY <1>2, <1>4

LEMMA AskedModeIs ==
    ASSUME Building(Mentioned), TableInv, NEW p \in DOMAIN host
    PROVE  AskedMode(p) = ModeIn(p)
<1>1. Settled /\ Plain
  BY DEF Building, Settled
<1>2. IsDecided(p) /\ p \in Seq(Names)
  BY <1>1, Decided, FilesAreNamed
<1>3. PICK C, d, over, deepest :
         /\ C = Deciding(p) /\ d = Deepest(C)
         /\ over = {w \in granted : HasEffect(w) /\ IsPrefix(RealPath(w), p)}
         /\ deepest = {w \in over : \A v \in over : Len(RealPath(v)) <= Len(RealPath(w))}
  OBVIOUS
<1>4. AskedMode(p) = IF over = {} THEN None ELSE Max({w.mode : w \in deepest})
  BY <1>3 DEF AskedMode
<1>5. ASSUME NEW w \in over PROVE RealPath(w) \in C
  <2>1. PICK r : r = RealPath(w)
    OBVIOUS
  <2>2. w \in granted /\ HasEffect(w) /\ IsPrefix(r, p)
    BY <1>3, <2>1
  <2>3. IsListed(w, r)
    BY <1>1, <2>1, <2>2, RequestIsListed
  <2>4. w.mode # Dir /\ w.mode \in ModeSet /\ r \in DOMAIN host /\ (w.mode = Tmpfs => host[r].kind = "dir")
    BY <2>1, <2>2, <2>3 DEF HasEffect, IsListed
  <2>5. w.mode \in {ReadOnly, ReadWrite} \/ r \in Dirs(host)
    BY <2>4 DEF ModeSet, Dirs
  <2>6. r \in Mentioned /\ exports[r] \in {Tmpfs, ReadOnly, ReadWrite}
    BY <2>1, <2>2, <2>4, <2>5, EffectIs
  <2> QED  BY <1>3, <2>1, <2>2, <2>6 DEF Deciding
<1>6. ASSUME NEW q \in C PROVE \E w \in over : RealPath(w) = q /\ w.mode = exports[q]
  <2>1. q \in Mentioned /\ IsPrefix(q, p) /\ exports[q] \in {Tmpfs, ReadOnly, ReadWrite}
    BY <1>3 DEF Deciding
  <2>2. IsMentioned(q)
    BY <1>1, <2>1, MentionedIs
  <2>3. q \in DOMAIN exports /\ q \in DOMAIN host /\ q \notin LinkNames(host)
        /\ (exports[q] = Tmpfs => host[q].kind = "dir")
    BY <2>1, <2>2 DEF IsMentioned, Dirs, Tmpfs, ReadOnly, ReadWrite, Symlink
  <2>4. IsAsked(q) /\ host[q].kind # "link"
    BY <2>3 DEF TableInv, LinkNames
  <2>5. PICK w \in granted : RealPath(w) = q /\ w.mode = exports[q]
    BY <2>4 DEF IsAsked
  <2>6. HasEffect(w)
    BY <2>1, <2>3, <2>5 DEF HasEffect, Dir, Tmpfs, ReadOnly, ReadWrite
  <2> QED  BY <1>3, <2>1, <2>5, <2>6
<1>7. CASE C = {}
  <2>1. over = {}
    BY <1>5, <1>7
  <2>2. ~OnHost(mounts, p)
    BY <1>2, <1>3, <1>7 DEF IsDecided
  <2> QED  BY <1>4, <2>1, <2>2 DEF ModeIn
<1>8. CASE C # {}
  <2>1. d \in C /\ \A q \in C : Len(q) <= Len(d) /\ (Len(q) = Len(d) => q = d)
    BY <1>2, <1>3, <1>8 DEF IsDecided
  <2>2. PICK u \in over : RealPath(u) = d /\ u.mode = exports[d]
    BY <1>6, <2>1
  <2>3. d \in Mentioned /\ exports[d] \in {Tmpfs, ReadOnly, ReadWrite}
    BY <1>3, <2>1 DEF Deciding
  <2>4. u \in granted
    BY <1>3, <2>2
  <2>5. IsListed(u, d)
    BY <1>1, <2>2, <2>4, RequestIsListed
  <2>6. u \in deepest
    BY <1>3, <1>5, <2>1, <2>2
  <2>7. ASSUME NEW w \in deepest PROVE w.mode <= exports[d] /\ w.mode \in Int
    <3>1. w \in over /\ w \in granted /\ Len(RealPath(u)) <= Len(RealPath(w))
      BY <1>3, <2>2
    <3>2. PICK r : r = RealPath(w)
      OBVIOUS
    <3>3. r \in C /\ IsListed(w, r) /\ Len(d) <= Len(r)
      BY <1>1, <1>5, <2>2, <3>1, <3>2, RequestIsListed
    <3>4. r \in Seq(Names) /\ d \in Seq(Names)
      BY <2>5, <3>3 DEF IsListed
    <3>5. Len(r) \in Nat /\ Len(d) \in Nat
      BY <3>4
    <3>6. r = d
      BY <2>1, <3>3, <3>5
    <3> QED  BY <3>3, <3>6 DEF IsListed, ModeSet, Dir, Tmpfs, ReadOnly, ReadWrite
  <2>8. PICK S, m : S = {w.mode : w \in deepest} /\ m = exports[d]
    OBVIOUS
  <2>9. m \in Int /\ m \in S /\ \A i \in S : i <= m /\ i \in Int
    BY <2>2, <2>3, <2>6, <2>7, <2>8 DEF Tmpfs, ReadOnly, ReadWrite
  <2>10. AskedMode(p) = exports[d]
    <3>1. Max(S) = m
      BY <2>9, MaxIs
    <3> QED  BY <1>4, <2>2, <2>8, <3>1
  <2>11. CASE OnHost(mounts, p)
    BY <1>3, <2>10, <2>11 DEF ModeIn
  <2>12. CASE ~OnHost(mounts, p)
    <3>1. ~Binds(d)
      BY <1>2, <1>3, <1>8, <2>12 DEF IsDecided
    <3>2. exports[d] = Tmpfs
      BY <2>3, <3>1 DEF Binds
    <3> QED  BY <2>10, <2>12, <3>2 DEF ModeIn, None
  <2> QED  BY <2>11, <2>12
<1> QED  BY <1>7, <1>8

\* What was asked for is found by the same path.
IsGranted(w) ==
    /\ w.mode \in {ReadOnly, ReadWrite} => IsShared(w.path)
    /\ IsA(host, Follow(host, w.path), "dir") => IsA(newroot, Follow(newroot, w.path), "dir")

LEMMA Granted ==
    ASSUME Building(Mentioned), TableInv, NEW w \in granted
    PROVE  IsGranted(w)
<1>1. /\ Settled /\ Plain /\ Mentioned \in SUBSET Mentioned
      /\ MountsAre(mounts, Mentioned) /\ RootIs(newroot, mounts, Mentioned)
  BY DEF Building, Settled
<1>2. PICK r : r = RealPath(w)
  OBVIOUS
<1>3. Enough(w)
  BY DEF TableInv
<1>4. PICK n \in Nat : FoundAt(w, r, n)
  BY <1>2, <1>3 DEF Enough
<1>5. r \in DOMAIN host /\ r \in DOMAIN exports /\ w.path \in Seq(Components)
  BY <1>2, <1>3 DEF Enough, IsWish
<1>6. FileSystem(host) /\ SlashFree(host) /\ Known \in SUBSET LinkNames(host)
  BY <1>1 DEF Plain, Known
<1>7. Follow(host, w.path) = Opened(r, n)
  <2>1. Like(host, host, Known)
    BY <1>6, HostIsLike
  <2>2. At(host, MaxLinks, <<>>, w.path, FALSE, FALSE) = Opened(r, n)
    BY <1>4, <1>5, <2>1 DEF FoundAt
  <2> QED  BY <1>1, <1>5, <1>6, <2>2, IsAtRoot
<1>8. ASSUME r \in DOMAIN newroot PROVE Follow(newroot, w.path) = Opened(r, n)
  <2>1. Like(host, newroot, Known)
    BY NewRootIsLike
  <2>2. FileSystem(newroot) /\ SlashFree(newroot)
    BY <2>1 DEF Like
  <2>3. At(newroot, MaxLinks, <<>>, w.path, FALSE, FALSE) = Opened(r, n)
    BY <1>4, <1>8, <2>1 DEF FoundAt
  <2> QED  BY <1>1, <1>5, <2>2, <2>3, IsAtRoot
<1>9. Opened(r, n).file = r /\ Finds(Opened(r, n))
  BY DEF Opened, Finds
<1>10. PICK here, there : here = Follow(newroot, w.path) /\ there = Follow(host, w.path)
  OBVIOUS
<1>11. there.file = r /\ Finds(there)
  BY <1>7, <1>9, <1>10
<1>12. ASSUME w.mode \in {ReadOnly, ReadWrite} PROVE IsShared(w.path)
  <2>1. r \in Mentioned /\ r \in DOMAIN newroot /\ Binds(r) /\ r \in Seq(Names)
    BY <1>1, <1>2, <1>5, <1>12, EffectIs, FilesAreNamed DEF Binds
  <2>2. r \in DOMAIN mounts /\ mounts[r] = BindOf(r)
    BY <1>1, <2>1 DEF MountsAre
  <2>3. IsDeepest(DOMAIN mounts, r, r)
    <3>1. IsPrefix(r, r)
      BY <2>1, IsOwnPrefix
    <3>2. \A q \in DOMAIN mounts : IsPrefix(q, r) => Len(q) <= Len(r)
      BY DEF IsPrefix
    <3> QED  BY <2>2, <3>1, <3>2 DEF IsDeepest
  <2>4. OwnerIn(mounts, r) = r
    BY <1>1, <2>1, <2>3, MountsAreNamed, OwnerIs
  <2>5. OnHost(mounts, r)
    BY <2>2, <2>4 DEF OnHost, BindOf, B!NewBind
  <2>6. B!Source(r) = r /\ B!IsOnHost(r)
    BY <1>5, <2>5, Decided, SameOwner DEF IsDecided
  <2>7. here.file = r /\ Finds(here)
    BY <1>8, <1>9, <1>10, <2>1
  <2> QED  BY <1>10, <1>11, <2>6, <2>7 DEF IsShared
<1>13. ASSUME IsA(host, Follow(host, w.path), "dir")
       PROVE  IsA(newroot, Follow(newroot, w.path), "dir")
  <2>1. host[r].kind = "dir" /\ r \in Dirs(host)
    BY <1>5, <1>10, <1>11, <1>13 DEF IsA, Dirs
  <2>2. r \in DOMAIN newroot
    BY <1>2, <2>1, EffectIs
  <2>3. newroot[r].kind = "dir"
    BY <1>1, <2>1, <2>2 DEF RootIs, Looks
  <2>4. here.file = r /\ Finds(here)
    BY <1>8, <1>9, <1>10, <2>2
  <2> QED  BY <1>10, <2>3, <2>4 DEF IsA
<1> QED  BY <1>12, <1>13 DEF IsGranted

LEMMA NoLinkIsItself ==
    ASSUME Plain, NEW p \in DOMAIN host, IsItself(p)
    PROVE  p \notin LinkNames(host)
<1>1. /\ FileSystem(host) /\ SlashFree(host) /\ RealNames /\ MaxLinks \in Nat
      /\ <<>> \in Dirs(host) /\ FALSE \in BOOLEAN /\ p \in Seq(Components)
  BY FilesAreNamed DEF Plain, FileSystem, Dirs
<1>2. PICK found : found = At(host, MaxLinks, <<>>, p, FALSE, FALSE)
  OBVIOUS
<1>3. found.error = "opened" /\ found.file = p
  <2>1. Follow(host, p) = found
    BY <1>1, <1>2, IsAtRoot
  <2> QED  BY <2>1 DEF IsItself, Finds
<1>4. IsFinal(host, FALSE, found.file)
  BY <1>1, <1>2, <1>3, FoundExists
<1> QED  BY <1>3, <1>4 DEF IsFinal, LinkNames

LEMMA FinishedIsBuilt ==
    ASSUME BoxInv, IsPlain, Finished
    PROVE  Building(Mentioned)
<1>1. stage = "done" /\ ops = <<>>
  BY DEF Finished
<1>2. Left(ops) = {}
  BY <1>1 DEF Left
<1>3. Mentioned \ Left(ops) = Mentioned
  BY <1>2
<1> QED  BY <1>1, <1>3 DEF BoxInv

LEMMA BoxIsAsAsked ==
    ASSUME ExportsParameters, ExportsInv, BoxInv
    PROVE  ContainerAsAsked
<1>1. SUFFICES ASSUME IsPlain
               PROVE  /\ outcome = "running"
                      /\ \A m \in DOMAIN mounts \ {<<>>} : ~IsReserved(m)
                      /\ Finished => /\ \A p \in DOMAIN host : IsItself(p) => SharedMode(p) = AskedMode(p)
                                     /\ \A w \in granted : IsGranted(w)
  BY DEF ContainerAsAsked, IsGranted
<1>2. outcome = "running" /\ TableInv /\ Plain
  BY <1>1, PlainHost DEF BoxInv, ExportsInv
<1>3. ASSUME NEW m \in DOMAIN mounts \ {<<>>} PROVE ~IsReserved(m)
  <2>1. stage = "done"
    BY DEF BoxInv, Unused
  <2>2. PICK done : done = Mentioned \ Left(ops)
    OBVIOUS
  <2>3. Building(done)
    BY <1>1, <2>1, <2>2 DEF BoxInv
  <2> QED  BY <2>3, MountsAreNotReserved
<1>4. ASSUME Finished
      PROVE  /\ \A p \in DOMAIN host : IsItself(p) => SharedMode(p) = AskedMode(p)
             /\ \A w \in granted : IsGranted(w)
  <2>1. Building(Mentioned)
    BY <1>1, <1>4, FinishedIsBuilt
  <2>2. ASSUME NEW p \in DOMAIN host, IsItself(p) PROVE SharedMode(p) = AskedMode(p)
    <3>1. p \notin LinkNames(host)
      BY <1>2, <2>2, NoLinkIsItself
    <3>2. SharedMode(p) = ModeIn(p) /\ AskedMode(p) = ModeIn(p)
      BY <1>2, <2>1, <3>1, SharedModeIs, AskedModeIs
    <3> QED  BY <3>2
  <2> QED  BY <1>2, <2>1, <2>2, Granted
<1> QED  BY <1>2, <1>3, <1>4

\* Whatever hosts and requests there are, the container has what was asked for
\* (flatpak-exports.c, flatpak_exports_append_bwrap_args(); bubblewrap.c,
\* setup_newroot()).
THEOREM ContainerIsAsAsked == ASSUME ExportsParameters PROVE BoxSpec => []ContainerAsAsked
<1>1. ASSUME ExportsInv, BoxInv PROVE ContainerAsAsked
  BY <1>1, BoxIsAsAsked
<1> QED  BY <1>1, BoxInvariant, PTL

-----------------------------------------------------------------------------
(* What the table says of a path before there is a container.  GetMode calls *)
(* itself, so first that there is a function like that: for each depth there *)
(* is one that is right up to it, and those agree.                          *)
Layer(mode, i) == [parts \in Seq(Components) |-> ModeStep(mode, Canonical(parts), i)]

LayersUpto(mode, n) == \A i \in 0 .. n : mode[i] = Layer(mode, i)

LEMMA SameLayer ==
    ASSUME NEW i \in Nat, NEW f, NEW g, i > 0 => f[i - 1] = g[i - 1]
    PROVE  Layer(f, i) = Layer(g, i)
<1>1. ASSUME NEW p PROVE ModeStep(f, p, i) = ModeStep(g, p, i)
  <2>1. CASE i = 0
    BY <2>1 DEF ModeStep
  <2>2. CASE i # 0
    <3>1. f[i - 1] = g[i - 1]
      BY <2>2
    <3> QED  BY <3>1 DEF ModeStep
  <2> QED  BY <2>1, <2>2
<1> QED  BY <1>1 DEF Layer

LEMMA LayersAgree ==
    ASSUME NEW n \in Nat, NEW f, LayersUpto(f, n), NEW m \in Nat, NEW g, LayersUpto(g, m),
           NEW i \in 0 .. n, i <= m
    PROVE  f[i] = g[i]
<1> DEFINE S == {j \in 0 .. i : f[j] = g[j]}
<1>1. i \in Nat
  OBVIOUS
<1>2. ASSUME NEW j \in 0 .. i, j > 0 => f[j - 1] = g[j - 1] PROVE f[j] = g[j]
  <2>1. j \in 0 .. n /\ j \in 0 .. m /\ j \in Nat
    OBVIOUS
  <2>2. Layer(f, j) = Layer(g, j)
    BY <1>2, <2>1, SameLayer
  <2> QED  BY <2>1, <2>2 DEF LayersUpto
<1>3. 0 \in S
  BY <1>2
<1>4. \A j \in 0 .. i - 1 : j \in S => j + 1 \in S
  BY <1>2
<1>5. \A j \in 0 .. i : j \in S
  <2> HIDE DEF S
  <2> QED  BY <1>1, <1>3, <1>4, Climbs
<1> QED  BY <1>5

LEMMA LayersExist == \A n \in Nat : \E f : LayersUpto(f, n)
<1> SUFFICES ASSUME NEW n \in Nat PROVE \E f : LayersUpto(f, n)
  OBVIOUS
<1> DEFINE S == {j \in 0 .. n : \E f : LayersUpto(f, j)}
           With(f, j) == [i \in Nat |-> IF i = j THEN Layer(f, j) ELSE f[i]]
<1>1. ASSUME NEW j \in 0 .. n, NEW f, \A i \in 0 .. j - 1 : f[i] = Layer(f, i)
      PROVE  LayersUpto(With(f, j), j)
  <2>1. PICK g : g = With(f, j)
    OBVIOUS
  <2>2. g[j] = Layer(f, j) /\ \A i \in 0 .. j - 1 : g[i] = f[i]
    BY <2>1
  <2>3. ASSUME NEW i \in 0 .. j PROVE Layer(f, i) = Layer(g, i)
    <3>1. i > 0 => f[i - 1] = g[i - 1]
      BY <2>2
    <3> QED  BY <3>1, SameLayer
  <2>4. ASSUME NEW i \in 0 .. j PROVE g[i] = Layer(g, i)
    BY <1>1, <2>2, <2>3
  <2> QED  BY <2>1, <2>4 DEF LayersUpto
<1>2. 0 \in S
  <2>1. PICK f : f = [i \in Nat |-> 0]
    OBVIOUS
  <2> HIDE DEF With
  <2> QED  BY <1>1
<1>3. ASSUME NEW j \in 0 .. n - 1, j \in S PROVE j + 1 \in S
  <2>1. PICK f : LayersUpto(f, j)
    BY <1>3
  <2>2. \A i \in 0 .. (j + 1) - 1 : f[i] = Layer(f, i)
    BY <2>1 DEF LayersUpto
  <2> HIDE DEF With
  <2> QED  BY <1>1, <2>2
<1>4. \A j \in 0 .. n : j \in S
  <2> HIDE DEF S
  <2> QED  BY <1>2, <1>3, Climbs
<1> QED  BY <1>4

Modes(mode) == \A i \in Nat : mode[i] = Layer(mode, i)

LEMMA GetModeIs ==
    \E mode : Modes(mode) /\ \A p, n : GetMode(p, n) = mode[n][p]
<1> DEFINE F(i) == CHOOSE f : LayersUpto(f, i)
           k == [i \in Nat |-> F(i)[i]]
<1>1. \A i \in Nat : LayersUpto(F(i), i)
  BY LayersExist
<1>2. ASSUME NEW i \in Nat PROVE k[i] = Layer(k, i)
  <2>1. k[i] = F(i)[i] /\ (i > 0 => k[i - 1] = F(i - 1)[i - 1])
    OBVIOUS
  <2> HIDE DEF k
  <2>2. F(i)[i] = Layer(F(i), i)
    <3> HIDE DEF F
    <3> QED  BY <1>1 DEF LayersUpto
  <2>3. i > 0 => F(i)[i - 1] = k[i - 1]
    <3> HAVE i > 0
    <3>1. i - 1 \in Nat /\ i - 1 \in 0 .. i /\ LayersUpto(F(i), i) /\ LayersUpto(F(i - 1), i - 1)
      <4> HIDE DEF F
      <4> QED  BY <1>1
    <3> HIDE DEF F
    <3>2. F(i)[i - 1] = F(i - 1)[i - 1]
      BY <3>1, LayersAgree
    <3> QED  BY <2>1, <3>2
  <2> HIDE DEF F
  <2>4. Layer(F(i), i) = Layer(k, i)
    BY <2>3, SameLayer
  <2> QED  BY <2>1, <2>2, <2>4
<1>3. k = [i \in Nat |-> Layer(k, i)]
  <2>1. k = [i \in Nat |-> k[i]]
    OBVIOUS
  <2> HIDE DEF k
  <2> QED  BY <1>2, <2>1
<1> DEFINE mode == CHOOSE mode : mode = [i \in Nat |-> Layer(mode, i)]
<1>4. mode = [i \in Nat |-> Layer(mode, i)]
  <2> HIDE DEF k
  <2> QED  BY <1>3
<1>5. \A p, n : GetMode(p, n) = mode[n][p]
  BY DEF GetMode, Layer
<1> HIDE DEF mode
<1>6. Modes(mode)
  BY <1>4 DEF Modes
<1> QED  BY <1>5, <1>6

-----------------------------------------------------------------------------
(* Nothing in the table is below a file, a link or what does not exist.      *)
LEMMA CoverBelow ==
    ASSUME Settled, NEW p \in Seq(Names), NEW b, Ends(host, p, Len(p), b), NEW i \in b .. Len(p)
    PROVE  Covering(Upto(p, i)) = Covering(Upto(p, b))
<1>1. Plain /\ Len(p) \in Nat /\ b \in 0 .. Len(p) /\ i \in 0 .. Len(p)
  BY DEF Settled, Ends
<1>2. PICK e, u : e = Upto(p, b) /\ u = Upto(p, i)
  OBVIOUS
<1>3. /\ e \in Seq(Names) /\ u \in Seq(Names) /\ Len(e) = b /\ Len(u) = i
      /\ IsPrefix(e, p) /\ IsPrefix(u, p)
  BY <1>1, <1>2, Uppers
<1>4. IsPrefix(e, u)
  BY <1>1, <1>3, PrefixOfPrefix
<1>5. ASSUME NEW q \in DOMAIN exports PROVE IsPrefix(q, u) <=> IsPrefix(q, e)
  <2>1. q \in DOMAIN host
    BY DEF Settled, Listed
  <2>2. q \in Seq(Names)
    BY <1>1, <2>1, FilesAreNamed
  <2>3. IsPrefix(q, e) => IsPrefix(q, u)
    BY <1>3, <1>4, <2>2, PrefixOfPrefix
  <2>4. ASSUME IsPrefix(q, u) PROVE IsPrefix(q, e)
    <3>1. IsPrefix(q, p)
      BY <1>3, <2>2, <2>4, PrefixOfPrefix
    <3>2. Len(q) \in 0 .. Len(p)
      BY <2>2, <3>1, PrefixIs
    <3>3. q = Upto(p, Len(q))
      BY <2>2, <3>1, <3>2, Uppers
    <3>4. Len(q) <= b
      BY <1>1, <2>1, <3>2, <3>3 DEF Ends
    <3> QED  BY <1>3, <2>2, <3>1, <3>4, PrefixOfPrefix
  <2> QED  BY <2>3, <2>4
<1> QED  BY <1>2, <1>5 DEF Covering

\* What is above a file is a directory, so that the table has no link for it, and an
\* argument if there is a request.
IsCovered(e) ==
    /\ \A q \in Covering(e) : /\ q \in Seq(Names) /\ IsPrefix(q, e) /\ q \in DOMAIN exports
                              /\ q = e \/ q \in Dirs(host)
                              /\ exports[q] = Symlink => q = e /\ e \in Known
    /\ Covering(e) # {} => /\ Deepest(Covering(e)) \in Covering(e)
                           /\ e \in Covering(e) => Deepest(Covering(e)) = e

LEMMA CoveringIs ==
    ASSUME Settled, NEW e \in DOMAIN host
    PROVE  IsCovered(e)
<1>1. Plain /\ FileSystem(host) /\ e \in Seq(Names)
  BY FilesAreNamed DEF Settled, Plain
<1>2. ASSUME NEW q \in Covering(e)
      PROVE  /\ q \in Seq(Names) /\ IsPrefix(q, e) /\ q \in DOMAIN exports
             /\ q = e \/ q \in Dirs(host)
             /\ exports[q] = Symlink => q = e /\ e \in Known
  <2>1. q \in DOMAIN exports /\ IsPrefix(q, e) /\ Listed(q)
    BY DEF Covering, Settled
  <2>2. q \in Seq(Names)
    BY <1>1, <2>1, FilesAreNamed DEF Listed
  <2>3. q = e \/ q \in Dirs(host)
    BY <1>1, <2>1, <2>2, StrictlyAbove
  <2>4. exports[q] = Symlink => q \in LinkNames(host)
    BY <2>1 DEF Listed, ModeSet, Symlink, Dir, Tmpfs, ReadOnly, ReadWrite
  <2>5. q \in LinkNames(host) => q \notin Dirs(host)
    BY DEF LinkNames, Dirs
  <2> QED  BY <2>1, <2>2, <2>3, <2>4, <2>5 DEF Known
<1>3. PICK C : C = Covering(e)
  OBVIOUS
<1>4. (\A q \in C : q \in Seq(Names)) /\ \A q : q \in C <=> q \in C /\ IsPrefix(q, e)
  BY <1>2, <1>3
<1>5. ASSUME C # {} PROVE Deepest(C) \in C /\ (e \in C => Deepest(C) = e)
  <2>1. IsDeepest(C, e, Deepest(C)) /\ \A d : IsDeepest(C, e, d) => d = Deepest(C)
    BY <1>1, <1>4, <1>5, DeepestIs
  <2>2. ASSUME e \in C PROVE IsDeepest(C, e, e)
    <3>1. \A q \in C : Len(q) <= Len(e)
      BY <1>1, <1>4, PrefixIs
    <3> QED  BY <1>1, <2>2, <3>1, IsOwnPrefix DEF IsDeepest
  <2> QED  BY <2>1, <2>2 DEF IsDeepest
<1> QED  BY <1>2, <1>3, <1>5 DEF IsCovered

\* A link in the table.
LEMMA KnownIsMapped ==
    ASSUME Settled, NEW e \in Known
    PROVE  IsMapped(e)
<1>1. e \in DOMAIN exports /\ e \in DOMAIN host /\ exports[e] = Symlink /\ e \in Seq(Names)
  BY FilesAreNamed DEF Known, LinkNames, Settled, Listed
<1>2. IsCovered(e)
  BY <1>1, CoveringIs
<1>3. e \in Covering(e)
  BY <1>1, IsOwnPrefix DEF Covering, Symlink, Dir
<1> QED  BY <1>1, <1>2, <1>3 DEF IsMapped, IsCovered

\* What is beyond a file, or does not exist, counts as what it would be in; what is
\* beyond a link that is in the table does not count.
MappedBeyond(e, u) ==
    /\ e \in Known => IsMapped(e)
    /\ e \notin Known => /\ IsMapped(u) = IsMapped(e)
                         /\ MappedReadOnly(u) = MappedReadOnly(e)

LEMMA MappedAsAbove ==
    ASSUME Settled, NEW p \in Seq(Names), NEW b, Ends(host, p, Len(p), b),
           NEW e, e = Upto(p, b), NEW i \in b .. Len(p)
    PROVE  MappedBeyond(e, Upto(p, i))
<1>1. PICK u : u = Upto(p, i)
  OBVIOUS
<1>2. Covering(u) = Covering(e)
  BY <1>1, CoverBelow
<1>3. e \in DOMAIN host /\ IsCovered(e)
  BY CoveringIs DEF Ends
<1>4. PICK C, d : C = Covering(e) /\ d = Deepest(C)
  OBVIOUS
<1>5. IsMapped(e) <=> C # {} /\ IF exports[d] = Symlink THEN e = d ELSE exports[d] # Tmpfs
  BY <1>4 DEF IsMapped
<1>6. IsMapped(u) <=> C # {} /\ IF exports[d] = Symlink THEN u = d ELSE exports[d] # Tmpfs
  BY <1>2, <1>4 DEF IsMapped
<1>7. e \in Known => IsMapped(e)
  BY KnownIsMapped
<1>8. ASSUME e \notin Known
      PROVE  IsMapped(u) = IsMapped(e) /\ MappedReadOnly(u) = MappedReadOnly(e)
  <2>1. C # {} => exports[d] # Symlink
    BY <1>3, <1>4, <1>8 DEF IsCovered
  <2>2. IsMapped(u) <=> IsMapped(e)
    BY <1>5, <1>6, <2>1
  <2>3. IsMapped(u) \in BOOLEAN /\ IsMapped(e) \in BOOLEAN
    BY DEF IsMapped
  <2> QED  BY <1>2, <2>2, <2>3 DEF MappedReadOnly
<1> QED  BY <1>1, <1>7, <1>8 DEF MappedBeyond

\* A request to hide a file has no effect.
Clear(e) == e \in DOMAIN exports /\ exports[e] = Tmpfs => e \in Dirs(host)

IsMappedRight(e) ==
    /\ IsMapped(e) = OnHost(mounts, e)
    /\ MappedReadOnly(e) <=> ModeIn(e) = ReadOnly
    /\ OnHost(mounts, e) => ModeIn(e) \in {ReadOnly, ReadWrite} /\ e \in DOMAIN newroot

\* What the table says is what is mounted.
LEMMA MappedIs ==
    ASSUME Building(Mentioned), NEW e \in DOMAIN host, e \notin Known, Clear(e)
    PROVE  IsMappedRight(e)
<1>1. Settled /\ Plain
  BY DEF Building, Settled
<1>2. IsCovered(e) /\ IsDecided(e)
  BY <1>1, CoveringIs, Decided
<1>3. Covering(e) \subseteq Deciding(e)
  <2> SUFFICES ASSUME NEW q \in Covering(e) PROVE q \in Deciding(e)
    OBVIOUS
  <2>1. q \in DOMAIN exports /\ IsPrefix(q, e) /\ exports[q] # Dir /\ Listed(q)
    BY <1>1 DEF Covering, Settled
  <2>2. exports[q] # Symlink /\ (q = e \/ q \in Dirs(host))
    BY <1>2 DEF IsCovered
  <2>3. exports[q] \in {Tmpfs, ReadOnly, ReadWrite}
    BY <2>1, <2>2 DEF Listed, ModeSet
  <2>4. q \in Dirs(host) \/ exports[q] \in {ReadOnly, ReadWrite}
    BY <2>1, <2>2, <2>3 DEF Clear
  <2>5. q \in Mentioned
    BY <1>1, <2>1, <2>4, MentionsAll
  <2> QED  BY <2>1, <2>3, <2>5 DEF Deciding
<1>4. Deciding(e) \subseteq Covering(e)
  BY DEF Deciding, Covering, Mentioned, Tmpfs, ReadOnly, ReadWrite, Dir
<1>5. PICK C, d : C = Covering(e) /\ C = Deciding(e) /\ d = Deepest(C)
  BY <1>3, <1>4
<1>6. C # {} => exports[d] \in {Tmpfs, ReadOnly, ReadWrite}
  BY <1>2, <1>5 DEF IsDecided, Deciding
<1>7. IsMapped(e) <=> C # {} /\ exports[d] # Tmpfs
  BY <1>5, <1>6 DEF IsMapped, Symlink, Tmpfs, ReadOnly, ReadWrite
<1>8. OnHost(mounts, e) <=> C # {} /\ Binds(d)
  BY <1>2, <1>5 DEF IsDecided
<1>9. Binds(d) => exports[d] # Tmpfs
  BY DEF Binds, Tmpfs, ReadOnly, ReadWrite
<1>10. IsMapped(e) <=> OnHost(mounts, e)
  BY <1>6, <1>7, <1>8, <1>9 DEF Binds
<1>11. OnHost(mounts, e) => ModeIn(e) = exports[d] /\ Binds(d) /\ e \in DOMAIN newroot
  BY <1>2, <1>5 DEF IsDecided, ModeIn
<1>12. MappedReadOnly(e) <=> ModeIn(e) = ReadOnly
  <2>1. CASE OnHost(mounts, e)
    BY <1>5, <1>10, <1>11, <2>1 DEF MappedReadOnly
  <2>2. CASE ~OnHost(mounts, e)
    BY <1>10, <2>2 DEF MappedReadOnly, ModeIn, None, Tmpfs, ReadOnly
  <2> QED  BY <2>1, <2>2
<1>13. IsMapped(e) \in BOOLEAN /\ OnHost(mounts, e) \in BOOLEAN
  BY DEF IsMapped, OnHost
<1> QED  BY <1>10, <1>11, <1>12, <1>13 DEF IsMappedRight, Binds

\* The links that the table has something to say about are those of the container.
LEMMA MappedLinks ==
    ASSUME Building(Mentioned), NEW u \in LinkNames(host)
    PROVE  IsMapped(u) <=> u \in DOMAIN newroot
<1>1. Settled /\ Plain /\ FileSystem(host) /\ u \in DOMAIN host /\ u \in Seq(Names)
  BY FilesAreNamed DEF Building, Settled, Plain, LinkNames
<1>2. CASE u \in Known
  <2>1. u \in DOMAIN newroot
    BY <1>2, NewRootIsLike DEF Like
  <2> QED  BY <1>1, <1>2, <2>1, KnownIsMapped
<1>3. CASE u \notin Known
  <2>1. u \notin DOMAIN exports
    BY <1>3 DEF Known
  <2>2. IsMapped(u) = OnHost(mounts, u)
    BY <1>1, <1>3, <2>1, MappedIs DEF Clear, IsMappedRight
  <2>3. u \in DOMAIN newroot <=> Made(Mentioned, u) \/ OnHost(mounts, u)
    BY <1>1 DEF Building, RootIs
  <2>4. ~Made(Mentioned, u)
    <3>1. u # <<>>
      BY <1>1 DEF FileSystem, LinkNames
    <3>2. ASSUME NEW q \in Mentioned, IsPrefix(u, q) PROVE FALSE
      <4>1. q \in DOMAIN exports /\ q \in DOMAIN host
        BY <1>1, MentionedIs DEF IsMentioned
      <4>2. u \in Dirs(host)
        BY <1>1, <2>1, <3>2, <4>1, StrictlyAbove
      <4> QED  BY <4>2 DEF Dirs, LinkNames
    <3> QED  BY <3>1, <3>2 DEF Made
  <2> QED  BY <2>2, <2>3, <2>4
<1> QED  BY <1>2, <1>3

-----------------------------------------------------------------------------
(* How a lookup ends that does not get any further than to Upto(p, b).      *)
DirsOnTheWay(t, p, b) == \A i \in 0 .. b - 1 : Upto(p, i) \in Dirs(t)

LEMMA WayOfDirs ==
    ASSUME NEW t, FileSystem(t), NEW p \in Seq(Names), NEW N \in 0 .. Len(p), NEW b, Ends(t, p, N, b)
    PROVE  DirsOnTheWay(t, p, b)
<1> SUFFICES ASSUME NEW i \in 0 .. b - 1 PROVE Upto(p, i) \in Dirs(t)
  BY DEF DirsOnTheWay
<1>1. b \in 0 .. Len(p) /\ i \in 0 .. Len(p) /\ i < b /\ Upto(p, b) \in DOMAIN t
  BY DEF Ends
<1>2. PICK q, e : q = Upto(p, i) /\ e = Upto(p, b)
  OBVIOUS
<1>3. /\ q \in Seq(Names) /\ e \in Seq(Names) /\ Len(q) = i /\ Len(e) = b
      /\ IsPrefix(q, p) /\ IsPrefix(e, p)
  BY <1>1, <1>2, Uppers
<1>4. IsPrefix(q, e) /\ q # e
  BY <1>1, <1>3, PrefixOfPrefix
<1> QED  BY <1>1, <1>2, <1>3, <1>4, StrictlyAbove

LookupEnds(t, n, p, b, e, k) ==
    /\ e \in Dirs(t) /\ b < Len(p) => At(t, n, <<>>, p, FALSE, k) = Error("missing")
    /\ t[e].kind \notin {"dir", "link"} /\ b < Len(p) =>
          At(t, n, <<>>, p, FALSE, k) = Error("not_dir")
    /\ t[e].kind = "link" /\ (~k \/ b < Len(p)) /\ n = 0 =>
          At(t, n, <<>>, p, FALSE, k) = Error("loop")

LEMMA EndsLookup ==
    ASSUME RealNames, NEW t, FileSystem(t), NEW n \in Nat, NEW k \in BOOLEAN, NEW p \in Seq(Names),
           NEW b, Ends(t, p, Len(p), b), NEW e, e = Upto(p, b)
    PROVE  LookupEnds(t, n, p, b, e, k)
<1>1. /\ Len(p) \in Nat /\ b \in 0 .. Len(p) /\ p \in Seq(Components) /\ DirsOnTheWay(t, p, b)
      /\ e \in DOMAIN t /\ FALSE \in BOOLEAN
  <2>1. Names \subseteq Components
    BY DEF Components
  <2> QED  BY <2>1, SeqMonotonic, WayOfDirs DEF Ends
<1>2. \A i \in 1 .. Len(p) : p[i] \in Names /\ p[i] \notin {".", ".."}
  BY DEF RealNames
<1>3. ASSUME NEW j \in 0 .. Len(p) - 1, Upto(p, j) \in Dirs(t)
      PROVE  /\ At(t, n, <<>>, p, FALSE, k) = At(t, n, Upto(p, j), From(p, j + 1), FALSE, k)
             /\ Len(From(p, j + 1)) = Len(p) - j
             /\ Halts(t, n, Upto(p, j), From(p, j + 1), FALSE, k, Upto(p, j + 1))
  <2>1. /\ From(p, j + 1) \in Seq(Components) /\ From(p, j + 1) # <<>>
        /\ Head(From(p, j + 1)) = p[j + 1] /\ Len(From(p, j + 1)) = Len(p) - j
        /\ Append(Upto(p, j), p[j + 1]) = Upto(p, j + 1)
    BY <1>1, Uptos
  <2>2. j \in 0 .. Len(p) /\ j + 1 \in 1 .. Len(p) /\ Upto(p, j) \in Seq(Names)
    BY <1>1, Uppers
  <2>3. At(t, n, <<>>, p, FALSE, k) = At(t, n, Upto(p, j), From(p, j + 1), FALSE, k)
    BY <1>1, <1>3, <2>2, Descends
  <2>4. Halts(t, n, Upto(p, j), From(p, j + 1), FALSE, k, Upto(p, j + 1))
    BY <1>1, <1>2, <2>1, <2>2, Stops
  <2> QED  BY <2>1, <2>3, <2>4
<1>4. ASSUME e \in Dirs(t), b < Len(p) PROVE At(t, n, <<>>, p, FALSE, k) = Error("missing")
  <2>1. b \in 0 .. Len(p) - 1 /\ b + 1 \in b + 1 .. Len(p)
    BY <1>1, <1>4
  <2>2. Upto(p, b + 1) \notin DOMAIN t
    BY <2>1 DEF Ends
  <2>3. /\ At(t, n, <<>>, p, FALSE, k) = At(t, n, Upto(p, b), From(p, b + 1), FALSE, k)
        /\ Halts(t, n, Upto(p, b), From(p, b + 1), FALSE, k, Upto(p, b + 1))
    BY <1>3, <1>4, <2>1
  <2> QED  BY ONLY <2>2, <2>3 DEF Halts
<1>5. ASSUME t[e].kind # "dir" PROVE b - 1 \in 0 .. Len(p) - 1 /\ Upto(p, b - 1) \in Dirs(t)
  <2>1. b # 0
    <3>1. Upto(p, 0) = <<>> /\ t[<<>>].kind = "dir"
      BY SubSeqEmpty DEF Upto, FileSystem
    <3> QED  BY <1>5, <3>1
  <2>2. b - 1 \in 0 .. b - 1
    BY <1>1, <2>1
  <2> QED  BY <1>1, <2>2 DEF DirsOnTheWay
<1>6. ASSUME t[e].kind # "dir"
      PROVE  /\ At(t, n, <<>>, p, FALSE, k) = At(t, n, Upto(p, b - 1), From(p, b), FALSE, k)
             /\ Len(From(p, b)) = Len(p) - b + 1
             /\ Halts(t, n, Upto(p, b - 1), From(p, b), FALSE, k, e)
  <2>1. PICK j : j = b - 1
    OBVIOUS
  <2>2. j + 1 = b /\ Len(p) - j = Len(p) - b + 1
    BY <1>1, <2>1
  <2>3. j \in 0 .. Len(p) - 1 /\ Upto(p, j) \in Dirs(t)
    BY <1>5, <1>6, <2>1
  <2>4. /\ At(t, n, <<>>, p, FALSE, k) = At(t, n, Upto(p, j), From(p, j + 1), FALSE, k)
        /\ Len(From(p, j + 1)) = Len(p) - j
        /\ Halts(t, n, Upto(p, j), From(p, j + 1), FALSE, k, Upto(p, j + 1))
    BY <1>3, <2>3
  <2>5. Upto(p, j + 1) = e
    BY <2>2
  <2> QED  BY ONLY <2>1, <2>2, <2>4, <2>5
<1>7. ASSUME t[e].kind \notin {"dir", "link"}, b < Len(p)
      PROVE  At(t, n, <<>>, p, FALSE, k) = Error("not_dir")
  <2>1. Len(From(p, b)) # 1
    <3>1. Len(p) - b + 1 # 1
      BY <1>1, <1>7
    <3> QED  BY <1>6, <1>7, <3>1
  <2> QED  BY <1>1, <1>6, <1>7, <2>1 DEF Halts
<1>8. ASSUME t[e].kind = "link", ~k \/ b < Len(p), n = 0
      PROVE  At(t, n, <<>>, p, FALSE, k) = Error("loop")
  <2>1. Len(From(p, b)) = 1 => ~k
    BY <1>1, <1>6, <1>8
  <2> QED  BY <1>1, <1>6, <1>8, <2>1 DEF Halts
<1> QED  BY <1>4, <1>7, <1>8 DEF LookupEnds

\* There is always such a b.
LEMMA HasEnd ==
    ASSUME NEW t, FileSystem(t), NEW p \in Seq(Names)
    PROVE  \E b : Ends(t, p, Len(p), b)
<1>1. Len(p) \in 0 .. Len(p)
  OBVIOUS
<1> QED  BY <1>1, Bases

LEMMA UptoOfUpto ==
    ASSUME NEW S, NEW p \in Seq(S), NEW i \in 0 .. Len(p), NEW j \in 0 .. i
    PROVE  Upto(Upto(p, i), j) = Upto(p, j)
<1>1. i \in Nat /\ j \in Nat /\ j \in 0 .. Len(p)
  OBVIOUS
<1>2. PICK u : u = Upto(p, i)
  OBVIOUS
<1>3. u \in Seq(S) /\ Len(u) = i /\ \A l \in 1 .. i : u[l] = p[l]
  BY <1>2, Uppers
<1>4. j \in 0 .. Len(u)
  BY <1>3
<1>5. /\ Upto(u, j) \in Seq(S) /\ Len(Upto(u, j)) = j
      /\ \A l \in 1 .. j : Upto(u, j)[l] = u[l]
  BY <1>3, <1>4, Uppers
<1>6. Upto(p, j) \in Seq(S) /\ Len(Upto(p, j)) = j /\ \A l \in 1 .. j : Upto(p, j)[l] = p[l]
  BY <1>1, Uppers
<1>7. \A l \in 1 .. j : Upto(u, j)[l] = Upto(p, j)[l]
  BY <1>3, <1>5, <1>6
<1> QED  BY <1>2, <1>5, <1>6, <1>7, SeqEqual

LEMMA SymlinksAreLinks ==
    ASSUME Plain, NEW u \in DOMAIN host
    PROVE  Finds(NoFollow(host, u)) /\ (IsSymlink(u) <=> u \in LinkNames(host))
<1>1. Resembles(host)
  BY DEF Resembles, Plain
<1>2. Finds(NoFollow(host, u)) /\ NoFollow(host, u).file = u
  BY <1>1, Seen DEF Sees
<1> QED  BY <1>2 DEF IsSymlink, IsA, LinkNames

-----------------------------------------------------------------------------
(* What GetMode does, depending on where the path ends or has a link.       *)
ModeOf(f) == IF f # <<>> /\ ~IsMapped(f) THEN None ELSE ModeFor(f)

StepIs(mode, p, n, b, e) ==
    /\ e \in LinkNames(host) /\ IsMapped(e) =>
          ModeStep(mode, p, n)
            = IF n = 0 THEN None ELSE mode[n - 1][ResolveLink(e) \o From(p, b + 1)]
    /\ e \in LinkNames(host) /\ ~IsMapped(e) => ModeStep(mode, p, n) = None
    /\ e \notin LinkNames(host) /\ b = Len(p) => ModeStep(mode, p, n) = ModeOf(p)
    /\ e \notin LinkNames(host) /\ b < Len(p) =>
          ModeStep(mode, p, n)
            = IF e \in Dirs(host) /\ b + 1 = Len(p) /\ IsMapped(e) /\ ~MappedReadOnly(e)
              THEN ReadWrite ELSE None

LEMMA ModeStepIs ==
    ASSUME Settled, NEW mode, NEW n \in Nat, NEW p \in Seq(Names),
           NEW b, Ends(host, p, Len(p), b), NEW e, e = Upto(p, b)
    PROVE  StepIs(mode, p, n, b, e)
<1>1. /\ Plain /\ FileSystem(host) /\ Len(p) \in Nat /\ b \in 0 .. Len(p) /\ e \in DOMAIN host
      /\ Upto(p, Len(p)) = p /\ DirsOnTheWay(host, p, b)
  BY SubSeqFull, WayOfDirs DEF Settled, Plain, Ends, Upto
<1>2. Breaks(p) \in SUBSET (1 .. Len(p))
  BY DEF Breaks
<1>3. ASSUME NEW i \in 1 .. b
      PROVE  i \in Breaks(p) <=> i = b /\ e \in LinkNames(host) /\ IsMapped(e)
  <2>1. i \in 1 .. Len(p) /\ i \in 0 .. b /\ Upto(p, i) \in DOMAIN host
    BY <1>1 DEF Ends
  <2>2. Finds(NoFollow(host, Upto(p, i))) /\ (IsSymlink(Upto(p, i)) <=> Upto(p, i) \in LinkNames(host))
    BY <1>1, <2>1, SymlinksAreLinks
  <2>3. Upto(p, i) \in LinkNames(host) => i = b
    <3>1. i # b => i \in 0 .. b - 1
      BY <1>1
    <3> QED  BY <1>1, <3>1 DEF DirsOnTheWay, Dirs, LinkNames
  <2> QED  BY <2>1, <2>2, <2>3 DEF Breaks
<1>4. e \notin Known => \A i \in b .. Len(p) : /\ IsMapped(Upto(p, i)) = IsMapped(e)
                                             /\ MappedReadOnly(Upto(p, i)) = MappedReadOnly(e)
  BY MappedAsAbove DEF MappedBeyond
<1>5. e \notin Known => IsMapped(p) = IsMapped(e) /\ MappedReadOnly(p) = MappedReadOnly(e)
  <2>1. Len(p) \in b .. Len(p)
    BY <1>1
  <2> QED  BY <1>1, <1>4, <2>1
<1>6. e \in LinkNames(host) => b \in 1 .. Len(p)
  <2>1. Upto(p, 0) = <<>> /\ host[<<>>].kind = "dir"
    BY <1>1, SubSeqEmpty DEF Upto, FileSystem
  <2> QED  BY <1>1, <2>1 DEF LinkNames
<1>7. ASSUME e \in LinkNames(host), IsMapped(e)
      PROVE  ModeStep(mode, p, n)
               = IF n = 0 THEN None ELSE mode[n - 1][ResolveLink(e) \o From(p, b + 1)]
  <2>1. b \in Breaks(p) /\ \A i \in Breaks(p) : b <= i
    <3>1. b \in 1 .. b /\ \A i \in 1 .. Len(p) : i \in 1 .. b \/ b <= i
      BY <1>6, <1>7
    <3> QED  BY <1>2, <1>3, <1>7, <3>1
  <2>2. b = Min(Breaks(p))
    <3>1. \A i \in Breaks(p) : i \in Int
      BY <1>2
    <3>2. \A i \in Breaks(p) : (\A j \in Breaks(p) : i <= j) => i = b
      BY <1>1, <2>1, <3>1
    <3> QED  BY <2>1, <3>2 DEF Min
  <2>3. IsSymlink(Upto(p, b))
    BY <1>1, <1>7, SymlinksAreLinks
  <2> QED  BY <2>1, <2>2, <2>3 DEF ModeStep
<1>8. ASSUME e \in LinkNames(host), ~IsMapped(e) PROVE ModeStep(mode, p, n) = None
  <2>1. e \notin Known
    BY <1>8, KnownIsMapped
  <2>2. Breaks(p) = {}
    <3>1. \A i \in 1 .. Len(p) : i \in 1 .. b \/ i \in b .. Len(p)
      BY <1>1
    <3>2. \A i \in b .. Len(p) : i \notin Breaks(p)
      BY <1>4, <1>8, <2>1 DEF Breaks
    <3> QED  BY <1>2, <1>3, <1>8, <3>1, <3>2
  <2>3. p # <<>> /\ ~IsMapped(p)
    BY <1>5, <1>6, <1>8, <2>1
  <2> QED  BY <2>2, <2>3 DEF ModeStep
<1>9. ASSUME e \notin LinkNames(host), b = Len(p) PROVE ModeStep(mode, p, n) = ModeOf(p)
  <2>1. Breaks(p) = {}
    BY <1>2, <1>3, <1>9
  <2> QED  BY <2>1 DEF ModeStep, ModeOf
<1>10. ASSUME e \notin LinkNames(host), b < Len(p)
       PROVE  ModeStep(mode, p, n)
                = IF e \in Dirs(host) /\ b + 1 = Len(p) /\ IsMapped(e) /\ ~MappedReadOnly(e)
                  THEN ReadWrite ELSE None
  <2>1. e \notin Known /\ p # <<>>
    BY <1>1, <1>10 DEF Known
  <2>2. CASE ~IsMapped(e)
    <3>1. Breaks(p) = {}
      <4>1. \A i \in 1 .. Len(p) : i \in 1 .. b \/ i \in b .. Len(p)
        BY <1>1
      <4>2. \A i \in b .. Len(p) : i \notin Breaks(p)
        BY <1>4, <2>1, <2>2 DEF Breaks
      <4> QED  BY <1>2, <1>3, <1>10, <4>1, <4>2
    <3>2. p # <<>> /\ ~IsMapped(p)
      BY <1>5, <2>1, <2>2
    <3> QED  BY <2>2, <3>1, <3>2 DEF ModeStep
  <2>3. CASE IsMapped(e)
    <3>1. PICK i, c : i = b + 1 /\ c = Upto(p, i)
      OBVIOUS
    <3>2. i \in 1 .. Len(p) /\ i \in 0 .. Len(p) /\ i \in b .. Len(p)
      BY <1>1, <1>10, <3>1
    <3>3. NoFollow(host, c).error = IF e \in Dirs(host) THEN "missing" ELSE "not_dir"
      <4>1. c \in Seq(Names) /\ Len(c) = i /\ Upto(c, b) = e
        BY <1>1, <3>1, <3>2, Uppers, UptoOfUpto
      <4>2. Ends(host, c, Len(c), b)
        <5>1. \A j \in 0 .. i : Upto(c, j) = Upto(p, j)
          BY <3>1, <3>2, UptoOfUpto
        <5> QED  BY <1>1, <3>1, <3>2, <4>1, <5>1 DEF Ends
      <4>3. b < Len(c)
        BY <1>1, <3>1, <4>1
      <4>4. /\ RealNames /\ SlashFree(host) /\ MaxLinks \in Nat /\ TRUE \in BOOLEAN
            /\ c \in Seq(Components)
        <5>1. Names \subseteq Components
          BY DEF Components
        <5> QED  BY <1>1, <4>1, <5>1, SeqMonotonic DEF Plain
      <4>5. LookupEnds(host, MaxLinks, c, b, e, TRUE)
        BY <1>1, <4>1, <4>2, <4>4, EndsLookup
      <4>6. NoFollow(host, c) = At(host, MaxLinks, <<>>, c, FALSE, TRUE)
        BY <1>1, <4>4, IsAtRoot
      <4>7. host[e].kind = "dir" <=> e \in Dirs(host)
        BY <1>1 DEF Dirs
      <4>8. host[e].kind # "link"
        BY <1>1, <1>10 DEF LinkNames
      <4>9. \A x : Error(x).error = x
        BY DEF Error
      <4> QED  BY <4>3, <4>5, <4>6, <4>7, <4>8, <4>9 DEF LookupEnds
    <3>4. ~Finds(NoFollow(host, c)) /\ ~IsSymlink(c)
      BY <3>3 DEF Finds, IsSymlink, IsA
    <3>5. i \in Breaks(p)
      BY <1>4, <2>1, <2>3, <3>1, <3>2, <3>4 DEF Breaks
    <3>6. \A j \in Breaks(p) : i <= j
      <4>1. \A j \in 1 .. Len(p) : j \in 1 .. b \/ i <= j
        BY <1>1, <3>1
      <4> QED  BY <1>2, <1>3, <1>10, <4>1
    <3>7. i = Min(Breaks(p))
      <4>1. \A j \in Breaks(p) : j \in Int
        BY <1>2
      <4>2. \A j \in Breaks(p) : (\A l \in Breaks(p) : j <= l) => j = i
        BY <3>2, <3>5, <3>6, <4>1
      <4> QED  BY <3>5, <3>6, <4>2 DEF Min
    <3>8. ModeStep(mode, p, n)
            = IF NoFollow(host, c).error = "missing" /\ i = Len(p) /\ ~MappedReadOnly(p)
              THEN ReadWrite ELSE None
      BY <3>1, <3>4, <3>5, <3>7 DEF ModeStep
    <3> QED  BY <1>5, <2>1, <2>3, <3>1, <3>3, <3>8
  <2> QED  BY <2>2, <2>3
<1> QED  BY <1>7, <1>8, <1>9, <1>10 DEF StepIs

-----------------------------------------------------------------------------
(* Lookups on the host and in the container side by side.                   *)
InHost(n, p) == At(host, n, <<>>, p, FALSE, FALSE)
InBox(n, p)  == At(newroot, n, <<>>, p, FALSE, FALSE)

LEMMA TwoTrees ==
    ASSUME Building(Mentioned)
    PROVE  /\ Settled /\ Plain /\ RealNames /\ FileSystem(host) /\ SlashFree(host)
           /\ Resembles(newroot) /\ FileSystem(newroot) /\ SlashFree(newroot)
           /\ \A c \in Seq(Names) : c \in Seq(Components)
<1>1. /\ Settled /\ Plain /\ Mentioned \in SUBSET Mentioned
      /\ MountsAre(mounts, Mentioned) /\ RootIs(newroot, mounts, Mentioned)
  BY DEF Building, Settled
<1>2. Resembles(newroot)
  BY <1>1, RootResembles
<1>3. Names \subseteq Components
  BY DEF Components
<1> QED  BY <1>1, <1>2, <1>3, SeqMonotonic DEF Plain, Resembles

LEMMA CanonicalOfAppend ==
    ASSUME RealNames, NEW r \in Seq(Components), NEW x \in Names
    PROVE  Canonical(Append(r, x)) = Append(Canonical(r), x)
<1>1. PICK s : s = Append(r, x)
  OBVIOUS
<1>2. /\ s \in Seq(Components) /\ Len(s) = Len(r) + 1 /\ Len(r) \in Nat
      /\ s[Len(r) + 1] = x /\ \A i \in 1 .. Len(r) : s[i] = r[i]
  BY <1>1 DEF Components
<1>3. PICK u : Steps(s, u) /\ Canonical(s) = u[Len(s)]
  BY <1>2, CanonicalSteps
<1>4. PICK v : Steps(r, v) /\ Canonical(r) = v[Len(r)]
  BY CanonicalSteps
<1> DEFINE S == {i \in 0 .. Len(r) : u[i] = v[i]}
<1>5. 0 \in S
  BY <1>2, <1>3, <1>4 DEF Steps
<1>6. ASSUME NEW i \in 0 .. Len(r) - 1, i \in S PROVE i + 1 \in S
  <2>1. i + 1 \in 1 .. Len(r) /\ i + 1 \in 1 .. Len(s) /\ (i + 1) - 1 = i
    BY <1>2
  <2>2. u[i + 1] = Add(u[i], s[i + 1]) /\ v[i + 1] = Add(v[i], r[i + 1])
    BY <1>3, <1>4, <2>1 DEF Steps
  <2> QED  BY <1>2, <1>6, <2>1, <2>2
<1>7. Len(r) \in S
  <2> HIDE DEF S
  <2>1. \A i \in 0 .. Len(r) : i \in S
    BY <1>2, <1>5, <1>6, Climbs
  <2> QED  BY <1>2, <2>1
<1>8. u[Len(r) + 1] = Add(u[Len(r)], x)
  <2>1. Len(r) + 1 \in 1 .. Len(s) /\ (Len(r) + 1) - 1 = Len(r)
    BY <1>2
  <2> QED  BY <1>2, <1>3, <2>1 DEF Steps
<1>9. x # "." /\ x # ".."
  BY DEF RealNames
<1> QED  BY <1>1, <1>2, <1>3, <1>4, <1>7, <1>8, <1>9 DEF Add

LEMMA CanonicalIsItself ==
    ASSUME RealNames, NEW p \in Seq(Names)
    PROVE  Canonical(p) = p
<1>1. p \in Seq(Components) /\ Len(p) \in Nat
  <2>1. Names \subseteq Components
    BY DEF Components
  <2> QED  BY <2>1, SeqMonotonic
<1>2. PICK u : Steps(p, u) /\ Canonical(p) = u[Len(p)]
  BY <1>1, CanonicalSteps
<1> DEFINE S == {i \in 0 .. Len(p) : u[i] = Upto(p, i)}
<1>3. 0 \in S
  <2>1. Upto(p, 0) = <<>>
    BY SubSeqEmpty DEF Upto
  <2> QED  BY <1>1, <1>2, <2>1 DEF Steps
<1>4. ASSUME NEW i \in 0 .. Len(p) - 1, i \in S PROVE i + 1 \in S
  <2>1. i + 1 \in 1 .. Len(p) /\ (i + 1) - 1 = i
    BY <1>1
  <2>2. u[i + 1] = Add(Upto(p, i), p[i + 1])
    BY <1>2, <1>4, <2>1 DEF Steps
  <2>3. p[i + 1] # "." /\ p[i + 1] # ".."
    BY <2>1 DEF RealNames
  <2>4. Append(Upto(p, i), p[i + 1]) = Upto(p, i + 1)
    BY Uptos
  <2> QED  BY <2>1, <2>2, <2>3, <2>4 DEF Add
<1>5. Len(p) \in S
  <2> HIDE DEF S
  <2>1. \A i \in 0 .. Len(p) : i \in S
    BY <1>1, <1>3, <1>4, Climbs
  <2> QED  BY <1>1, <2>1
<1>6. Upto(p, Len(p)) = p
  BY SubSeqFull DEF Upto
<1> QED  BY <1>2, <1>5, <1>6

\* A link that is in both trees leads on to the same path in both.
Redirected(n, p, r, c) ==
    /\ r \in Seq(Components) /\ c \in Seq(Names)
    /\ InHost(n, p) = InHost(n - 1, c) /\ InBox(n, p) = InBox(n - 1, c)

LEMMA Redirects ==
    ASSUME Building(Mentioned), NEW p \in Seq(Names), NEW b \in 1 .. Len(p), NEW e, e = Upto(p, b),
           e \in LinkNames(host), IsMapped(e), NEW n \in Nat, n > 0,
           NEW r, r = ResolveLink(e) \o From(p, b + 1), NEW c, c = Canonical(r)
    PROVE  Redirected(n, p, r, c)
<1>1. Plain /\ RealNames /\ FileSystem(host) /\ SlashFree(host)
  BY TwoTrees
<1>2. NoFollow(host, e).file = e
  BY <1>1, LinksAreSeen
<1>3. PICK known : known = {e}
  OBVIOUS
<1>4. Like(host, host, known)
  <2>1. known \in SUBSET LinkNames(host)
    BY <1>3
  <2> QED  BY <1>1, <2>1, HostIsLike
<1>5. Like(host, newroot, known)
  <2>1. Like(host, newroot, Known)
    BY NewRootIsLike
  <2>2. known \subseteq DOMAIN newroot
    BY <1>3, MappedLinks
  <2> QED  BY <2>1, <2>2 DEF Like
<1>6. ASSUME NEW t, Like(host, t, known)
      PROVE  /\ r \in Seq(Components) /\ c \in Seq(Names)
             /\ At(t, n, <<>>, p, FALSE, FALSE) = At(t, n - 1, <<>>, c, FALSE, FALSE)
  <2>1. Retargeted(t, p, r)
    BY <1>1, <1>2, <1>3, <1>6, Retarget
  <2>2. PICK j, m : Solid(t, r, j, m)
    BY <2>1 DEF Retargeted
  <2>3. FileSystem(t) /\ r \in Seq(Components)
    BY <1>6, <2>1 DEF Like, Retargeted
  <2>4. IsCanonical(t, r, c)
    BY <1>1, <2>2, <2>3, Canonicalizes
  <2>5. At(t, n, <<>>, p, FALSE, FALSE) = At(t, n - 1, <<>>, r, FALSE, FALSE)
    BY <2>1 DEF Retargeted, Shortens
  <2>6. At(t, n - 1, <<>>, r, FALSE, FALSE) = At(t, n - 1, <<>>, c, FALSE, FALSE)
    <3>1. n - 1 \in Nat /\ FALSE \in BOOLEAN
      OBVIOUS
    <3> QED  BY <2>4, <3>1 DEF IsCanonical, SameWay
  <2> QED  BY <2>3, <2>4, <2>5, <2>6 DEF IsCanonical
<1> QED  BY <1>4, <1>5, <1>6 DEF Redirected, InHost, InBox

\* A link that the container does not have leads nowhere there.
LEMMA LinkIsMissing ==
    ASSUME Building(Mentioned), NEW p \in Seq(Names), NEW b, Ends(host, p, Len(p), b),
           NEW e, e = Upto(p, b), e \notin DOMAIN newroot, NEW n \in Nat
    PROVE  InBox(n, p) = Error("missing")
<1>1. FileSystem(newroot) /\ FileSystem(host) /\ RealNames /\ Resembles(newroot)
  BY TwoTrees
<1>2. PICK a : Ends(newroot, p, Len(p), a)
  BY <1>1, HasEnd
<1>3. a \in 0 .. Len(p) /\ b \in 0 .. Len(p) /\ a \in Nat /\ b \in Nat /\ Len(p) \in Nat
  BY <1>2 DEF Ends
<1>4. a < b
  <2>1. b \in 0 .. a => e \in DOMAIN newroot
    BY <1>2 DEF Ends
  <2> QED  BY <1>3, <2>1
<1>5. Upto(p, a) \in Dirs(newroot)
  <2>1. Len(p) \in 0 .. Len(p)
    BY <1>3
  <2>2. DirsOnTheWay(host, p, b)
    BY <1>1, <2>1, WayOfDirs
  <2>3. Upto(p, a) \in Dirs(host) /\ Upto(p, a) \in DOMAIN newroot
    BY <1>2, <1>3, <1>4, <2>2 DEF DirsOnTheWay, Ends
  <2> QED  BY <1>1, <2>3 DEF Resembles, Dirs
<1>6. LookupEnds(newroot, n, p, a, Upto(p, a), FALSE)
  BY <1>1, <1>2, EndsLookup
<1>7. a < Len(p)
  BY <1>3, <1>4
<1>8. At(newroot, n, <<>>, p, FALSE, FALSE) = Error("missing")
  BY <1>5, <1>6, <1>7 DEF LookupEnds
<1> QED  BY <1>8 DEF InBox

-----------------------------------------------------------------------------
(* What GetMode says of a path that exists, and of one whose last component  *)
(* does not.  h and w: what is found on the host and in the container, of    *)
(* the path or of what is above the last component, x; m: the mode.          *)
OfFile(h, w, m) ==
    h.error = "opened" /\ Clear(h.file) =>
        \/ w = h /\ m = ModeOf(h.file)
        \/ ~Finds(w) /\ m = None

Creatable(h, x) ==
    \/ h.error = "missing"
    \/ h.error = "opened" /\ h.file \in Dirs(host) /\ Append(h.file, x) \notin DOMAIN host

OfNew(h, w, x, m) ==
    Creatable(h, x) =>
        m = IF /\ h.error = "opened" /\ Finds(w) /\ w.file = h.file
               /\ IsMapped(h.file) /\ ~MappedReadOnly(h.file)
            THEN ReadWrite ELSE None

Right(n, p, m) ==
    /\ OfFile(InHost(n, p), InBox(n, p), m)
    /\ p # <<>> => OfNew(InHost(n, Front(p)), InBox(n, Front(p)), Last(p), m)

\* A path without its last component.
IsParent(p, q, b) ==
    /\ q \in Seq(Names) /\ Last(p) \in Names /\ p = Append(q, Last(p))
    /\ Len(q) = Len(p) - 1 /\ q = Upto(p, Len(q))
    /\ b < Len(p) => Ends(host, q, Len(q), b) /\ Upto(q, b) = Upto(p, b)

LEMMA ParentIs ==
    ASSUME NEW p \in Seq(Names), p # <<>>, NEW b, Ends(host, p, Len(p), b), NEW q, q = Front(p)
    PROVE  IsParent(p, q, b)
<1>1. Len(p) \in Nat /\ Len(p) > 0 /\ b \in 0 .. Len(p)
  BY DEF Ends
<1>2. /\ q \in Seq(Names) /\ Len(q) = Len(p) - 1 /\ \A i \in 1 .. Len(p) - 1 : q[i] = p[i]
      /\ Last(p) = p[Len(p)] /\ Last(p) \in Names
  BY <1>1, FrontIs, LastIs
<1>3. p = Append(q, Last(p))
  BY <1>1, <1>2, SeqEqual
<1>4. q = Upto(p, Len(q))
  <2>1. Len(q) \in 0 .. Len(p)
    BY <1>1, <1>2
  <2>2. /\ Upto(p, Len(q)) \in Seq(Names) /\ Len(Upto(p, Len(q))) = Len(q)
        /\ \A i \in 1 .. Len(q) : Upto(p, Len(q))[i] = p[i]
    BY <2>1, Uppers
  <2> QED  BY <1>2, <2>2, SeqEqual
<1>5. ASSUME b < Len(p) PROVE Ends(host, q, Len(q), b) /\ Upto(q, b) = Upto(p, b)
  <2>1. Len(q) \in 0 .. Len(p) /\ b \in 0 .. Len(q)
    BY <1>1, <1>2, <1>5
  <2>2. \A i \in 0 .. Len(q) : Upto(q, i) = Upto(p, i)
    BY <1>4, <2>1, UptoOfUpto
  <2> QED  BY <1>1, <1>2, <2>1, <2>2 DEF Ends
<1> QED  BY <1>2, <1>3, <1>4, <1>5 DEF IsParent

\* What is there need not be created.
LEMMA NothingNew ==
    ASSUME Building(Mentioned), NEW p \in DOMAIN host, p # <<>>, NEW n \in Nat, NEW w, NEW m
    PROVE  OfNew(InHost(n, Front(p)), w, Last(p), m)
<1>1. RealNames /\ FileSystem(host) /\ FALSE \in BOOLEAN /\ p \in Seq(Names)
  BY TwoTrees DEF FileSystem
<1>2. PICK q : q = Front(p)
  OBVIOUS
<1>3. q \in DOMAIN host /\ host[q].kind = "dir"
  BY <1>1, <1>2 DEF FileSystem
<1>4. InHost(n, q) = Opened(q, n)
  BY <1>1, <1>3, Itself DEF InHost
<1>5. p = Append(q, Last(p))
  <2>1. /\ q \in Seq(Names) /\ Len(q) = Len(p) - 1 /\ Len(p) \in Nat
        /\ \A i \in 1 .. Len(p) - 1 : q[i] = p[i]
        /\ Last(p) = p[Len(p)] /\ Last(p) \in Names
    BY <1>1, <1>2, FrontIs, LastIs
  <2> QED  BY <1>1, <2>1, SeqEqual
<1>6. Opened(q, n).error = "opened" /\ Opened(q, n).file = q
  BY DEF Opened
<1>7. ~Creatable(InHost(n, q), Last(p))
  BY <1>4, <1>5, <1>6 DEF Creatable
<1> QED  BY <1>2, <1>7 DEF OfNew

\* A file or a directory.
LEMMA RightForFile ==
    ASSUME Building(Mentioned), NEW p \in DOMAIN host, p \notin LinkNames(host), NEW n \in Nat,
           NEW m, m = ModeOf(p)
    PROVE  Right(n, p, m)
<1>1. /\ Settled /\ RealNames /\ FileSystem(host) /\ FileSystem(newroot) /\ Resembles(newroot)
      /\ FALSE \in BOOLEAN /\ p \in Seq(Names) /\ host[p].kind # "link"
  BY TwoTrees DEF FileSystem, LinkNames
<1>2. InHost(n, p) = Opened(p, n)
  BY <1>1, Itself DEF InHost
<1>3. Opened(p, n).error = "opened" /\ Opened(p, n).file = p
  BY DEF Opened
<1>4. ASSUME p \in DOMAIN newroot PROVE OfFile(InHost(n, p), InBox(n, p), m)
  <2>1. newroot[p].kind # "link"
    BY <1>1, <1>4 DEF Resembles
  <2>2. InBox(n, p) = Opened(p, n)
    BY <1>1, <1>4, <2>1, Itself DEF InBox
  <2> QED  BY <1>2, <1>3, <2>2 DEF OfFile
<1>5. ASSUME p \notin DOMAIN newroot PROVE OfFile(InHost(n, p), InBox(n, p), m)
  <2>1. ~Finds(InBox(n, p))
    <3>1. ASSUME NEW i \in 0 .. Len(p) - 1, Upto(p, i) \in DOMAIN newroot
          PROVE  newroot[Upto(p, i)].kind # "link"
      <4>1. i \in 0 .. Len(p) /\ i < Len(p)
        OBVIOUS
      <4>2. Upto(p, i) \in Seq(Names) /\ IsPrefix(Upto(p, i), p) /\ Upto(p, i) # p
        BY <1>1, <4>1, Uppers
      <4>3. Upto(p, i) \in Dirs(host)
        BY <1>1, <4>2, StrictlyAbove
      <4> QED  BY <1>1, <3>1, <4>3 DEF Resembles, Dirs
    <3> QED  BY <1>1, <1>5, <3>1, Direct DEF InBox
  <2>2. ASSUME Clear(p) PROVE m = None
    <3>1. p \notin Known
      BY DEF Known
    <3>2. IsMappedRight(p)
      BY <2>2, <3>1, MappedIs
    <3>3. ~IsMapped(p) /\ p # <<>>
      BY <1>1, <1>5, <3>2 DEF IsMappedRight, FileSystem
    <3> QED  BY <3>3 DEF ModeOf
  <2> QED  BY <1>2, <1>3, <2>1, <2>2 DEF OfFile
<1>6. p # <<>> => OfNew(InHost(n, Front(p)), InBox(n, Front(p)), Last(p), m)
  BY NothingNew
<1> QED  BY <1>4, <1>5, <1>6 DEF Right

\* A path that goes on after a file or a directory without such an entry.
LEMMA RightForMissing ==
    ASSUME Building(Mentioned), NEW p \in Seq(Names), NEW b, Ends(host, p, Len(p), b), b < Len(p),
           NEW e, e = Upto(p, b), e \notin LinkNames(host), NEW n \in Nat,
           NEW m, m = IF e \in Dirs(host) /\ b + 1 = Len(p) /\ IsMapped(e) /\ ~MappedReadOnly(e)
                      THEN ReadWrite ELSE None
    PROVE  Right(n, p, m)
<1>1. /\ RealNames /\ FileSystem(host) /\ FileSystem(newroot) /\ Resembles(newroot)
      /\ FALSE \in BOOLEAN /\ e \in DOMAIN host /\ b \in 0 .. Len(p) /\ Len(p) \in Nat
      /\ host[e].kind # "link" /\ (host[e].kind = "dir" <=> e \in Dirs(host))
  BY TwoTrees DEF LinkNames, Ends, Dirs
<1>2. \A x : Error(x).error = x
  BY DEF Error
<1>3. ASSUME NEW q \in Seq(Names), Ends(host, q, Len(q), b), e = Upto(q, b), b < Len(q)
      PROVE  InHost(n, q).error = IF e \in Dirs(host) THEN "missing" ELSE "not_dir"
  <2>1. LookupEnds(host, n, q, b, e, FALSE)
    BY <1>1, <1>3, EndsLookup
  <2> QED  BY <1>1, <1>2, <1>3, <2>1 DEF LookupEnds, InHost
<1>4. InHost(n, p).error # "opened"
  BY <1>3
<1>5. PICK q : q = Front(p)
  OBVIOUS
<1>6. p # <<>> /\ IsParent(p, q, b)
  BY <1>1, <1>5, ParentIs
<1>7. /\ q \in Seq(Names) /\ Len(q) = Len(p) - 1 /\ q = Upto(p, Len(q))
      /\ Ends(host, q, Len(q), b) /\ e = Upto(q, b)
  BY <1>6 DEF IsParent
<1>8. CASE b < Len(q)
  <2>1. InHost(n, q).error # "opened" /\ m = None
    BY <1>1, <1>3, <1>7, <1>8
  <2> QED  BY <1>4, <1>5, <2>1 DEF Right, OfFile, OfNew
<1>9. CASE ~(b < Len(q))
  <2>1. q = e /\ b + 1 = Len(p)
    <3>1. b = Len(q) /\ b + 1 = Len(p)
      BY <1>1, <1>7, <1>9
    <3>2. q = Upto(p, b) /\ e = Upto(p, b)
      BY <1>7, <3>1
    <3> QED  BY <3>1, <3>2
  <2>2. InHost(n, q) = Opened(e, n)
    BY <1>1, <2>1, Itself DEF InHost
  <2>3. Opened(e, n).error = "opened" /\ Opened(e, n).file = e
    BY DEF Opened
  <2>4. CASE e \notin Dirs(host)
    BY <1>4, <1>5, <2>2, <2>3, <2>4 DEF Right, OfFile, OfNew, Creatable
  <2>5. CASE e \in Dirs(host)
    <3>1. e \notin Known /\ Clear(e)
      BY <2>5 DEF Known, Clear
    <3>2. ASSUME IsMapped(e) PROVE InBox(n, q) = InHost(n, q)
      <4>1. e \in DOMAIN newroot
        BY <1>1, <3>1, <3>2, MappedIs DEF IsMappedRight
      <4>2. newroot[e].kind # "link"
        BY <1>1, <4>1 DEF Resembles
      <4> QED  BY <1>1, <2>1, <2>2, <4>1, <4>2, Itself DEF InBox
    <3>3. m = IF IsMapped(e) /\ ~MappedReadOnly(e) THEN ReadWrite ELSE None
      BY <2>1, <2>5
    <3>4. OfNew(InHost(n, q), InBox(n, q), Last(p), m)
      BY <2>2, <2>3, <3>2, <3>3 DEF OfNew, Finds
    <3> QED  BY <1>4, <1>5, <3>4 DEF Right, OfFile
  <2> QED  BY <2>4, <2>5
<1> QED  BY <1>8, <1>9

LEMMA LinkIsNotRoot ==
    ASSUME FileSystem(host), NEW p \in Seq(Names), NEW b, Ends(host, p, Len(p), b),
           Upto(p, b) \in LinkNames(host)
    PROVE  b \in 1 .. Len(p) /\ p # <<>>
<1>1. Upto(p, 0) = <<>> /\ host[<<>>].kind = "dir"
  BY SubSeqEmpty DEF Upto, FileSystem
<1>2. b # 0 /\ b \in 0 .. Len(p) /\ Len(p) \in Nat
  BY <1>1 DEF LinkNames, Ends
<1> QED  BY <1>2

\* A link that the table says nothing of.
LEMMA RightForUnknownLink ==
    ASSUME Building(Mentioned), NEW p \in Seq(Names), NEW b, Ends(host, p, Len(p), b),
           NEW e, e = Upto(p, b), e \in LinkNames(host), ~IsMapped(e), NEW n \in Nat
    PROVE  Right(n, p, None)
<1>1. FileSystem(host) /\ e \notin DOMAIN newroot /\ e \in DOMAIN host /\ Error("missing").error = "missing"
  BY TwoTrees, MappedLinks DEF LinkNames, Error
<1>2. b \in 1 .. Len(p) /\ p # <<>>
  BY <1>1, LinkIsNotRoot
<1>3. InBox(n, p).error = "missing"
  BY <1>1, LinkIsMissing
<1>4. OfFile(InHost(n, p), InBox(n, p), None)
  BY <1>3 DEF OfFile, Finds
<1>5. PICK q : q = Front(p)
  OBVIOUS
<1>6. CASE b < Len(p)
  <2>1. q \in Seq(Names) /\ Ends(host, q, Len(q), b) /\ Upto(q, b) = e
    BY <1>2, <1>5, <1>6, ParentIs DEF IsParent
  <2>2. InBox(n, q).error = "missing"
    BY <1>1, <2>1, LinkIsMissing
  <2>3. OfNew(InHost(n, q), InBox(n, q), Last(p), None)
    BY <2>2 DEF OfNew, Finds
  <2> QED  BY <1>4, <1>5, <2>3 DEF Right
<1>7. CASE ~(b < Len(p))
  <2>1. b = Len(p) /\ Upto(p, Len(p)) = p
    BY <1>2, <1>7, SubSeqFull DEF Upto
  <2>2. OfNew(InHost(n, Front(p)), InBox(n, Front(p)), Last(p), None)
    BY <1>1, <1>2, <2>1, NothingNew
  <2> QED  BY <1>4, <2>2 DEF Right
<1> QED  BY <1>6, <1>7

\* A link that may not be followed any more.
LEMMA RightForLastLink ==
    ASSUME Building(Mentioned), NEW p \in Seq(Names), NEW b, Ends(host, p, Len(p), b),
           NEW e, e = Upto(p, b), e \in LinkNames(host)
    PROVE  Right(0, p, None)
<1>1. /\ RealNames /\ FileSystem(host) /\ e \in DOMAIN host /\ host[e].kind = "link"
      /\ Error("loop").error = "loop" /\ FALSE \in BOOLEAN /\ 0 \in Nat
  BY TwoTrees DEF LinkNames, Error
<1>2. b \in 1 .. Len(p) /\ p # <<>>
  BY <1>1, LinkIsNotRoot
<1>3. ASSUME NEW q \in Seq(Names), Ends(host, q, Len(q), b), e = Upto(q, b)
      PROVE  InHost(0, q).error = "loop"
  <2>1. LookupEnds(host, 0, q, b, e, FALSE)
    BY <1>1, <1>3, EndsLookup
  <2> QED  BY <1>1, <2>1 DEF LookupEnds, InHost
<1>4. OfFile(InHost(0, p), InBox(0, p), None)
  BY <1>3 DEF OfFile
<1>5. PICK q : q = Front(p)
  OBVIOUS
<1>6. CASE b < Len(p)
  <2>1. q \in Seq(Names) /\ Ends(host, q, Len(q), b) /\ Upto(q, b) = e
    BY <1>2, <1>5, <1>6, ParentIs DEF IsParent
  <2>2. InHost(0, q).error = "loop"
    BY <1>3, <2>1
  <2>3. OfNew(InHost(0, q), InBox(0, q), Last(p), None)
    BY <2>2 DEF OfNew
  <2> QED  BY <1>4, <1>5, <2>3 DEF Right
<1>7. CASE ~(b < Len(p))
  <2>1. b = Len(p) /\ Upto(p, Len(p)) = p
    BY <1>2, <1>7, SubSeqFull DEF Upto
  <2>2. OfNew(InHost(0, Front(p)), InBox(0, Front(p)), Last(p), None)
    BY <1>1, <1>2, <2>1, NothingNew
  <2> QED  BY <1>4, <2>2 DEF Right
<1> QED  BY <1>6, <1>7

LEMMA FromOfAppend ==
    ASSUME NEW S, NEW q \in Seq(S), NEW x \in S, NEW i \in 1 .. Len(q) + 1
    PROVE  From(Append(q, x), i) = Append(From(q, i), x) /\ From(q, i) \in Seq(S)
<1>1. PICK p : p = Append(q, x)
  OBVIOUS
<1>2. /\ p \in Seq(S) /\ Len(p) = Len(q) + 1 /\ Len(q) \in Nat /\ p[Len(q) + 1] = x
      /\ \A j \in 1 .. Len(q) : p[j] = q[j]
  BY <1>1
<1>3. PICK a, b : a = From(p, i) /\ b = From(q, i)
  OBVIOUS
<1>4. /\ b \in Seq(S) /\ Len(b) = Len(q) - i + 1
      /\ \A j \in 1 .. Len(q) - i + 1 : b[j] = q[i + j - 1]
  <2>1. i \in Int /\ Len(q) \in Int /\ \A j \in i .. Len(q) : q[j] \in S
    BY <1>2
  <2>2. /\ b \in Seq(S) /\ Len(b) = IF i <= Len(q) THEN Len(q) - i + 1 ELSE 0
        /\ \A j \in 1 .. Len(q) - i + 1 : b[j] = q[i + j - 1]
    BY ONLY <1>3, <2>1, SubSeqProperties DEF From
  <2> QED  BY <1>2, <2>2
<1>5. /\ a \in Seq(S) /\ Len(a) = Len(q) - i + 2
      /\ \A j \in 1 .. Len(q) - i + 2 : a[j] = p[i + j - 1]
  <2>1. i \in Int /\ Len(p) \in Int /\ \A j \in i .. Len(p) : p[j] \in S
    BY <1>2
  <2>2. /\ a \in Seq(S) /\ Len(a) = IF i <= Len(p) THEN Len(p) - i + 1 ELSE 0
        /\ \A j \in 1 .. Len(p) - i + 1 : a[j] = p[i + j - 1]
    BY ONLY <1>3, <2>1, SubSeqProperties DEF From
  <2>3. Len(p) - i + 1 = Len(q) - i + 2 /\ i <= Len(p)
    BY <1>2
  <2> QED  BY <2>2, <2>3
<1>6. PICK c : c = Append(b, x)
  OBVIOUS
<1>7. /\ c \in Seq(S) /\ Len(c) = Len(q) - i + 2 /\ c[Len(q) - i + 2] = x
      /\ \A j \in 1 .. Len(q) - i + 1 : c[j] = b[j]
  <2>1. /\ c \in Seq(S) /\ Len(c) = Len(b) + 1 /\ c[Len(b) + 1] = x
        /\ \A j \in 1 .. Len(b) : c[j] = b[j]
    BY <1>4, <1>6, AppendProperties
  <2>2. Len(b) + 1 = Len(q) - i + 2
    BY <1>2, <1>4
  <2> QED  BY <1>4, <2>1, <2>2
<1>8. ASSUME NEW j \in 1 .. Len(q) - i + 2 PROVE a[j] = c[j]
  <2>1. CASE j = Len(q) - i + 2
    <3>1. i + j - 1 = Len(q) + 1
      BY <1>2, <2>1
    <3> QED  BY <1>2, <1>5, <1>7, <2>1, <3>1
  <2>2. CASE j # Len(q) - i + 2
    <3>1. j \in 1 .. Len(q) - i + 1 /\ i + j - 1 \in 1 .. Len(q)
      BY <1>2, <2>2
    <3> QED  BY <1>2, <1>4, <1>5, <1>7, <3>1
  <2> QED  BY <2>1, <2>2
<1>9. a = c
  BY <1>5, <1>7, <1>8, SeqEqual
<1> QED  BY <1>1, <1>3, <1>4, <1>6, <1>9

LEMMA ConcatOfAppend ==
    ASSUME NEW S, NEW a \in Seq(S), NEW b \in Seq(S), NEW x \in S
    PROVE  a \o Append(b, x) = Append(a \o b, x)
<1>1. <<x>> \in Seq(S) /\ Append(b, x) = b \o <<x>> /\ Append(a \o b, x) = (a \o b) \o <<x>>
  OBVIOUS
<1>2. a \o (b \o <<x>>) = (a \o b) \o <<x>>
  BY <1>1, ConcatAssociative
<1> QED  BY <1>1, <1>2

\* A link that is followed, on the host, in the container and by GetMode.
LEMMA RightForLink ==
    ASSUME Building(Mentioned), NEW p \in Seq(Names), NEW b, Ends(host, p, Len(p), b),
           NEW e, e = Upto(p, b), e \in LinkNames(host), IsMapped(e), NEW n \in Nat, n > 0,
           NEW r, r = ResolveLink(e) \o From(p, b + 1), NEW c, c = Canonical(r),
           NEW m, Right(n - 1, c, m)
    PROVE  Right(n, p, m)
<1>1. FileSystem(host) /\ RealNames /\ Plain /\ e \in DOMAIN host
  BY TwoTrees DEF LinkNames
<1>2. b \in 1 .. Len(p) /\ p # <<>> /\ Len(p) \in Nat
  BY <1>1, LinkIsNotRoot
<1>3. Redirected(n, p, r, c)
  BY <1>2, Redirects
<1>4. OfFile(InHost(n, p), InBox(n, p), m)
  BY <1>3 DEF Redirected, Right
<1>5. PICK q, x : q = Front(p) /\ x = Last(p)
  OBVIOUS
<1>6. CASE b < Len(p)
  <2>1. /\ q \in Seq(Names) /\ Ends(host, q, Len(q), b) /\ Upto(q, b) = e
        /\ p = Append(q, x) /\ x \in Names /\ Len(q) = Len(p) - 1
    BY <1>2, <1>5, <1>6, ParentIs DEF IsParent
  <2>2. PICK s, d : s = ResolveLink(e) \o From(q, b + 1) /\ d = Canonical(s)
    OBVIOUS
  <2>3. Redirected(n, q, s, d)
    <3>1. b \in 1 .. Len(q)
      BY <1>2, <1>6, <2>1
    <3> QED  BY <2>1, <2>2, <3>1, Redirects
  <2>4. r = Append(s, x)
    <3>1. ResolveLink(e) \in Seq(Components)
      BY <1>1, RewrittenIs
    <3>2. q \in Seq(Components) /\ p \in Seq(Components) /\ x \in Components
      BY <2>1, TwoTrees DEF Components
    <3>3. From(p, b + 1) = Append(From(q, b + 1), x) /\ From(q, b + 1) \in Seq(Components)
      <4>1. PICK i : i = b + 1 /\ i \in 1 .. Len(q) + 1
        BY <1>2, <1>6, <2>1
      <4>2. From(p, i) = Append(From(q, i), x) /\ From(q, i) \in Seq(Components)
        <5>1. p = Append(q, x)
          BY <2>1
        <5>2. From(Append(q, x), i) = Append(From(q, i), x) /\ From(q, i) \in Seq(Components)
          BY ONLY <3>2, <4>1, FromOfAppend
        <5> QED  BY <5>1, <5>2
      <4> QED  BY <4>1, <4>2
    <3>4. PICK a, z : a = ResolveLink(e) /\ z = From(q, b + 1)
      OBVIOUS
    <3>5. a \o Append(z, x) = Append(a \o z, x)
      BY <3>1, <3>2, <3>3, <3>4, ConcatOfAppend
    <3> QED  BY <2>2, <3>3, <3>4, <3>5
  <2>5. c = Append(d, x) /\ d \in Seq(Names)
    <3>1. s \in Seq(Components) /\ d \in Seq(Names)
      BY <2>3 DEF Redirected
    <3> QED  BY <1>1, <2>1, <2>2, <2>4, <3>1, CanonicalOfAppend
  <2>6. Front(c) = d /\ c # <<>> /\ Last(c) = x
    <3>1. Front(c) = d /\ c # <<>>
      BY <2>1, <2>5, FrontOfAppend
    <3>2. Last(c) = x
      BY <2>1, <2>5 DEF Last
    <3> QED  BY <3>1, <3>2
  <2>7. OfNew(InHost(n - 1, d), InBox(n - 1, d), x, m)
    BY <2>6 DEF Right
  <2>8. OfNew(InHost(n, q), InBox(n, q), x, m)
    BY <2>3, <2>7 DEF Redirected
  <2> QED  BY <1>4, <1>5, <2>8 DEF Right
<1>7. CASE ~(b < Len(p))
  <2>1. b = Len(p) /\ Upto(p, Len(p)) = p
    BY <1>2, <1>7, SubSeqFull DEF Upto
  <2>2. OfNew(InHost(n, Front(p)), InBox(n, Front(p)), Last(p), m)
    BY <1>1, <1>2, <2>1, NothingNew
  <2> QED  BY <1>4, <2>2 DEF Right
<1> QED  BY <1>6, <1>7

\* Link by link.
LEMMA ModesAreRight ==
    ASSUME Building(Mentioned), NEW mode, Modes(mode), NEW n \in Nat, NEW p \in Seq(Names)
    PROVE  Right(n, p, ModeStep(mode, p, n))
<1> DEFINE S == {i \in 0 .. n : \A c \in Seq(Names) : Right(i, c, ModeStep(mode, c, i))}
<1>1. ASSUME NEW i \in Nat, NEW c \in Seq(Names),
             i > 0 => \A d \in Seq(Names) : Right(i - 1, d, ModeStep(mode, d, i - 1))
      PROVE  Right(i, c, ModeStep(mode, c, i))
  <2>1. Settled /\ FileSystem(host)
    BY TwoTrees
  <2>2. PICK b, e : Ends(host, c, Len(c), b) /\ e = Upto(c, b)
    BY <2>1, HasEnd
  <2>3. StepIs(mode, c, i, b, e)
    BY <2>1, <2>2, ModeStepIs
  <2>4. e \in DOMAIN host /\ b \in 0 .. Len(c) /\ Len(c) \in Nat
    BY <2>2 DEF Ends
  <2>5. CASE e \notin LinkNames(host) /\ b = Len(c)
    <3>1. c = e
      BY <2>2, <2>5, SubSeqFull DEF Upto
    <3> QED  BY <2>3, <2>4, <2>5, <3>1, RightForFile DEF StepIs
  <2>6. CASE e \notin LinkNames(host) /\ b < Len(c)
    BY <2>2, <2>3, <2>6, RightForMissing DEF StepIs
  <2>7. CASE e \in LinkNames(host) /\ ~IsMapped(e)
    BY <2>2, <2>3, <2>7, RightForUnknownLink DEF StepIs
  <2>8. CASE e \in LinkNames(host) /\ IsMapped(e) /\ i = 0
    BY <2>2, <2>3, <2>8, RightForLastLink DEF StepIs
  <2>9. CASE e \in LinkNames(host) /\ IsMapped(e) /\ i > 0
    <3>1. PICK r, d : r = ResolveLink(e) \o From(c, b + 1) /\ d = Canonical(r)
      OBVIOUS
    <3>2. b \in 1 .. Len(c)
      BY <2>1, <2>2, <2>9, LinkIsNotRoot
    <3>3. r \in Seq(Components) /\ d \in Seq(Names)
      BY <2>2, <2>9, <3>1, <3>2, Redirects DEF Redirected
    <3>4. mode[i - 1][r] = ModeStep(mode, d, i - 1)
      <4>1. i - 1 \in Nat
        BY <2>9
      <4>2. mode[i - 1] = Layer(mode, i - 1)
        BY <4>1 DEF Modes
      <4> QED  BY <3>1, <3>3, <4>2 DEF Layer
    <3>5. ModeStep(mode, c, i) = ModeStep(mode, d, i - 1)
      BY <2>3, <2>9, <3>1, <3>4 DEF StepIs
    <3>6. Right(i - 1, d, ModeStep(mode, d, i - 1))
      BY <1>1, <2>9, <3>3
    <3>7. Right(i, c, ModeStep(mode, d, i - 1))
      BY <2>2, <2>9, <3>1, <3>6, RightForLink
    <3> QED  BY <3>5, <3>7
  <2> QED  BY <2>4, <2>5, <2>6, <2>7, <2>8, <2>9
<1>2. 0 \in S
  BY <1>1
<1>3. ASSUME NEW i \in 0 .. n - 1, i \in S PROVE i + 1 \in S
  <2>1. i + 1 \in Nat /\ i + 1 \in 0 .. n /\ (i + 1) - 1 = i
    OBVIOUS
  <2>2. \A d \in Seq(Names) : Right(i, d, ModeStep(mode, d, i))
    BY <1>3
  <2>3. \A c \in Seq(Names) : Right(i + 1, c, ModeStep(mode, c, i + 1))
    BY <1>1, <2>1, <2>2
  <2> QED  BY <2>1, <2>3
<1>4. \A i \in 0 .. n : i \in S
  <2> HIDE DEF S
  <2> QED  BY <1>2, <1>3, Climbs
<1>5. n \in 0 .. n
  OBVIOUS
<1> QED  BY <1>4, <1>5

-----------------------------------------------------------------------------
(* What one may do in the container.                                       *)

\* What a path leads to, if there is more of it only in its last component.
LEMMA LastStep ==
    ASSUME Plain, NEW p \in Seq(Names), p # <<>>, NEW g, g = InHost(MaxLinks, Front(p))
    PROVE  /\ Finds(Follow(host, p)) => Finds(NoFollow(host, p))
           /\ NoFollow(host, p).error = "missing" => Creatable(g, Last(p))
<1>1. /\ RealNames /\ FileSystem(host) /\ SlashFree(host) /\ MaxLinks \in Nat
      /\ <<>> \in Dirs(host) /\ <<>> \in Seq(Names) /\ FALSE \in BOOLEAN /\ TRUE \in BOOLEAN
  BY DEF Plain, FileSystem, Dirs
<1>2. PICK q, x : q = Front(p) /\ x = Last(p)
  OBVIOUS
<1>3. q \in Seq(Names) /\ x \in Names /\ p = q \o <<x>>
  <2>1. /\ q \in Seq(Names) /\ Len(q) = Len(p) - 1 /\ Len(p) \in Nat
        /\ \A i \in 1 .. Len(p) - 1 : q[i] = p[i]
        /\ x = p[Len(p)] /\ x \in Names
    BY <1>2, FrontIs, LastIs
  <2>2. p = Append(q, x)
    BY <2>1, SeqEqual
  <2> QED  BY <2>1, <2>2, AppendIsConcat
<1>4. /\ p \in Seq(Components) /\ q \in Seq(Components) /\ <<x>> \in Seq(Components)
      /\ <<x>> # <<>> /\ Head(<<x>>) = x /\ Tail(<<x>>) = <<>> /\ Len(<<x>>) = 1
      /\ x \notin {".", ".."}
  <2>1. Names \subseteq Components
    BY DEF Components
  <2> QED  BY <1>1, <1>3, <2>1, SeqMonotonic DEF RealNames
<1>5. /\ NoFollow(host, p) = At(host, MaxLinks, <<>>, p, FALSE, TRUE)
      /\ Follow(host, p) = At(host, MaxLinks, <<>>, p, FALSE, FALSE)
  BY <1>1, <1>4, IsAtRoot
<1>6. ASSUME NEW k \in BOOLEAN
      PROVE  At(host, MaxLinks, <<>>, p, FALSE, k) = AndThen(host, g, TRUE, <<x>>, FALSE, k)
  <2>1. Divides(host, q, <<x>>, FALSE, FALSE, k)
    BY <1>1, <1>4, PathDivides
  <2> QED  BY <1>1, <1>2, <1>3, <2>1 DEF Divides, InHost
<1>7. IsResult(g, MaxLinks)
  BY <1>1, <1>2, <1>4, AtResult DEF InHost
<1>8. CASE g.error # "opened"
  <2>1. NoFollow(host, p) = g /\ Follow(host, p) = g
    BY <1>1, <1>5, <1>6, <1>8 DEF AndThen
  <2> QED  BY <2>1 DEF Creatable
<1>9. CASE g.error = "opened" /\ host[g.file].kind # "dir"
  <2>1. NoFollow(host, p) = Error("not_dir") /\ Follow(host, p) = Error("not_dir")
    BY <1>1, <1>5, <1>6, <1>9 DEF AndThen
  <2> QED  BY <2>1 DEF Error, Finds
<1>10. CASE g.error = "opened" /\ host[g.file].kind = "dir"
  <2>1. PICK n, d : n = g.left /\ d = g.file
    OBVIOUS
  <2>2. n \in Nat /\ d \in Seq(Names) /\ d \in Dirs(host)
    <3>1. n \in Nat /\ d \in Seq(Names)
      BY <1>1, <1>7, <1>10, <2>1 DEF IsResult
    <3>2. IsFinal(host, FALSE, g.file)
      BY <1>1, <1>2, <1>4, <1>10, FoundExists DEF InHost
    <3> QED  BY <1>10, <2>1, <3>1, <3>2 DEF IsFinal, Dirs
  <2>3. \A k \in BOOLEAN : At(host, MaxLinks, <<>>, p, FALSE, k) = At(host, n, d, <<x>>, FALSE, k)
    BY <1>6, <1>10, <2>1 DEF AndThen
  <2>4. PICK c : c = Append(d, x)
    OBVIOUS
  <2>5. CASE c \notin DOMAIN host
    <3>1. \A k \in BOOLEAN : Halts(host, n, d, <<x>>, FALSE, k, c)
      BY <1>1, <1>4, <2>2, <2>4, Stops
    <3>2. Follow(host, p) = Error("missing")
      BY <1>1, <1>5, <2>3, <2>5, <3>1 DEF Halts
    <3>3. Creatable(g, x)
      BY <1>10, <2>1, <2>2, <2>4, <2>5 DEF Creatable
    <3> QED  BY <1>2, <3>2, <3>3 DEF Error, Finds
  <2>6. CASE c \in DOMAIN host
    <3>1. GoesOn(host, n, d, <<x>>, FALSE, TRUE, c)
      BY <1>1, <1>4, <2>2, <2>4, <2>6, Enters
    <3>2. c \in Seq(Names)
      BY <1>1, <2>6 DEF FileSystem
    <3>3. At(host, n, c, <<>>, FALSE, TRUE) = Opened(c, n)
      BY <1>1, <2>2, <3>2, AtEnd
    <3>4. NoFollow(host, p) = Opened(c, n)
      BY <1>1, <1>4, <1>5, <2>3, <3>1, <3>3 DEF GoesOn
    <3> QED  BY <3>4 DEF Opened, Finds
  <2> QED  BY <2>5, <2>6
<1> QED  BY <1>8, <1>9, <1>10

SharedIs(q, w, f) ==
    /\ IsShared(q) <=> Finds(w) /\ w.file = f /\ OnHost(mounts, f)
    /\ OnHost(mounts, f) => B!IsReadOnly(f) = (ModeIn(f) = ReadOnly)

LEMMA IsSharedIs ==
    ASSUME Building(Mentioned), NEW q \in Seq(Components), NEW w, w = Follow(newroot, q),
           NEW h, h = Follow(host, q), Finds(h), NEW f, f = h.file, f \in DOMAIN host
    PROVE  SharedIs(q, w, f)
<1>1. /\ Plain /\ FileSystem(newroot) /\ SlashFree(newroot) /\ Resembles(newroot)
      /\ <<>> \in Dirs(newroot) /\ MaxLinks \in Nat /\ FALSE \in BOOLEAN
  BY TwoTrees DEF Plain, FileSystem, Dirs
<1>2. IsShared(q) <=> Finds(w) /\ OnHost(mounts, w.file) /\ B!Source(w.file) = f
  BY SameOwner DEF IsShared
<1>3. ASSUME Finds(w) PROVE w.file \in DOMAIN host
  <2>1. w = At(newroot, MaxLinks, <<>>, q, FALSE, FALSE)
    BY <1>1, IsAtRoot
  <2>2. IsFinal(newroot, FALSE, w.file)
    BY <1>1, <1>3, <2>1, FoundExists DEF Finds
  <2> QED  BY <1>1, <2>2 DEF IsFinal, Resembles
<1>4. \A u \in DOMAIN host : OnHost(mounts, u) => B!Source(u) = u
  BY Decided DEF IsDecided
<1>5. ASSUME OnHost(mounts, f) PROVE B!IsReadOnly(f) = (ModeIn(f) = ReadOnly)
  <2>1. mounts[B!Owner(f)] = BindOf(Deepest(Deciding(f)))
    BY <1>5, Decided DEF IsDecided
  <2> QED  BY <1>5, <2>1 DEF B!IsReadOnly, BindOf, B!NewBind, ModeIn
<1> QED  BY <1>2, <1>3, <1>4, <1>5 DEF SharedIs

LEMMA ModeIsShared ==
    ASSUME Building(Mentioned), NEW p \in Seq(Names), ~ModeIsUnclear(p),
           Finds(Follow(host, p)) \/ NoFollow(host, p).error = "missing"
    PROVE  GetMode(p, MaxLinks) = SharedMode(p)
<1>1. /\ Settled /\ Plain /\ RealNames /\ FileSystem(host) /\ SlashFree(host)
      /\ FileSystem(newroot) /\ SlashFree(newroot) /\ MaxLinks \in Nat
      /\ <<>> \in Dirs(host) /\ FALSE \in BOOLEAN /\ TRUE \in BOOLEAN
      /\ \A c \in Seq(Names) : c \in Seq(Components)
  BY TwoTrees DEF Plain, FileSystem, Dirs
<1>2. ASSUME NEW c \in Seq(Names)
      PROVE  Follow(host, c) = InHost(MaxLinks, c) /\ Follow(newroot, c) = InBox(MaxLinks, c)
  BY <1>1, IsAtRoot DEF InHost, InBox
<1>3. PICK m : m = GetMode(p, MaxLinks)
  OBVIOUS
<1>4. Right(MaxLinks, p, m)
  <2>1. PICK mode : Modes(mode) /\ \A c, n : GetMode(c, n) = mode[n][c]
    BY GetModeIs
  <2>2. mode[MaxLinks] = Layer(mode, MaxLinks)
    BY <1>1, <2>1 DEF Modes
  <2>3. m = ModeStep(mode, Canonical(p), MaxLinks)
    BY <1>1, <1>3, <2>1, <2>2 DEF Layer
  <2>4. Canonical(p) = p
    BY <1>1, CanonicalIsItself
  <2> QED  BY <1>1, <2>1, <2>3, <2>4, ModesAreRight
<1>5. CASE Finds(Follow(host, p))
  <2>1. PICK h, w, f : h = Follow(host, p) /\ w = Follow(newroot, p) /\ f = h.file
    OBVIOUS
  <2>2. f \in DOMAIN host /\ f \notin LinkNames(host)
    <3>1. IsFinal(host, FALSE, f)
      BY <1>1, <1>2, <1>5, <2>1, FoundExists DEF InHost, Finds
    <3> QED  BY <3>1 DEF IsFinal, LinkNames
  <2>3. f # <<>> /\ Clear(f) /\ f \notin Known
    <3>1. IsDir(f) <=> f \in Dirs(host)
      BY <1>1, <2>2, DirsAreSeen
    <3> QED  BY <1>5, <2>1, <2>2, <3>1 DEF ModeIsUnclear, Clear, Known
  <2>4. IsMappedRight(f)
    BY <2>2, <2>3, MappedIs
  <2>5. SharedIs(p, w, f)
    BY <1>1, <1>5, <2>1, <2>2, IsSharedIs
  <2>6. Finds(NoFollow(host, p))
    <3>1. CASE p = <<>>
      <4>1. p \in DOMAIN host
        BY <1>1, <3>1 DEF FileSystem
      <4>2. At(host, MaxLinks, <<>>, p, FALSE, TRUE) = Opened(p, MaxLinks)
        BY <1>1, <4>1, Itself
      <4>3. NoFollow(host, p) = At(host, MaxLinks, <<>>, p, FALSE, TRUE)
        BY <1>1, IsAtRoot
      <4>4. Opened(p, MaxLinks).error = "opened"
        BY DEF Opened
      <4> QED  BY <4>2, <4>3, <4>4 DEF Finds
    <3>2. CASE p # <<>>
      BY <1>1, <1>5, <3>2, LastStep
    <3> QED  BY <3>1, <3>2
  <2>7. SharedMode(p) = IF ~IsShared(p) THEN None
                        ELSE IF B!IsReadOnly(w.file) THEN ReadOnly ELSE ReadWrite
    BY <2>1, <2>6 DEF SharedMode
  <2>8. (w = h /\ m = ModeOf(f)) \/ (~Finds(w) /\ m = None)
    BY <1>2, <1>4, <1>5, <2>1, <2>3 DEF Right, OfFile, Finds
  <2>9. CASE ~Finds(w) /\ m = None
    BY <1>3, <2>5, <2>7, <2>9 DEF SharedIs
  <2>10. CASE w = h /\ m = ModeOf(f)
    <3>1. w.file = f /\ (IsShared(p) <=> OnHost(mounts, f))
      BY <1>5, <2>1, <2>5, <2>10 DEF SharedIs
    <3>2. m = IF ~OnHost(mounts, f) THEN None
              ELSE IF ModeIn(f) = ReadOnly THEN ReadOnly ELSE ReadWrite
      BY <2>3, <2>4, <2>10 DEF ModeOf, ModeFor, IsMappedRight
    <3> QED  BY <1>3, <2>5, <2>7, <3>1, <3>2 DEF SharedIs
  <2> QED  BY <2>8, <2>9, <2>10
<1>6. CASE ~Finds(Follow(host, p))
  <2>1. NoFollow(host, p).error = "missing" /\ ~Finds(NoFollow(host, p))
    BY <1>6 DEF Finds
  <2>2. p # <<>>
    <3>1. <<>> \in DOMAIN host /\ host[<<>>].kind # "link"
      BY <1>1 DEF FileSystem
    <3>2. p = <<>> => At(host, MaxLinks, <<>>, p, FALSE, FALSE) = Opened(p, MaxLinks)
      BY <1>1, <3>1, Itself
    <3>3. Follow(host, p) = At(host, MaxLinks, <<>>, p, FALSE, FALSE)
      BY <1>1, IsAtRoot
    <3>4. Opened(p, MaxLinks).error = "opened"
      BY DEF Opened
    <3> QED  BY <1>6, <3>2, <3>3, <3>4 DEF Finds
  <2>3. PICK q : q = Front(p)
    OBVIOUS
  <2>4. q \in Seq(Names) /\ q # p
    <3>1. Len(p) \in Nat /\ Len(p) > 0
      BY <2>2
    <3>2. q \in Seq(Names) /\ Len(q) = Len(p) - 1
      BY <2>3, <3>1, FrontIs
    <3> QED  BY <3>1, <3>2
  <2>5. PICK h, w, f : h = Follow(host, q) /\ w = Follow(newroot, q) /\ f = h.file
    OBVIOUS
  <2>6. h = InHost(MaxLinks, q) /\ w = InBox(MaxLinks, q)
    BY <1>2, <2>4, <2>5
  <2>7. Creatable(h, Last(p))
    BY <1>1, <2>1, <2>2, <2>3, <2>6, LastStep
  <2>8. m = IF /\ h.error = "opened" /\ Finds(w) /\ w.file = f
               /\ IsMapped(f) /\ ~MappedReadOnly(f)
            THEN ReadWrite ELSE None
    BY <1>4, <2>2, <2>3, <2>5, <2>6, <2>7 DEF Right, OfNew
  <2>9. SharedMode(p) = IF ~IsShared(q) \/ B!IsReadOnly(w.file) \/ ~IsA(host, h, "dir")
                        THEN None ELSE ReadWrite
    BY <2>1, <2>3, <2>4, <2>5 DEF SharedMode, ReadOnly, ReadWrite
  <2>10. CASE ~Finds(h)
    <3>1. ~IsShared(q)
      BY <2>5, <2>10 DEF IsShared
    <3> QED  BY <1>3, <2>8, <2>9, <2>10, <3>1 DEF Finds
  <2>11. CASE Finds(h)
    <3>1. f \in Dirs(host)
      BY <2>5, <2>7, <2>11 DEF Creatable, Finds
    <3>2. f \in DOMAIN host /\ Clear(f) /\ f \notin Known /\ IsA(host, h, "dir")
      BY <2>5, <2>11, <3>1 DEF Clear, Known, LinkNames, Dirs, IsA
    <3>3. IsMappedRight(f)
      BY <3>2, MappedIs
    <3>4. SharedIs(q, w, f)
      BY <1>1, <2>4, <2>5, <2>11, <3>2, IsSharedIs
    <3>5. CASE IsShared(q)
      <4>1. Finds(w) /\ w.file = f /\ OnHost(mounts, f)
        BY <3>4, <3>5 DEF SharedIs
      <4>2. m = IF MappedReadOnly(f) THEN None ELSE ReadWrite
        BY <2>8, <2>11, <3>3, <4>1 DEF Finds, IsMappedRight
      <4>3. SharedMode(p) = IF B!IsReadOnly(f) THEN None ELSE ReadWrite
        BY <2>9, <3>2, <3>5, <4>1
      <4>4. B!IsReadOnly(f) <=> MappedReadOnly(f)
        BY <3>3, <3>4, <4>1 DEF SharedIs, IsMappedRight
      <4> QED  BY <1>3, <4>2, <4>3, <4>4
    <3>6. CASE ~IsShared(q)
      <4>1. ~(Finds(w) /\ w.file = f /\ IsMapped(f))
        BY <3>3, <3>4, <3>6 DEF SharedIs, IsMappedRight
      <4> QED  BY <1>3, <2>8, <2>9, <3>6, <4>1
    <3> QED  BY <3>5, <3>6
  <2> QED  BY <2>10, <2>11
<1> QED  BY <1>5, <1>6

LEMMA ModeIsTold ==
    ASSUME ExportsParameters, ExportsInv, BoxInv
    PROVE  ModeIsTrue
<1>1. SUFFICES ASSUME IsPlain, Finished, NEW d \in DOMAIN host, NEW name \in Names,
                      NEW p, p = Append(d, name), ~ModeIsUnclear(p),
                      Finds(Follow(host, p)) \/ NoFollow(host, p).error = "missing"
               PROVE  GetMode(p, MaxLinks) = SharedMode(p)
  BY DEF ModeIsTrue
<1>2. Building(Mentioned)
  BY <1>1, FinishedIsBuilt
<1>3. p \in Seq(Names)
  <2>1. d \in Seq(Names)
    BY <1>2, TwoTrees DEF FileSystem
  <2> QED  BY <1>1, <2>1
<1> QED  BY <1>1, <1>2, <1>3, ModeIsShared

\* Whatever hosts and requests there are, flatpak_exports_path_get_mode() tells the
\* truth about the container (flatpak-exports.c; bubblewrap.c, setup_newroot()).
THEOREM ToldModeIsTrue == ASSUME ExportsParameters PROVE BoxSpec => []ModeIsTrue
<1>1. ASSUME ExportsInv, BoxInv PROVE ModeIsTrue
  BY <1>1, ModeIsTold
<1> QED  BY <1>1, BoxInvariant, PTL

-----------------------------------------------------------------------------
(* Slashes after the targets of links.  "." does the same, so whatever the  *)
(* kernel finds in a tree it finds in one without such slashes, too.        *)
WithDot(parts, slash) == IF slash THEN Append(parts, ".") ELSE parts

Unslashed(t) ==
    [c \in DOMAIN t |->
        IF t[c].kind # "link" THEN t[c]
        ELSE [kind |-> "link",
              target |-> [absolute |-> t[c].target.absolute,
                          parts |-> WithDot(t[c].target.parts, t[c].target.slash),
                          slash |-> FALSE]]]

IsUnslashed(t, u) ==
    /\ FileSystem(u) /\ SlashFree(u) /\ DOMAIN u = DOMAIN t
    /\ \A c \in DOMAIN t :
          /\ u[c].kind = t[c].kind
          /\ t[c].kind # "link" => u[c] = t[c]
          /\ t[c].kind = "link" =>
                /\ u[c].target.absolute = t[c].target.absolute
                /\ u[c].target.parts = WithDot(t[c].target.parts, t[c].target.slash)
                /\ u[c].target.slash = FALSE

\* "/." at the end of a target is as good as a slash.
LEMMA DotIsPart ==
    ASSUME NEW parts \in Seq(Components), NEW slash \in BOOLEAN
    PROVE  WithDot(parts, slash) \in Seq(Components)
<1>1. "." \in Components
  BY DEF Components
<1> QED  BY <1>1 DEF WithDot

\* Without such slashes it is a tree, too.
LEMMA UnslashedIs ==
    ASSUME NEW t, FileSystem(t) PROVE IsUnslashed(t, Unslashed(t))
<1>1. PICK u : u = Unslashed(t)
  OBVIOUS
<1>2. /\ DOMAIN u = DOMAIN t
      /\ \A c \in DOMAIN t :
            /\ u[c].kind = t[c].kind
            /\ t[c].kind # "link" => u[c] = t[c]
            /\ t[c].kind = "link" =>
                  /\ u[c].target.absolute = t[c].target.absolute
                  /\ u[c].target.parts = WithDot(t[c].target.parts, t[c].target.slash)
                  /\ u[c].target.slash = FALSE
  BY <1>1 DEF Unslashed
<1>3. \A c \in DOMAIN t : t[c].kind = "link" => u[c].target.parts \in Seq(Components)
  BY <1>2, DotIsPart DEF FileSystem
<1>4. FileSystem(u) /\ SlashFree(u)
  BY <1>2, <1>3 DEF FileSystem, SlashFree
<1> QED  BY <1>1, <1>2, <1>4 DEF IsUnslashed

LEMMA WithDotFacts ==
    ASSUME NEW parts \in Seq(Components), parts # <<>>, NEW slash \in BOOLEAN,
           NEW w, w = WithDot(parts, slash)
    PROVE  /\ w # <<>> /\ Head(w) = Head(parts) /\ Tail(w) = WithDot(Tail(parts), slash)
           /\ (Len(w) = 1 <=> Len(parts) = 1 /\ ~slash)
<1>1. CASE slash
  <2>1. w = Append(parts, ".") /\ "." \in Components
    BY <1>1 DEF WithDot, Components
  <2>2. Len(parts) \in Nat /\ Len(parts) > 0 /\ Len(w) = Len(parts) + 1 /\ w \in Seq(Components)
    BY <2>1, EmptySeq
  <2>3. w # <<>> /\ Head(w) = Head(parts) /\ Tail(w) = Append(Tail(parts), ".")
    BY <2>1, <2>2
  <2> QED  BY <1>1, <2>2, <2>3 DEF WithDot
<1>2. CASE ~slash
  BY <1>2 DEF WithDot
<1> QED  BY <1>1, <1>2

\* What there is to be found at a place, in the tree without such slashes.
InBare(u, a) == At(u, a.left, a.dir, WithDot(a.parts, a.slash), FALSE, a.keep)

BareBefore(t, u, a) ==
    \A b \in Places : Less(b, a) /\ b.dir \in Dirs(t) => Lookup(t, FALSE)[b] = InBare(u, b)

\* What has been found for the first component does not matter to this.
LEMMA GoesOnBare ==
    ASSUME NEW t, FileSystem(t), NEW u, IsUnslashed(t, u), NEW a \in Places, a.parts # <<>>,
           BareBefore(t, u, a), NEW found, IsResult(found, a.left), NEW strict \in BOOLEAN,
           found.error = "opened" => /\ found.file \in DOMAIN t
                                     /\ \/ strict \/ found.file \in Dirs(t)
                                        \/ Tail(a.parts) = <<>> /\ ~a.slash
    PROVE  GoOn(Lookup(t, FALSE), t, a, found, strict)
             = AndThen(u, found, strict, WithDot(Tail(a.parts), a.slash), FALSE, a.keep)
<1>1. CASE found.error # "opened"
  BY <1>1 DEF GoOn, AndThen
<1>2. CASE found.error = "opened" /\ strict /\ t[found.file].kind # "dir"
  <2>1. u[found.file].kind # "dir"
    BY <1>2 DEF IsUnslashed
  <2> QED  BY <1>2, <2>1 DEF GoOn, AndThen
<1>3. CASE found.error = "opened" /\ ~(strict /\ t[found.file].kind # "dir")
  <2>1. PICK b : b = Place(found.left, found.file, Tail(a.parts), a.slash, a.keep)
    OBVIOUS
  <2>2. found.left \in 0 .. a.left /\ found.file \in Seq(Names) /\ found.left \in Nat
    BY <1>3 DEF IsResult, Places
  <2>3. b \in Places /\ Less(b, a)
    BY <2>1, <2>2, TailPlace
  <2>4. /\ b.left = found.left /\ b.dir = found.file /\ b.parts = Tail(a.parts)
        /\ b.slash = a.slash /\ b.keep = a.keep
    BY <2>1 DEF Place
  <2>5. GoOn(Lookup(t, FALSE), t, a, found, strict) = Lookup(t, FALSE)[b]
    BY <1>3, <2>1 DEF GoOn
  <2>6. AndThen(u, found, strict, WithDot(Tail(a.parts), a.slash), FALSE, a.keep) = InBare(u, b)
    <3>1. ~(strict /\ u[found.file].kind # "dir")
      BY <1>3 DEF IsUnslashed
    <3> QED  BY <1>3, <2>4, <3>1 DEF AndThen, InBare
  <2>7. CASE found.file \in Dirs(t)
    BY <2>3, <2>4, <2>5, <2>6, <2>7 DEF BareBefore
  <2>8. CASE found.file \notin Dirs(t)
    <3>1. Tail(a.parts) = <<>> /\ ~a.slash
      BY <1>3, <2>8 DEF Dirs
    <3>2. Lookup(t, FALSE)[b] = Advance(Lookup(t, FALSE), t, FALSE, b)
      BY <2>3, LookupIs
    <3>3. Lookup(t, FALSE)[b] = Opened(found.file, found.left)
      BY <2>4, <3>1, <3>2 DEF Advance
    <3>4. a.keep \in BOOLEAN /\ FileSystem(u)
      BY DEF Places, IsUnslashed
    <3>5. At(u, found.left, found.file, <<>>, FALSE, a.keep) = Opened(found.file, found.left)
      BY <2>2, <3>4, AtEnd
    <3>6. InBare(u, b) = At(u, found.left, found.file, <<>>, FALSE, a.keep)
      BY <2>4, <3>1 DEF InBare, WithDot
    <3> QED  BY <2>5, <2>6, <3>3, <3>5, <3>6
  <2> QED  BY <2>7, <2>8
<1> QED  BY <1>1, <1>2, <1>3

\* One step of a lookup, if all shorter ones are the same in both trees.
LEMMA StrictStep ==
    ASSUME NEW t, FileSystem(t), NEW u, IsUnslashed(t, u), NEW a \in Places, a.dir \in Dirs(t),
           BareBefore(t, u, a)
    PROVE  Lookup(t, FALSE)[a] = InBare(u, a)
<1>1. PICK n, d, p, s, k : n = a.left /\ d = a.dir /\ p = a.parts /\ s = a.slash /\ k = a.keep
  OBVIOUS
<1>2. /\ n \in Nat /\ d \in Seq(Names) /\ p \in Seq(Components) /\ s \in BOOLEAN /\ k \in BOOLEAN
      /\ d \in Dirs(t) /\ d \in DOMAIN t /\ d \in Dirs(u) /\ FileSystem(u) /\ FALSE \in BOOLEAN
  BY <1>1 DEF Places, IsUnslashed, Dirs
<1>3. PICK w : w = WithDot(p, s)
  OBVIOUS
<1>4. w \in Seq(Components) /\ InBare(u, a) = At(u, n, d, w, FALSE, k)
  BY <1>1, <1>2, <1>3, DotIsPart DEF InBare
<1>5. PICK g : g = Lookup(t, FALSE)
  OBVIOUS
<1>6. g[a] = Advance(g, t, FALSE, a)
  BY <1>5, LookupIs
<1>7. CASE p = <<>>
  <2>1. g[a] = Opened(d, n)
    BY <1>1, <1>6, <1>7 DEF Advance
  <2>2. At(u, n, d, <<>>, FALSE, k) = Opened(d, n)
    BY <1>2, AtEnd
  <2>3. CASE ~s
    <3>1. w = <<>>
      BY <1>3, <1>7, <2>3 DEF WithDot
    <3> QED  BY <1>4, <1>5, <2>1, <2>2, <3>1
  <2>4. CASE s
    <3>1. w = <<".">> /\ w # <<>> /\ Head(w) = "." /\ Tail(w) = <<>>
      BY <1>3, <1>7, <2>4 DEF WithDot
    <3>2. PICK c : c = Append(d, Head(w))
      OBVIOUS
    <3>3. Unfolds(u, n, d, w, FALSE, k, c)
      BY <1>2, <1>4, <3>1, <3>2, AtStep
    <3>4. At(u, n, d, w, FALSE, k) = At(u, n, d, <<>>, FALSE, k)
      BY <3>1, <3>3 DEF Unfolds
    <3> QED  BY <1>4, <1>5, <2>1, <2>2, <3>4
  <2> QED  BY <2>3, <2>4
<1>8. CASE p # <<>>
  <2>1. /\ w # <<>> /\ Head(w) = Head(p) /\ Tail(w) = WithDot(Tail(p), s)
        /\ (Len(w) = 1 <=> Len(p) = 1 /\ ~s)
    BY <1>2, <1>3, <1>8, WithDotFacts
  <2>2. PICK c : c = Append(d, Head(p))
    OBVIOUS
  <2>3. Unfolds(u, n, d, w, FALSE, k, c)
    BY <1>2, <1>4, <2>1, <2>2, AtStep
  <2>4. ASSUME NEW found, IsResult(found, n), NEW strict \in BOOLEAN,
               found.error = "opened" => /\ found.file \in DOMAIN t
                                         /\ \/ strict \/ found.file \in Dirs(t)
                                            \/ Tail(p) = <<>> /\ ~s
        PROVE  GoOn(g, t, a, found, strict) = AndThen(u, found, strict, Tail(w), FALSE, k)
    <3>1. /\ a.parts # <<>> /\ IsResult(found, a.left)
          /\ found.error = "opened" => /\ found.file \in DOMAIN t
                                       /\ \/ strict \/ found.file \in Dirs(t)
                                          \/ Tail(a.parts) = <<>> /\ ~a.slash
      BY <1>1, <1>8, <2>4
    <3>2. GoOn(Lookup(t, FALSE), t, a, found, strict)
            = AndThen(u, found, strict, WithDot(Tail(a.parts), a.slash), FALSE, a.keep)
      BY <2>4, <3>1, GoesOnBare
    <3> QED  BY <1>1, <1>5, <2>1, <3>2
  <2>5. \A e \in Dirs(t) : GoOn(g, t, a, Opened(e, n), FALSE) = At(u, n, e, Tail(w), FALSE, k)
    <3> TAKE e \in Dirs(t)
    <3>1. e \in Seq(Names) /\ e \in DOMAIN t
      BY DEF FileSystem, Dirs
    <3>2. Opened(e, n).file = e /\ IsResult(Opened(e, n), n)
      BY <1>2, <3>1 DEF Opened, IsResult
    <3>3. GoOn(g, t, a, Opened(e, n), FALSE) = AndThen(u, Opened(e, n), FALSE, Tail(w), FALSE, k)
      BY <1>2, <2>4, <3>1, <3>2
    <3> QED  BY <3>3 DEF AndThen, Opened
  <2>6. CASE Head(p) = "."
    <3>1. g[a] = GoOn(g, t, a, Opened(d, n), FALSE)
      BY <1>1, <1>6, <1>8, <2>6 DEF Advance
    <3>2. At(u, n, d, w, FALSE, k) = At(u, n, d, Tail(w), FALSE, k)
      BY <2>1, <2>3, <2>6 DEF Unfolds
    <3> QED  BY <1>2, <1>4, <1>5, <2>5, <3>1, <3>2
  <2>7. CASE Head(p) = ".."
    <3>1. g[a] = GoOn(g, t, a, Opened(Parent(d), n), FALSE)
      BY <1>1, <1>6, <1>8, <2>7 DEF Advance, Parent
    <3>2. At(u, n, d, w, FALSE, k) = At(u, n, Parent(d), Tail(w), FALSE, k)
      BY <2>1, <2>3, <2>7 DEF Unfolds
    <3>3. Parent(d) \in Dirs(t)
      BY <1>2, ParentIsDir
    <3> QED  BY <1>4, <1>5, <2>5, <3>1, <3>2, <3>3
  <2>8. CASE Head(p) \notin {".", ".."}
    <3>1. c \in Seq(Names) /\ DOMAIN u = DOMAIN t /\ (c \in DOMAIN t => u[c].kind = t[c].kind)
      BY <2>1, <2>3, <2>8 DEF Unfolds, IsUnslashed
    <3>2. CASE c \notin DOMAIN t
      <4>1. g[a] = Error("missing")
        BY <1>1, <1>6, <1>8, <2>2, <2>8, <3>2 DEF Advance
      <4>2. At(u, n, d, w, FALSE, k) = Error("missing")
        BY <2>1, <2>3, <2>8, <3>1, <3>2 DEF Unfolds
      <4> QED  BY <1>4, <1>5, <4>1, <4>2
    <3>3. CASE c \in DOMAIN t /\ (t[c].kind # "link" \/ (k /\ Len(p) = 1 /\ ~s))
      <4>1. g[a] = GoOn(g, t, a, Opened(c, n), Len(p) # 1 \/ s)
        BY <1>1, <1>6, <1>8, <2>2, <2>8, <3>3 DEF Advance
      <4>2. At(u, n, d, w, FALSE, k) = AndThen(u, Opened(c, n), Len(w) # 1, Tail(w), FALSE, k)
        BY <2>1, <2>3, <2>8, <3>1, <3>3 DEF Unfolds
      <4>3. Opened(c, n).file = c /\ IsResult(Opened(c, n), n) /\ (Len(p) # 1 \/ s) \in BOOLEAN
        BY <1>2, <3>1 DEF Opened, IsResult
      <4>4. (Len(p) # 1 \/ s) \/ (Tail(p) = <<>> /\ ~s)
        BY <1>2, <1>8, TailFacts
      <4>5. GoOn(g, t, a, Opened(c, n), Len(p) # 1 \/ s)
              = AndThen(u, Opened(c, n), Len(p) # 1 \/ s, Tail(w), FALSE, k)
        BY <2>4, <3>3, <4>3, <4>4
      <4>6. (Len(w) # 1) = (Len(p) # 1 \/ s)
        BY <2>1
      <4> QED  BY <1>4, <1>5, <4>1, <4>2, <4>5, <4>6
    <3>4. CASE c \in DOMAIN t /\ t[c].kind = "link" /\ ~(k /\ Len(p) = 1 /\ ~s)
      <4>1. PICK link, more : link = t[c].target /\ more = u[c].target
        OBVIOUS
      <4>2. /\ link.parts \in Seq(Components) /\ link.slash \in BOOLEAN
            /\ more.absolute = link.absolute /\ more.slash = FALSE
            /\ more.parts = WithDot(link.parts, link.slash) /\ more.parts \in Seq(Components)
        BY <1>2, <3>1, <3>4, <4>1 DEF IsUnslashed, FileSystem
      <4>3. CASE n = 0
        <5>1. g[a] = Error("loop")
          BY <1>1, <1>6, <1>8, <2>2, <2>8, <3>4, <4>3 DEF Advance
        <5>2. At(u, n, d, w, FALSE, k) = Error("loop")
          BY <2>1, <2>3, <2>8, <3>1, <3>4, <4>3 DEF Unfolds
        <5> QED  BY <1>4, <1>5, <5>1, <5>2
      <4>4. CASE n # 0
        <5>1. PICK e : e = WalksFrom(d, link)
          OBVIOUS
        <5>2. e \in Dirs(t) /\ e \in Seq(Names) /\ e \in Dirs(u) /\ n - 1 \in Nat /\ n - 1 \in 0 .. n
              /\ e = WalksFrom(d, more)
          BY <1>2, <3>4, <4>1, <4>2, <4>4, <5>1, TargetFacts DEF WalksFrom, Dirs, IsUnslashed
        <5>3. PICK b : b = Place(n - 1, e, link.parts, link.slash, FALSE)
          OBVIOUS
        <5>4. /\ b \in Places /\ b.left = n - 1 /\ b.dir = e /\ b.parts = link.parts
              /\ b.slash = link.slash /\ b.keep = FALSE
          BY <4>2, <5>2, <5>3 DEF Place, Places
        <5>5. PICK X : X = At(u, n - 1, e, more.parts, FALSE, FALSE)
          OBVIOUS
        <5>6. g[b] = X
          <6>1. Less(b, a)
            BY <1>1, <1>2, <4>4, <5>4 DEF Less
          <6>2. g[b] = InBare(u, b)
            BY <1>5, <5>2, <5>4, <6>1 DEF BareBefore
          <6> QED  BY <4>2, <5>4, <5>5, <6>2 DEF InBare
        <5>7. g[a] = GoOn(g, t, a, X, Len(p) # 1 \/ s)
          BY <1>1, <1>6, <1>8, <2>2, <2>8, <3>4, <4>1, <4>4, <5>1, <5>3, <5>6
             DEF Advance, WalksFrom
        <5>8. At(u, n, d, w, FALSE, k) = AndThen(u, X, Len(w) # 1, Tail(w), FALSE, k)
          BY <2>1, <2>3, <2>8, <3>1, <3>4, <4>1, <4>2, <4>4, <5>2, <5>5 DEF Unfolds
        <5>9. IsResult(X, n) /\ (X.error = "opened" => X.file \in DOMAIN t)
          <6>1. IsResult(X, n - 1)
            BY <1>2, <4>2, <5>2, <5>5, AtResult
          <6>2. X.error = "opened" => IsFinal(u, FALSE, X.file)
            BY <1>2, <4>2, <5>2, <5>5, FoundExists
          <6> QED  BY <1>2, <3>1, <5>2, <6>1, <6>2, FewerIsResult DEF IsFinal
        <5>10. (Len(p) # 1 \/ s) \/ (Tail(p) = <<>> /\ ~s)
          BY <1>2, <1>8, TailFacts
        <5>11. GoOn(g, t, a, X, Len(p) # 1 \/ s) = AndThen(u, X, Len(p) # 1 \/ s, Tail(w), FALSE, k)
          BY <2>4, <5>9, <5>10
        <5>12. (Len(w) # 1) = (Len(p) # 1 \/ s)
          BY <2>1
        <5> QED  BY <1>4, <1>5, <5>7, <5>8, <5>11, <5>12
      <4> QED  BY <4>3, <4>4
    <3> QED  BY <3>2, <3>3, <3>4
  <2> QED  BY <2>6, <2>7, <2>8
<1> QED  BY <1>7, <1>8

\* Whatever there is in a tree, the kernel finds it in the one without slashes.
LEMMA FindIs ==
    ASSUME MaxLinks \in Nat, NEW t, FileSystem(t), NEW u, IsUnslashed(t, u),
           NEW p \in Seq(Components)
    PROVE  /\ Follow(t, p) = At(u, MaxLinks, <<>>, p, FALSE, FALSE)
           /\ NoFollow(t, p) = At(u, MaxLinks, <<>>, p, FALSE, TRUE)
<1> DEFINE S == {a \in Places : a.dir \in Dirs(t) /\ Lookup(t, FALSE)[a] # InBare(u, a)}
<1>1. S = {}
  <2>1. SUFFICES ASSUME S # {} PROVE FALSE
    OBVIOUS
  <2>2. PICK m \in S : \A b \in S : ~Less(b, m)
    <3>1. S \in SUBSET Places
      OBVIOUS
    <3> HIDE DEF S
    <3> QED  BY <2>1, <3>1, HasLeast
  <2>3. BareBefore(t, u, m)
    BY <2>2 DEF BareBefore
  <2>4. m \in Places /\ m.dir \in Dirs(t) /\ Lookup(t, FALSE)[m] # InBare(u, m)
    BY <2>2
  <2> HIDE DEF S
  <2> QED  BY <2>3, <2>4, StrictStep
<1>2. \A k \in BOOLEAN : Lookup(t, FALSE)[Place(MaxLinks, <<>>, p, FALSE, k)]
                           = At(u, MaxLinks, <<>>, p, FALSE, k)
  <2> TAKE k \in BOOLEAN
  <2>1. PICK a : a = Place(MaxLinks, <<>>, p, FALSE, k)
    OBVIOUS
  <2>2. /\ a \in Places /\ a.left = MaxLinks /\ a.dir = <<>> /\ a.parts = p
        /\ a.slash = FALSE /\ a.keep = k
    BY <2>1 DEF Place, Places
  <2>3. a.dir \in Dirs(t)
    BY <2>2 DEF FileSystem, Dirs
  <2>4. Lookup(t, FALSE)[a] = InBare(u, a)
    BY <1>1, <2>2, <2>3
  <2> QED  BY <2>1, <2>2, <2>4 DEF InBare, WithDot
<1> QED  BY <1>2 DEF NoFollow, Follow, Find

-----------------------------------------------------------------------------
(* Paths and trees that grow.                                              *)
\* A path, and then components of another one.
Joined(S, e, d, b, r) ==
    /\ r[b] = e
    /\ \A i \in b .. Len(d) : r[i] \in Seq(S) /\ Len(r[i]) = Len(e) + i - b
    /\ \A i \in b .. Len(d) - 1 : r[i + 1] = Append(r[i], d[i + 1])

\* Each of them is the one before it and one more component.
LEMMA Joins ==
    ASSUME NEW S, NEW e \in Seq(S), NEW d \in Seq(S), NEW b \in 0 .. Len(d),
           NEW r, r = [i \in b .. Len(d) |-> e \o SubSeq(d, b + 1, i)]
    PROVE  Joined(S, e, d, b, r)
<1>1. Len(d) \in Nat /\ b \in Nat /\ Len(e) \in Nat
  OBVIOUS
<1>2. \A i \in b .. Len(d) : /\ SubSeq(d, b + 1, i) \in Seq(S)
                             /\ Len(SubSeq(d, b + 1, i)) = i - b
                             /\ \A j \in 1 .. i - b : SubSeq(d, b + 1, i)[j] = d[b + j]
  <2> TAKE i \in b .. Len(d)
  <2>1. PICK v : v = SubSeq(d, b + 1, i)
    OBVIOUS
  <2>2. b + 1 \in 1 .. Len(d) + 1 /\ i \in b .. Len(d)
    BY <1>1
  <2>3. v \in Seq(S) /\ Len(v) = (IF b + 1 <= i THEN i - (b + 1) + 1 ELSE 0)
        /\ \A j \in 1 .. i - (b + 1) + 1 : v[j] = d[(b + 1) + j - 1]
    BY <1>1, <2>1, <2>2, SubSeqProperties
  <2>4. \A j \in 1 .. i - b : (b + 1) + j - 1 = b + j
    BY <1>1
  <2>5. v \in Seq(S) /\ Len(v) = i - b /\ \A j \in 1 .. i - b : v[j] = d[b + j]
    BY <1>1, <2>3, <2>4
  <2> QED  BY <2>1, <2>5
<1>3. \A i \in b .. Len(d) : r[i] \in Seq(S) /\ Len(r[i]) = Len(e) + i - b
  <2> TAKE i \in b .. Len(d)
  <2>1. PICK v : v = SubSeq(d, b + 1, i)
    OBVIOUS
  <2>2. v \in Seq(S) /\ Len(v) = i - b
    BY <1>2, <2>1
  <2>3. PICK z : z = e \o v
    OBVIOUS
  <2>4. z \in Seq(S) /\ Len(z) = Len(e) + Len(v)
    BY <2>2, <2>3, ConcatProperties
  <2>5. r[i] = z /\ i \in Nat
    BY <1>1, <2>1, <2>3
  <2> QED  BY <1>1, <2>2, <2>4, <2>5
<1>4. r[b] = e
  <2>1. b \in b .. Len(d)
    BY <1>1
  <2>2. SubSeq(d, b + 1, b) = <<>>
    BY <1>1, <1>2, <2>1
  <2> QED  BY <2>1, <2>2
<1>5. \A i \in b .. Len(d) - 1 : r[i + 1] = Append(r[i], d[i + 1])
  <2> TAKE i \in b .. Len(d) - 1
  <2>1. i \in b .. Len(d) /\ i + 1 \in b .. Len(d) /\ i + 1 \in 1 .. Len(d) /\ i \in Nat
    BY <1>1
  <2>2. PICK u, v, x : u = SubSeq(d, b + 1, i) /\ v = SubSeq(d, b + 1, i + 1) /\ x = d[i + 1]
    OBVIOUS
  <2>3. /\ u \in Seq(S) /\ Len(u) = i - b /\ \A j \in 1 .. i - b : u[j] = d[b + j]
        /\ v \in Seq(S) /\ Len(v) = i - b + 1 /\ \A j \in 1 .. i - b + 1 : v[j] = d[b + j]
        /\ x \in S
    <3>1. (i + 1) - b = i - b + 1
      BY <1>1, <2>1
    <3> QED  BY <1>2, <2>1, <2>2, <3>1
  <2>4. PICK w : w = Append(u, x)
    OBVIOUS
  <2>5. w \in Seq(S) /\ Len(w) = i - b + 1
    BY <1>1, <2>1, <2>3, <2>4
  <2>6. \A j \in 1 .. i - b + 1 : w[j] = v[j]
    <3> TAKE j \in 1 .. i - b + 1
    <3>1. CASE j <= i - b
      <4>1. j \in 1 .. i - b /\ j \in 1 .. Len(u)
        BY <1>1, <2>1, <2>3, <3>1
      <4>2. w[j] = u[j]
        BY <2>3, <2>4, <4>1
      <4> QED  BY <2>3, <4>1, <4>2
    <3>2. CASE j = i - b + 1
      <4>1. b + j = i + 1 /\ j = Len(u) + 1
        BY <1>1, <2>1, <2>3, <3>2
      <4>2. w[j] = x
        BY <2>3, <2>4, <4>1, AppendProperties
      <4> QED  BY <2>2, <2>3, <3>2, <4>1, <4>2
    <3> QED  BY <1>1, <2>1, <3>1, <3>2
  <2>7. w = v
    BY <2>3, <2>5, <2>6, SeqEqual
  <2>8. e \o w = Append(e \o u, x)
    BY <2>3, <2>4, ConcatOfAppend
  <2>9. r[i] = e \o u /\ r[i + 1] = e \o v
    BY <2>1, <2>2
  <2> QED  BY <2>2, <2>7, <2>8, <2>9
<1> QED  BY <1>3, <1>4, <1>5 DEF Joined

\* What is missing has nothing below it.
LEMMA MissingBelow ==
    ASSUME NEW t, FileSystem(t), NEW e, NEW d \in Seq(Names), NEW b \in 0 .. Len(d), b < Len(d),
           NEW r, Joined(Names, e, d, b, r), r[b + 1] \notin DOMAIN t
    PROVE  \A i \in b + 1 .. Len(d) : r[i] \notin DOMAIN t
<1>1. Len(d) \in Nat /\ b \in Nat /\ Len(d) - b - 1 \in Nat
  OBVIOUS
<1>2. PICK S : S = {k \in 0 .. Len(d) - b - 1 : r[b + 1 + k] \notin DOMAIN t}
  OBVIOUS
<1>3. 0 \in S
  BY <1>1, <1>2
<1>4. \A k \in 0 .. (Len(d) - b - 1) - 1 : k \in S => k + 1 \in S
  <2> TAKE k \in 0 .. (Len(d) - b - 1) - 1
  <2>1. PICK i : i = b + 1 + k
    OBVIOUS
  <2>2. /\ i \in b .. Len(d) - 1 /\ b + 1 + (k + 1) = i + 1 /\ i \in b .. Len(d) /\ i + 1 \in 1 .. Len(d)
        /\ k + 1 \in 0 .. Len(d) - b - 1 /\ k \in 0 .. Len(d) - b - 1
    BY <1>1, <2>1
  <2>3. r[i + 1] = Append(r[i], d[i + 1]) /\ r[i] \in Seq(Names) /\ d[i + 1] \in Names
    BY <2>2 DEF Joined
  <2>4. Front(r[i + 1]) = r[i] /\ r[i + 1] # <<>>
    BY <2>3, FrontOfAppend
  <2>5. r[i + 1] \in DOMAIN t => r[i] \in DOMAIN t
    BY <2>4 DEF FileSystem
  <2> QED  BY <1>2, <2>1, <2>2, <2>5
<1>5. \A k \in 0 .. Len(d) - b - 1 : k \in S
  BY <1>1, <1>3, <1>4, Climbs
<1> QED
  <2> TAKE i \in b + 1 .. Len(d)
  <2>1. i - b - 1 \in 0 .. Len(d) - b - 1 /\ b + 1 + (i - b - 1) = i
    BY <1>1
  <2> QED  BY <1>2, <1>5, <2>1

\* A tree with a link that is new, in one of its directories.
AddsLink(t, c, v, g) ==
    /\ v.target.parts \in Seq(Components) /\ v.target.slash \in BOOLEAN
    /\ DOMAIN g = DOMAIN t \cup {c} /\ g[c] = v
    /\ \A p \in DOMAIN t : g[p] = t[p]

LEMMA GrowsLink ==
    ASSUME NEW t, FileSystem(t), NEW d \in Dirs(t), NEW x \in Names, NEW c, c = Append(d, x),
           NEW v, NEW g, AddsLink(t, c, v, g)
    PROVE  FileSystem(g)
<1>1. d \in Seq(Names) /\ d \in DOMAIN t /\ t[d].kind = "dir"
  BY DEF FileSystem, Dirs
<1>2. c \in Seq(Names) /\ Front(c) = d /\ c # <<>>
  <2>1. c \in Seq(Names)
    BY <1>1
  <2> QED  BY <1>1, <2>1, FrontOfAppend
<1>3. DOMAIN g = DOMAIN t \cup {c} /\ g[c] = v /\ \A p \in DOMAIN t : g[p] = t[p]
  BY DEF AddsLink
<1>4. DOMAIN g \subseteq Seq(Names) /\ <<>> \in DOMAIN g /\ g[<<>>].kind = "dir"
  BY <1>2, <1>3 DEF FileSystem
<1>5. \A p \in DOMAIN g \ {<<>>} : Front(p) \in DOMAIN g /\ g[Front(p)].kind = "dir"
  <2> TAKE p \in DOMAIN g \ {<<>>}
  <2>1. CASE p = c
    BY <1>1, <1>2, <1>3, <2>1
  <2>2. CASE p # c
    BY <1>3, <2>2 DEF FileSystem
  <2> QED  BY <2>1, <2>2
<1>6. \A p \in DOMAIN g : g[p].kind = "link" => /\ g[p].target.parts \in Seq(Components)
                                               /\ g[p].target.slash \in BOOLEAN
  <2> TAKE p \in DOMAIN g
  <2>1. CASE p = c
    BY <1>3, <2>1 DEF AddsLink
  <2>2. CASE p # c
    BY <1>3, <2>2 DEF FileSystem
  <2> QED  BY <2>1, <2>2
<1> QED  BY <1>4, <1>5, <1>6 DEF FileSystem

\* A tree with new directories, one in the other, and perhaps a file in the last one.
GrowsBy(t, r, b, n, len, g) ==
    /\ DOMAIN g = DOMAIN t \cup {r[i] : i \in b + 1 .. n}
    /\ \A p \in DOMAIN t : p \notin {r[i] : i \in b + 1 .. n} => g[p] = t[p]
    /\ \A i \in b + 1 .. n : g[r[i]].kind = "dir" \/ (g[r[i]].kind = "file" /\ i = len)

Grown(t, r, b, n, len, g) ==
    /\ FileSystem(g) /\ r[n] \in DOMAIN g
    /\ \A p \in DOMAIN t : p \in DOMAIN g /\ g[p] = t[p]
    /\ n < len => r[n] \in Dirs(g) /\ r[n + 1] \notin DOMAIN g

\* It is a tree, and what was there has not changed.
LEMMA Grows ==
    ASSUME NEW t, FileSystem(t), NEW e \in DOMAIN t, NEW d \in Seq(Names), NEW b \in 0 .. Len(d),
           NEW r, Joined(Names, e, d, b, r), NEW n \in b .. Len(d),
           b < Len(d) => e \in Dirs(t) /\ r[b + 1] \notin DOMAIN t,
           NEW g, GrowsBy(t, r, b, n, Len(d), g)
    PROVE  Grown(t, r, b, n, Len(d), g)
<1>1. Len(d) \in Nat /\ b \in Nat /\ n \in Nat /\ e \in Seq(Names) /\ Len(e) \in Nat
  BY DEF FileSystem
<1>2. /\ r[b] = e
      /\ \A i \in b .. Len(d) : r[i] \in Seq(Names) /\ Len(r[i]) = Len(e) + i - b
  BY DEF Joined
<1>3. \A i \in b + 1 .. Len(d) : /\ r[i] # <<>> /\ Front(r[i]) = r[i - 1]
  <2> TAKE i \in b + 1 .. Len(d)
  <2>1. PICK j : j = i - 1
    OBVIOUS
  <2>2. j \in b .. Len(d) - 1 /\ j \in b .. Len(d) /\ j + 1 = i /\ i \in 1 .. Len(d)
    BY <1>1, <2>1
  <2>3. r[j + 1] = Append(r[j], d[j + 1]) /\ r[j] \in Seq(Names) /\ d[j + 1] \in Names
    BY <2>2 DEF Joined
  <2> QED  BY <2>1, <2>2, <2>3, FrontOfAppend
<1>4. \A i \in b + 1 .. Len(d) : r[i] \notin DOMAIN t
  <2> TAKE i \in b + 1 .. Len(d)
  <2>1. b < Len(d)
    BY <1>1
  <2> QED  BY <2>1, MissingBelow
<1>5. \A p \in DOMAIN t : p \in DOMAIN g /\ g[p] = t[p]
  <2> TAKE p \in DOMAIN t
  <2>1. \A i \in b + 1 .. n : i \in b + 1 .. Len(d)
    BY <1>1
  <2> QED  BY <1>4, <2>1 DEF GrowsBy
<1>6. \A i \in b .. n : i < Len(d) => r[i] \in DOMAIN g /\ g[r[i]].kind = "dir"
  <2> TAKE i \in b .. n
  <2>1. CASE i = b
    BY <1>2, <1>5, <2>1 DEF Dirs
  <2>2. CASE i # b
    <3>1. i \in b + 1 .. n
      BY <1>1, <2>2
    <3> QED  BY <1>1, <3>1 DEF GrowsBy
  <2> QED  BY <2>1, <2>2
<1>7. r[n] \in DOMAIN g
  <2>1. CASE n = b
    BY <1>2, <1>5, <2>1
  <2>2. CASE n # b
    <3>1. n \in b + 1 .. n
      BY <1>1, <2>2
    <3> QED  BY <3>1 DEF GrowsBy
  <2> QED  BY <2>1, <2>2
<1>8. DOMAIN g \subseteq Seq(Names) /\ <<>> \in DOMAIN g /\ g[<<>>].kind = "dir"
  <2>1. \A i \in b + 1 .. n : r[i] \in Seq(Names)
    BY <1>1, <1>2
  <2> QED  BY <1>5, <2>1 DEF FileSystem, GrowsBy
<1>9. \A p \in DOMAIN g \ {<<>>} : Front(p) \in DOMAIN g /\ g[Front(p)].kind = "dir"
  <2> TAKE p \in DOMAIN g \ {<<>>}
  <2>1. CASE p \in DOMAIN t
    BY <1>5, <2>1 DEF FileSystem
  <2>2. CASE p \notin DOMAIN t
    <3>1. PICK i \in b + 1 .. n : p = r[i]
      BY <2>2 DEF GrowsBy
    <3>2. i \in b + 1 .. Len(d) /\ i - 1 \in b .. n /\ i - 1 < Len(d)
      BY <1>1
    <3> QED  BY <1>3, <1>6, <3>1, <3>2
  <2> QED  BY <2>1, <2>2
<1>10. \A p \in DOMAIN g : g[p].kind = "link" => /\ g[p].target.parts \in Seq(Components)
                                                /\ g[p].target.slash \in BOOLEAN
  <2> TAKE p \in DOMAIN g
  <2>1. CASE p \in DOMAIN t
    BY <1>5, <2>1 DEF FileSystem
  <2>2. CASE p \notin DOMAIN t
    <3>1. PICK i \in b + 1 .. n : p = r[i]
      BY <2>2 DEF GrowsBy
    <3>2. g[p].kind \in {"dir", "file"}
      BY <3>1 DEF GrowsBy
    <3> QED  BY <3>2
  <2> QED  BY <2>1, <2>2
<1>11. FileSystem(g)
  BY <1>8, <1>9, <1>10 DEF FileSystem
<1>12. ASSUME n < Len(d) PROVE r[n] \in Dirs(g) /\ r[n + 1] \notin DOMAIN g
  <2>1. n \in b .. n /\ n + 1 \in b + 1 .. Len(d) /\ n + 1 \in b .. Len(d)
    BY <1>1, <1>12
  <2>2. r[n] \in Dirs(g)
    BY <1>6, <1>12, <2>1 DEF Dirs
  <2>3. \A i \in b + 1 .. n : r[n + 1] # r[i]
    <3> TAKE i \in b + 1 .. n
    <3>1. i \in b .. Len(d)
      BY <1>1
    <3>2. Len(r[n + 1]) = Len(e) + (n + 1) - b /\ Len(r[i]) = Len(e) + i - b
      BY <1>2, <2>1, <3>1
    <3> QED  BY <1>1, <3>2
  <2>4. r[n + 1] \notin DOMAIN t
    BY <1>4, <2>1
  <2> QED  BY <2>2, <2>3, <2>4 DEF GrowsBy
<1> QED  BY <1>5, <1>7, <1>11, <1>12 DEF Grown

\* A path and another one after it.
IsJoin(S, m, p, q) ==
    /\ q \in Seq(S) /\ IsPrefix(m, q) /\ B!After(m, q) = p
    /\ p = <<>> => q = m
    /\ p # <<>> => /\ q # <<>> /\ Front(p) \in Seq(S) /\ Front(q) = m \o Front(p)

LEMMA JoinIs ==
    ASSUME NEW S, NEW m \in Seq(S), NEW p \in Seq(S), NEW q, q = m \o p
    PROVE  IsJoin(S, m, p, q)
<1>1. Splits(S, q, m, p)
  BY Halves
<1>2. /\ q \in Seq(S) /\ Len(m) \in 0 .. Len(q) /\ Len(m) \in Nat /\ Len(q) \in Nat
      /\ Upto(q, Len(m)) = m /\ From(q, Len(m) + 1) = p
  BY <1>1 DEF Splits
<1>3. IsPrefix(m, q)
  <2>1. PICK i : i = Len(m)
    OBVIOUS
  <2>2. IsPrefix(Upto(q, i), q)
    BY <1>2, <2>1, Uppers
  <2> QED  BY <1>2, <2>1, <2>2
<1>4. B!After(m, q) = p
  BY <1>2 DEF B!After, From
<1>5. ASSUME p = <<>> PROVE q = m
  BY <1>5
<1>6. ASSUME p # <<>> PROVE q # <<>> /\ Front(p) \in Seq(S) /\ Front(q) = m \o Front(p)
  <2>1. PICK f, x : f = Front(p) /\ x = Last(p)
    OBVIOUS
  <2>2. Len(p) \in Nat /\ Len(p) > 0
    BY <1>6
  <2>3. /\ f \in Seq(S) /\ Len(f) = Len(p) - 1 /\ \A j \in 1 .. Len(p) - 1 : f[j] = p[j]
        /\ x = p[Len(p)] /\ x \in S
    BY <2>1, <2>2, FrontIs, LastIs
  <2>4. p = Append(f, x)
    <3>1. PICK z : z = Append(f, x)
      OBVIOUS
    <3>2. z \in Seq(S) /\ Len(z) = Len(p)
      BY <2>2, <2>3, <3>1
    <3>3. \A j \in 1 .. Len(p) : z[j] = p[j]
      BY <2>2, <2>3, <3>1
    <3>4. z = p
      BY <3>2, <3>3, SeqEqual
    <3> QED  BY <3>1, <3>4
  <2>5. PICK a : a = m \o f
    OBVIOUS
  <2>6. q = Append(a, x)
    BY <2>3, <2>4, <2>5, ConcatOfAppend
  <2>7. a \in Seq(S)
    BY <2>3, <2>5
  <2>8. Front(q) = a /\ q # <<>>
    BY <2>3, <2>6, <2>7, FrontOfAppend
  <2> QED  BY <2>1, <2>3, <2>5, <2>8
<1> QED  BY <1>2, <1>3, <1>4, <1>5, <1>6 DEF IsJoin

\* What can be mounted: a tree, or a single file.
IsContent(c) ==
    /\ DOMAIN c \subseteq Seq(Names) /\ <<>> \in DOMAIN c
    /\ \A p \in DOMAIN c \ {<<>>} : Front(p) \in DOMAIN c /\ c[Front(p)].kind = "dir"
    /\ \A p \in DOMAIN c : c[p].kind = "link" => /\ c[p].target.parts \in Seq(Components)
                                                /\ c[p].target.slash \in BOOLEAN

\* What a directory or file of the host brings along can be mounted.
LEMMA ContentIs ==
    ASSUME FileSystem(host), NEW s \in DOMAIN host, NEW c, c = B!Content(s)
    PROVE  IsContent(c) /\ c[<<>>] = host[s]
<1>1. \A h \in DOMAIN host : h \in Seq(Names)
  BY DEF FileSystem
<1>2. \A a, b : B!IsPrefix(a, b) <=> IsPrefix(a, b)
  BY DEF B!IsPrefix, IsPrefix
<1>3. PICK below : below = {h \in DOMAIN host : IsPrefix(s, h)}
  OBVIOUS
<1>4. c = [p \in {B!After(s, h) : h \in below} |-> host[s \o p]]
  BY <1>2, <1>3 DEF B!Content
<1>5. \A h \in below : s \o B!After(s, h) = h
  BY <1>1, <1>3, AfterIs
<1>6. \A h \in below : B!After(s, h) \in Seq(Names)
  <2> TAKE h \in below
  <2>1. h \in Seq(Names) /\ s \in Seq(Names) /\ IsPrefix(s, h)
    BY <1>1, <1>3
  <2>2. Len(s) + 1 \in Nat /\ Len(s) + 1 > 0 /\ Len(h) \in Nat
    BY <2>1
  <2> QED  BY <2>1, <2>2 DEF B!After
<1>7. DOMAIN c \subseteq Seq(Names) /\ \A p \in DOMAIN c : s \o p \in below /\ c[p] = host[s \o p]
  BY <1>4, <1>5, <1>6
<1>8. \A p \in Seq(Names) : s \o p \in DOMAIN host => p \in DOMAIN c
  <2> SUFFICES ASSUME NEW p \in Seq(Names), NEW h, h = s \o p, h \in DOMAIN host
               PROVE  p \in DOMAIN c
    OBVIOUS
  <2>1. IsJoin(Names, s, p, h)
    BY <1>1, JoinIs
  <2>2. h \in below /\ p = B!After(s, h)
    BY <1>3, <2>1 DEF IsJoin
  <2> QED  BY <1>4, <2>2
<1>9. <<>> \in DOMAIN c /\ c[<<>>] = host[s]
  <2>1. s \o <<>> = s /\ <<>> \in Seq(Names)
    BY <1>1
  <2> QED  BY <1>7, <1>8, <2>1
<1>10. \A p \in DOMAIN c \ {<<>>} : Front(p) \in DOMAIN c /\ c[Front(p)].kind = "dir"
  <2> TAKE p \in DOMAIN c \ {<<>>}
  <2>1. PICK h : h = s \o p
    OBVIOUS
  <2>2. IsJoin(Names, s, p, h) /\ h \in DOMAIN host
    BY <1>1, <1>3, <1>7, <2>1, JoinIs
  <2>3. h # <<>> /\ Front(p) \in Seq(Names) /\ Front(h) = s \o Front(p)
    BY <2>2 DEF IsJoin
  <2>4. Front(h) \in DOMAIN host /\ host[Front(h)].kind = "dir"
    BY <2>2, <2>3 DEF FileSystem
  <2> QED  BY <1>7, <1>8, <2>3, <2>4
<1>11. \A p \in DOMAIN c : c[p].kind = "link" => /\ c[p].target.parts \in Seq(Components)
                                                /\ c[p].target.slash \in BOOLEAN
  <2> TAKE p \in DOMAIN c
  <2>1. PICK h : h = s \o p
    OBVIOUS
  <2>2. h \in DOMAIN host /\ c[p] = host[h]
    BY <1>3, <1>7, <2>1
  <2> QED  BY <2>2 DEF FileSystem
<1> QED  BY <1>7, <1>9, <1>10, <1>11 DEF IsContent

MountedAt(t, m, c, g) ==
    LET there == {m \o p : p \in DOMAIN c}
    IN  /\ DOMAIN g = {q \in DOMAIN t : ~IsPrefix(m, q)} \cup there
        /\ \A q \in there : g[q] = c[B!After(m, q)]
        /\ \A q \in DOMAIN g \ there : g[q] = t[q]

\* What is hidden goes as a whole, so a tree with a mount is a tree.
LEMMA Mounts ==
    ASSUME NEW t, FileSystem(t), NEW m \in DOMAIN t, NEW c, IsContent(c),
           m = <<>> => c[<<>>].kind = "dir", NEW g, MountedAt(t, m, c, g)
    PROVE  FileSystem(g) /\ m \in DOMAIN g
<1>1. m \in Seq(Names) /\ \A q \in DOMAIN t : q \in Seq(Names)
  BY DEF FileSystem
<1>2. PICK there : there = {m \o p : p \in DOMAIN c}
  OBVIOUS
<1>3. /\ DOMAIN g = {q \in DOMAIN t : ~IsPrefix(m, q)} \cup there
      /\ \A q \in there : g[q] = c[B!After(m, q)]
      /\ \A q \in DOMAIN g \ there : g[q] = t[q]
  BY <1>2 DEF MountedAt
<1>4. \A p \in DOMAIN c : IsJoin(Names, m, p, m \o p)
  BY <1>1, JoinIs DEF IsContent
<1>5. \A q \in there : \E p \in DOMAIN c : q = m \o p /\ IsJoin(Names, m, p, q) /\ g[q] = c[p]
  <2> TAKE q \in there
  <2>1. PICK p \in DOMAIN c : q = m \o p
    BY <1>2
  <2>2. IsJoin(Names, m, p, q)
    BY <1>4, <2>1
  <2>3. g[q] = c[p]
    BY <1>3, <2>2 DEF IsJoin
  <2> QED  BY <2>1, <2>2, <2>3
<1>6. \A p \in DOMAIN c : m \o p \in there /\ g[m \o p] = c[p]
  <2> TAKE p \in DOMAIN c
  <2>1. m \o p \in there /\ IsJoin(Names, m, p, m \o p)
    BY <1>2, <1>4
  <2> QED  BY <1>3, <2>1 DEF IsJoin
<1>7. \A q \in there : IsPrefix(m, q) /\ q \in Seq(Names)
  BY <1>5 DEF IsJoin
<1>8. \A q \in DOMAIN t : ~IsPrefix(m, q) => q \in DOMAIN g /\ g[q] = t[q]
  BY <1>3, <1>7
<1>9. m \in DOMAIN g /\ (m = <<>> => g[m].kind = "dir")
  <2>1. <<>> \in DOMAIN c /\ m \o <<>> = m
    BY <1>1 DEF IsContent
  <2> QED  BY <1>3, <1>6, <2>1
<1>10. <<>> \in DOMAIN g /\ g[<<>>].kind = "dir"
  <2>1. CASE m = <<>>
    BY <1>9, <2>1
  <2>2. CASE m # <<>>
    <3>1. Len(m) > 0 /\ Len(<<>>) = 0
      BY <1>1, <2>2
    <3>2. ~IsPrefix(m, <<>>)
      BY <1>1, <3>1 DEF IsPrefix
    <3> QED  BY <1>8, <3>2 DEF FileSystem
  <2> QED  BY <2>1, <2>2
<1>11. \A q \in DOMAIN g \ {<<>>} : Front(q) \in DOMAIN g /\ g[Front(q)].kind = "dir"
  <2> TAKE q \in DOMAIN g \ {<<>>}
  <2>1. CASE q \notin there
    <3>1. q \in DOMAIN t /\ ~IsPrefix(m, q) /\ q \in Seq(Names)
      BY <1>1, <1>3, <2>1
    <3>2. Front(q) \in DOMAIN t /\ t[Front(q)].kind = "dir" /\ Front(q) \in Seq(Names)
      BY <1>1, <3>1 DEF FileSystem
    <3>3. ~IsPrefix(m, Front(q))
      BY <1>1, <3>1, PrefixOfParent
    <3> QED  BY <1>8, <3>2, <3>3
  <2>2. CASE q \in there
    <3>1. PICK p \in DOMAIN c : q = m \o p /\ IsJoin(Names, m, p, q) /\ g[q] = c[p]
      BY <1>5, <2>2
    <3>2. CASE p = <<>>
      <4>1. q = m /\ Len(q) \in Nat /\ Len(q) > 0
        BY <1>1, <3>1, <3>2 DEF IsJoin
      <4>2. Front(q) \in DOMAIN t /\ t[Front(q)].kind = "dir" /\ Front(q) \in Seq(Names)
        BY <1>1, <4>1 DEF FileSystem
      <4>3. Len(Front(q)) = Len(q) - 1
        BY <1>1, <4>1, FrontIs
      <4>4. ~IsPrefix(m, Front(q))
        BY <4>1, <4>3 DEF IsPrefix
      <4> QED  BY <1>8, <4>2, <4>4
    <3>3. CASE p # <<>>
      <4>1. Front(q) = m \o Front(p)
        BY <3>1, <3>3 DEF IsJoin
      <4>2. Front(p) \in DOMAIN c /\ c[Front(p)].kind = "dir"
        BY <3>3 DEF IsContent
      <4> QED  BY <1>3, <1>6, <4>1, <4>2
    <3> QED  BY <3>2, <3>3
  <2> QED  BY <2>1, <2>2
<1>12. \A q \in DOMAIN g : g[q].kind = "link" => /\ g[q].target.parts \in Seq(Components)
                                                /\ g[q].target.slash \in BOOLEAN
  <2> TAKE q \in DOMAIN g
  <2>1. CASE q \in there
    <3>1. PICK p \in DOMAIN c : g[q] = c[p]
      BY <1>5, <2>1
    <3> QED  BY <3>1 DEF IsContent
  <2>2. CASE q \notin there
    <3>1. q \in DOMAIN t /\ g[q] = t[q]
      BY <1>3, <2>2
    <3> QED  BY <3>1 DEF FileSystem
  <2> QED  BY <2>1, <2>2
<1>13. DOMAIN g \subseteq Seq(Names)
  BY <1>1, <1>3, <1>7
<1> QED  BY <1>9, <1>10, <1>11, <1>12, <1>13 DEF FileSystem

\* A lookup of one more component.
OneOn(t, x, f, g, k) ==
    /\ Finds(f) => f.file \in DOMAIN t
    /\ Finds(g) => Finds(f) /\ f.file \in Dirs(t)
    /\ Finds(f) /\ f.file \in Dirs(t) /\ Append(f.file, x) \in DOMAIN t => Finds(k)

\* If a path can be found, what is above it is a directory; and what is in a
\* directory can be found.
LEMMA OneMore ==
    ASSUME RealNames, MaxLinks \in Nat, NEW t, FileSystem(t), NEW p \in Seq(Names), NEW x \in Names,
           NEW q, q = Append(p, x)
    PROVE  OneOn(t, x, Follow(t, p), Follow(t, q), NoFollow(t, q))
<1>1. PICK u : u = Unslashed(t)
  OBVIOUS
<1>2. IsUnslashed(t, u) /\ FileSystem(u) /\ DOMAIN u = DOMAIN t /\ Dirs(u) = Dirs(t)
  <2>1. IsUnslashed(t, u)
    BY <1>1, UnslashedIs
  <2> QED  BY <2>1 DEF IsUnslashed, Dirs
<1>3. /\ Names \subseteq Components /\ p \in Seq(Components) /\ <<x>> \in Seq(Components)
      /\ q = p \o <<x>> /\ q \in Seq(Components)
      /\ x \notin {".", ".."}
  BY DEF Components, RealNames
<1>4. PICK f, g, k : /\ f = At(u, MaxLinks, <<>>, p, FALSE, FALSE)
                     /\ g = At(u, MaxLinks, <<>>, q, FALSE, FALSE)
                     /\ k = At(u, MaxLinks, <<>>, q, FALSE, TRUE)
  OBVIOUS
<1>5. Follow(t, p) = f /\ Follow(t, q) = g /\ NoFollow(t, q) = k
  BY <1>2, <1>3, <1>4, FindIs
<1>6. <<>> \in Dirs(u) /\ <<>> \in Seq(Names) /\ FALSE \in BOOLEAN /\ TRUE \in BOOLEAN
  BY <1>2 DEF FileSystem, Dirs
<1>7. IsResult(f, MaxLinks)
  BY <1>2, <1>3, <1>4, <1>6, AtResult
<1>8. Finds(f) => f.file \in DOMAIN u
  BY <1>2, <1>3, <1>4, <1>6, FoundExists DEF IsFinal, Finds
<1>9. /\ g = AndThen(u, f, TRUE, <<x>>, FALSE, FALSE)
      /\ k = AndThen(u, f, TRUE, <<x>>, FALSE, TRUE)
  <2>1. <<x>> # <<>>
    OBVIOUS
  <2>2. Divides(u, p, <<x>>, FALSE, FALSE, FALSE) /\ Divides(u, p, <<x>>, FALSE, FALSE, TRUE)
    BY <1>2, <1>3, <1>6, <2>1, PathDivides
  <2> QED  BY <1>3, <1>4, <1>6, <2>2 DEF Divides
<1>10. ASSUME Finds(g) PROVE Finds(f) /\ f.file \in Dirs(t)
  <2>1. Finds(f)
    BY <1>9, <1>10 DEF AndThen, Finds
  <2>2. u[f.file].kind = "dir"
    <3>1. CASE u[f.file].kind # "dir"
      <4>1. g = Error("not_dir")
        BY <1>9, <2>1, <3>1 DEF AndThen, Finds
      <4> QED  BY <1>10, <4>1 DEF Error, Finds
    <3> QED  BY <3>1
  <2> QED  BY <1>2, <1>8, <2>1, <2>2 DEF Dirs
<1>11. ASSUME Finds(f), f.file \in Dirs(t), Append(f.file, x) \in DOMAIN t PROVE Finds(k)
  <2>1. PICK n, d, c : n = f.left /\ d = f.file /\ c = Append(d, x)
    OBVIOUS
  <2>2. n \in Nat /\ d \in Seq(Names) /\ d \in Dirs(u) /\ c \in DOMAIN u /\ c \in Seq(Names)
    BY <1>2, <1>7, <1>11, <2>1 DEF IsResult, Finds, FileSystem, Dirs
  <2>3. k = At(u, n, d, <<x>>, FALSE, TRUE)
    BY <1>2, <1>9, <1>11, <2>1, <2>2 DEF AndThen, Finds, Dirs
  <2>4. <<x>> # <<>> /\ Head(<<x>>) = x /\ Tail(<<x>>) = <<>> /\ Len(<<x>>) = 1
    OBVIOUS
  <2>5. GoesOn(u, n, d, <<x>>, FALSE, TRUE, c)
    BY <1>2, <1>3, <2>1, <2>2, <2>4, Enters
  <2>6. k = At(u, n, c, <<>>, FALSE, TRUE)
    BY <2>3, <2>4, <2>5 DEF GoesOn
  <2>7. k = Opened(c, n)
    BY <1>2, <2>2, <2>6, AtEnd
  <2> QED  BY <2>7 DEF Opened, Finds
<1> QED  BY <1>2, <1>5, <1>8, <1>10, <1>11 DEF OneOn

\* A path that the kernel finds ends at some file of the tree; "/" does at the root.
LEMMA FoundIsThere ==
    ASSUME MaxLinks \in Nat, NEW t, FileSystem(t), NEW p \in Seq(Components)
    PROVE  /\ Finds(Follow(t, p)) => Follow(t, p).file \in DOMAIN t
           /\ Finds(NoFollow(t, p)) => NoFollow(t, p).file \in DOMAIN t
           /\ p = <<>> => Follow(t, p) = Opened(<<>>, MaxLinks) /\ NoFollow(t, p) = Opened(<<>>, MaxLinks)
<1>1. PICK u : u = Unslashed(t)
  OBVIOUS
<1>2. IsUnslashed(t, u) /\ FileSystem(u) /\ DOMAIN u = DOMAIN t
  <2>1. IsUnslashed(t, u)
    BY <1>1, UnslashedIs
  <2> QED  BY <2>1 DEF IsUnslashed
<1>3. PICK f, g : /\ f = At(u, MaxLinks, <<>>, p, FALSE, FALSE)
                  /\ g = At(u, MaxLinks, <<>>, p, FALSE, TRUE)
  OBVIOUS
<1>4. Follow(t, p) = f /\ NoFollow(t, p) = g
  BY <1>2, <1>3, FindIs
<1>5. <<>> \in Dirs(u) /\ <<>> \in Seq(Names) /\ FALSE \in BOOLEAN /\ TRUE \in BOOLEAN
  BY <1>2 DEF FileSystem, Dirs
<1>6. (Finds(f) => f.file \in DOMAIN u) /\ (Finds(g) => g.file \in DOMAIN u)
  BY <1>2, <1>3, <1>5, FoundExists DEF IsFinal, Finds
<1>7. p = <<>> => f = Opened(<<>>, MaxLinks) /\ g = Opened(<<>>, MaxLinks)
  BY <1>2, <1>3, <1>5, AtEnd
<1> QED  BY <1>2, <1>4, <1>6, <1>7

\* An argument, and how far its path can be found.
IsArgument(op) ==
    /\ op.source \in Seq(Components) /\ op.dest \in Seq(Names)
    /\ op.type \in {"bind", "ro-bind"} => op.source = op.dest
    /\ op.type = "symlink" => op.dest # <<>>

FoundUpto(d, n, b) ==
    /\ b \in 0 .. n
    /\ B!Needed = 1 .. n /\ B!Lacking = b + 1 .. n /\ B!Base = b
    /\ \A i \in 0 .. n : Finds(B!There(i)) <=> i <= b

\* mkdir_with_parents() looks up one beginning of the path after another.
LEMMA ThereIs ==
    ASSUME NEW d, d = B!Op.dest, NEW i
    PROVE  B!There(i) = Follow(newroot, Upto(d, i)) /\ B!At(i) = Upto(d, i)
<1>1. B!At(i) = Upto(d, i)
  BY DEF B!At, Upto
<1>2. B!There(i) = B!Follow(newroot, Upto(d, i))
  BY <1>1 DEF B!There
<1> QED  BY <1>1, <1>2, SameLookup

\* There is a first component that cannot be found: all after it cannot be, either.
LEMMA HasFoundUpto ==
    ASSUME RealNames, MaxLinks \in Nat, FileSystem(newroot), NEW d, d = B!Op.dest, IsArgument(B!Op),
           NEW n, n = IF B!Op.type = "symlink" THEN Len(d) - 1 ELSE Len(d)
    PROVE  \E b : FoundUpto(d, n, b)
<1>1. d \in Seq(Names) /\ Len(d) \in Nat /\ n \in 0 .. Len(d) /\ n \in Nat
  <2>1. d \in Seq(Names) /\ Len(d) \in Nat
    BY DEF IsArgument
  <2>2. B!Op.type = "symlink" => Len(d) > 0
    BY <2>1 DEF IsArgument
  <2> QED  BY <2>1, <2>2
<1>2. PICK S : S = {i \in 0 .. n : Finds(B!There(i))}
  OBVIOUS
<1>3. 0 \in S
  <2>1. Upto(d, 0) = <<>> /\ <<>> \in Seq(Components)
    BY <1>1 DEF Upto
  <2>2. B!There(0) = Opened(<<>>, MaxLinks)
    <3>1. PICK p : p = Upto(d, 0)
      OBVIOUS
    <3>2. Follow(newroot, p) = Opened(<<>>, MaxLinks)
      BY <2>1, <3>1, FoundIsThere
    <3> QED  BY <3>1, <3>2, ThereIs
  <2> QED  BY <1>1, <1>2, <2>2 DEF Opened, Finds
<1>4. \A i \in 0 .. n - 1 : i + 1 \in S => i \in S
  <2> TAKE i \in 0 .. n - 1
  <2>1. i \in 0 .. Len(d) - 1 /\ i \in 0 .. n /\ i + 1 \in 0 .. n
    BY <1>1
  <2>2. Upto(d, i) \in Seq(Names) /\ d[i + 1] \in Names /\ Append(Upto(d, i), d[i + 1]) = Upto(d, i + 1)
    BY <1>1, <2>1, Uptos
  <2>3. OneOn(newroot, d[i + 1], Follow(newroot, Upto(d, i)), Follow(newroot, Upto(d, i + 1)),
              NoFollow(newroot, Upto(d, i + 1)))
    BY <2>2, OneMore
  <2>4. Finds(B!There(i + 1)) => Finds(B!There(i))
    BY <2>3, ThereIs DEF OneOn
  <2> QED  BY <1>2, <2>1, <2>4
<1>5. PICK b \in S : \A i \in S : i <= b
  <2>1. S \in SUBSET (0 .. n) /\ S # {}
    BY <1>2, <1>3
  <2> QED  BY <1>1, <2>1, HasMaximum
<1>6. b \in 0 .. n /\ b \in Nat
  BY <1>1, <1>2, <1>5
<1>7. \A i \in 0 .. b : i \in S
  <2>1. PICK T : T = {k \in 0 .. b : b - k \in S}
    OBVIOUS
  <2>2. 0 \in T
    BY <1>5, <1>6, <2>1
  <2>3. \A k \in 0 .. b - 1 : k \in T => k + 1 \in T
    <3> TAKE k \in 0 .. b - 1
    <3>1. b - (k + 1) \in 0 .. n - 1 /\ (b - (k + 1)) + 1 = b - k /\ k + 1 \in 0 .. b
      BY <1>1, <1>6
    <3> QED  BY <1>4, <2>1, <3>1
  <2>4. \A k \in 0 .. b : k \in T
    BY <1>6, <2>2, <2>3, Climbs
  <2> TAKE i \in 0 .. b
  <2>5. b - i \in 0 .. b /\ b - (b - i) = i
    BY <1>6
  <2> QED  BY <2>1, <2>4, <2>5
<1>8. \A i \in 0 .. n : Finds(B!There(i)) <=> i <= b
  <2> TAKE i \in 0 .. n
  <2>1. i <= b => i \in 0 .. b
    BY <1>1, <1>6
  <2> QED  BY <1>2, <1>5, <1>7, <2>1
<1>9. B!Needed = 1 .. n
  BY DEF B!Needed
<1>10. \A r : B!Finds(r) <=> Finds(r)
  BY DEF B!Finds, Finds
<1>11. B!Lacking = b + 1 .. n
  <2>1. \A i : i \in B!Lacking <=> i \in 1 .. n /\ ~Finds(B!There(i))
    BY <1>9, <1>10 DEF B!Lacking
  <2>2. \A i \in 1 .. n : i \in 0 .. n /\ (~(i <= b) <=> i \in b + 1 .. n)
    BY <1>1, <1>6
  <2>3. \A i \in b + 1 .. n : i \in 1 .. n
    BY <1>1, <1>6
  <2> QED  BY <1>8, <2>1, <2>2, <2>3
<1>12. B!Base = b
  <2>1. B!Needed \ B!Lacking = 1 .. b
    <3>1. \A i : i \in (1 .. n) \ (b + 1 .. n) <=> i \in 1 .. b
      BY <1>1, <1>6
    <3> QED  BY <1>9, <1>11, <3>1
  <2>2. Cardinality(1 .. b) = b
    BY <1>6, FS_Interval
  <2> QED  BY <2>1, <2>2 DEF B!Base, B!Cardinality, Cardinality
<1> QED  BY <1>6, <1>8, <1>9, <1>11, <1>12 DEF FoundUpto

\* Where the next component is to be, if all components can be had.
Way(d, n, b, e) ==
    /\ FoundUpto(d, n, b) /\ d \in Seq(Names) /\ n \in 0 .. Len(d)
    /\ n = IF B!Op.type = "symlink" THEN Len(d) - 1 ELSE Len(d)
    /\ e = B!There(b).file /\ e \in DOMAIN newroot /\ (b = 0 => e = <<>>)
    /\ b < Len(d) => /\ e \in Dirs(newroot)
                     /\ b < n \/ ~B!LinkExists => Append(e, d[b + 1]) \notin DOMAIN newroot
    /\ b = Len(d) /\ b > 0 => (newroot[e].kind = "dir" <=> ~B!WantsFile)

\* If no component is blocked, nothing is where the first one is to be created.
LEMMA HasWay ==
    ASSUME RealNames, MaxLinks \in Nat, FileSystem(newroot), NEW d, d = B!Op.dest, IsArgument(B!Op),
           B!Possible
    PROVE  \E n, b, e : Way(d, n, b, e)
<1>1. PICK n : n = IF B!Op.type = "symlink" THEN Len(d) - 1 ELSE Len(d)
  OBVIOUS
<1>2. PICK b : FoundUpto(d, n, b)
  BY <1>1, HasFoundUpto
<1>3. d \in Seq(Names) /\ Len(d) \in Nat /\ n \in 0 .. Len(d) /\ b \in 0 .. n /\ b \in Nat /\ n \in Nat
  <2>1. d \in Seq(Names) /\ Len(d) \in Nat
    BY DEF IsArgument
  <2>2. B!Op.type = "symlink" => Len(d) > 0
    BY <2>1 DEF IsArgument
  <2> QED  BY <1>1, <1>2, <2>1, <2>2 DEF FoundUpto
<1>4. PICK e : e = B!There(b).file
  OBVIOUS
<1>5. \A i \in 0 .. n : Upto(d, i) \in Seq(Components) /\ Upto(d, i) \in Seq(Names)
  <2> TAKE i \in 0 .. n
  <2>1. i \in 0 .. Len(d)
    BY <1>3
  <2>2. Upto(d, i) \in Seq(Names)
    BY <1>3, <2>1, Uppers
  <2> QED  BY <2>2 DEF Components
<1>6. e \in DOMAIN newroot /\ (b = 0 => e = <<>>)
  <2>1. Finds(B!There(b)) /\ B!There(b) = Follow(newroot, Upto(d, b)) /\ Upto(d, b) \in Seq(Components)
    BY <1>2, <1>3, <1>5, ThereIs DEF FoundUpto
  <2>2. b = 0 => Upto(d, b) = <<>>
    BY <1>3 DEF Upto
  <2> QED  BY <1>4, <2>1, <2>2, FoundIsThere DEF Opened
<1>7. \A r : B!Finds(r) <=> Finds(r)
  BY DEF B!Finds, Finds
<1>8. \A i \in 1 .. n : ~B!Blocked(i)
  BY <1>2 DEF FoundUpto, B!Possible
<1>9. ASSUME b > 0 PROVE newroot[e].kind = "dir" <=> ~(B!WantsFile /\ b = Len(d))
  <2>1. b \in 1 .. n /\ Finds(B!There(b))
    BY <1>2, <1>3, <1>9 DEF FoundUpto
  <2>2. ~((newroot[e].kind = "dir") = (B!WantsFile /\ b = Len(d)))
    BY <1>4, <1>7, <1>8, <2>1 DEF B!Blocked
  <2> QED  BY <2>2
<1>10. ASSUME b < Len(d) PROVE e \in Dirs(newroot)
  <2>1. newroot[e].kind = "dir"
    <3>1. CASE b = 0
      BY <1>6, <3>1 DEF FileSystem
    <3>2. CASE b > 0
      BY <1>3, <1>9, <1>10, <3>2
    <3> QED  BY <1>3, <3>1, <3>2
  <2> QED  BY <1>6, <2>1 DEF Dirs
<1>11. ASSUME b < Len(d), b < n \/ ~B!LinkExists PROVE Append(e, d[b + 1]) \notin DOMAIN newroot
  <2>1. b \in 0 .. Len(d) - 1
    BY <1>3, <1>11
  <2>2. PICK p, x, q : p = Upto(d, b) /\ x = d[b + 1] /\ q = Upto(d, b + 1)
    OBVIOUS
  <2>3. p \in Seq(Names) /\ x \in Names /\ q = Append(p, x)
    BY <1>3, <2>1, <2>2, Uptos
  <2>4. OneOn(newroot, x, Follow(newroot, p), Follow(newroot, q), NoFollow(newroot, q))
    BY <2>3, OneMore
  <2>5. Finds(Follow(newroot, p)) /\ Follow(newroot, p).file = e /\ e \in Dirs(newroot)
    <3>1. B!There(b) = Follow(newroot, p)
      BY <2>2, ThereIs
    <3> QED  BY <1>2, <1>3, <1>4, <1>10, <1>11, <3>1 DEF FoundUpto
  <2>6. ~Finds(NoFollow(newroot, q))
    <3>1. CASE b < n
      <4>1. b + 1 \in 1 .. n /\ ~Finds(B!There(b + 1))
        BY <1>2, <1>3, <3>1 DEF FoundUpto
      <4>2. ~B!Finds(B!NoFollow(newroot, B!At(b + 1)))
        BY <1>7, <1>8, <4>1 DEF B!Blocked
      <4> QED  BY <1>7, <2>2, <4>2, SameLookup, ThereIs
    <3>2. CASE ~(b < n)
      <4>1. B!Op.type = "symlink" /\ b + 1 = Len(d) /\ ~B!LinkExists
        BY <1>1, <1>3, <1>11, <3>2
      <4>2. q = d
        <5>1. Len(d) \in 0 .. Len(d)
          BY <1>3
        <5> QED  BY <1>3, <2>2, <4>1, <5>1, Uppers
      <4>3. ~B!Finds(B!NoFollow(newroot, d))
        BY <4>1 DEF B!LinkExists
      <4> QED  BY <1>7, <4>2, <4>3, SameLookup
    <3> QED  BY <3>1, <3>2
  <2> QED  BY <2>2, <2>4, <2>5, <2>6 DEF OneOn
<1>12. Way(d, n, b, e)
  BY <1>1, <1>2, <1>3, <1>4, <1>6, <1>9, <1>10, <1>11 DEF Way
<1> QED  BY <1>12

\* What mkdir_with_parents() and the like make of the tree.
LEMMA PreparedGrows ==
    ASSUME FileSystem(newroot), NEW d, d = B!Op.dest, NEW n, NEW b, NEW e, Way(d, n, b, e),
           ~B!LinkExists, NEW r, r = [i \in b .. Len(d) |-> e \o SubSeq(d, b + 1, i)]
    PROVE  /\ Joined(Names, e, d, b, r) /\ B!Dest = r[Len(d)]
           /\ Grown(newroot, r, b, n, Len(d), B!Prepared)
<1>1. /\ d \in Seq(Names) /\ Len(d) \in Nat /\ n \in 0 .. Len(d) /\ b \in 0 .. n /\ b \in Nat
      /\ n \in Nat /\ b \in 0 .. Len(d) /\ n \in b .. Len(d) /\ e \in DOMAIN newroot
      /\ e \in Seq(Names) /\ Len(e) \in Nat
  <2>1. d \in Seq(Names) /\ n \in 0 .. Len(d) /\ b \in 0 .. n /\ e \in DOMAIN newroot
    BY DEF Way, FoundUpto
  <2>2. Len(d) \in Nat /\ e \in Seq(Names) /\ Len(e) \in Nat
    BY <2>1 DEF FileSystem
  <2> QED  BY <2>1, <2>2
<1>2. Joined(Names, e, d, b, r)
  BY <1>1, Joins
<1>3. b < Len(d) => e \in Dirs(newroot) /\ r[b + 1] \notin DOMAIN newroot
  <2> SUFFICES ASSUME b < Len(d) PROVE e \in Dirs(newroot) /\ r[b + 1] \notin DOMAIN newroot
    OBVIOUS
  <2>1. b \in b .. Len(d) - 1
    BY <1>1
  <2>2. r[b + 1] = Append(e, d[b + 1])
    BY <1>2, <2>1 DEF Joined
  <2> QED  BY <2>2 DEF Way
<1>4. B!Lacking = b + 1 .. n /\ B!Base = b /\ e = B!There(b).file
  BY DEF Way, FoundUpto
<1>5. \A i \in b .. Len(d) : B!Real(i) = r[i]
  BY <1>4 DEF B!Real
<1>6. B!Dest = r[Len(d)]
  <2>1. Len(d) \in b .. Len(d)
    BY <1>1
  <2> QED  BY <1>5, <2>1 DEF B!Dest
<1>7. PICK new : new = {B!Real(i) : i \in B!Lacking}
  OBVIOUS
<1>8. new = {r[i] : i \in b + 1 .. n}
  <2>1. \A i \in b + 1 .. n : i \in b .. Len(d)
    BY <1>1
  <2> QED  BY <1>4, <1>5, <1>7, <2>1
<1>9. PICK g : g = B!Prepared
  OBVIOUS
<1>10. g = [p \in DOMAIN newroot \cup new |->
              IF p \notin new THEN newroot[p]
              ELSE IF B!WantsFile /\ p = B!Dest THEN B!EmptyFile ELSE B!Directory]
  BY <1>7, <1>9 DEF B!Prepared
<1>11. \A i \in b + 1 .. n : g[r[i]].kind = "dir" \/ (g[r[i]].kind = "file" /\ i = Len(d))
  <2> TAKE i \in b + 1 .. n
  <2>0. r[i] \in new
    <3>1. r[i] \in {r[j] : j \in b + 1 .. n}
      OBVIOUS
    <3> QED  BY <1>8, <3>1
  <2>1. r[i] \in new /\ i \in b .. Len(d) /\ Len(d) \in b .. Len(d)
    BY <1>1, <2>0
  <2>2. r[i] = r[Len(d)] => i = Len(d)
    <3>1. Len(r[i]) = Len(e) + i - b /\ Len(r[Len(d)]) = Len(e) + Len(d) - b
      BY <1>2, <2>1 DEF Joined
    <3>2. PICK a, h, l : a = Len(e) /\ h = Len(d) /\ l = Len(r[i])
      OBVIOUS
    <3>3. a \in Nat /\ h \in Nat /\ b \in Nat /\ i \in Int
      BY <1>1, <3>2
    <3>4. r[i] = r[h] => a + i - b = a + h - b
      BY <3>1, <3>2
    <3>5. a + i - b = a + h - b => i = h
      BY <3>3
    <3> QED  BY <3>2, <3>4, <3>5
  <2>3. g[r[i]] = IF B!WantsFile /\ r[i] = B!Dest THEN B!EmptyFile ELSE B!Directory
    BY <1>10, <2>1
  <2> QED  BY <1>6, <2>2, <2>3 DEF B!EmptyFile, B!Directory
<1>12. GrowsBy(newroot, r, b, n, Len(d), g)
  <2>1. DOMAIN g = DOMAIN newroot \cup {r[i] : i \in b + 1 .. n}
    BY <1>8, <1>10
  <2>2. \A p \in DOMAIN newroot : p \notin {r[i] : i \in b + 1 .. n} => g[p] = newroot[p]
    BY <1>8, <1>10
  <2> QED  BY <1>11, <2>1, <2>2 DEF GrowsBy
<1>13. Grown(newroot, r, b, n, Len(d), g)
  BY <1>1, <1>2, <1>3, <1>12, Grows
<1> QED  BY <1>2, <1>6, <1>9, <1>13

\* A tree, with mount points that exist in it.
IsTree == FileSystem(newroot) /\ DOMAIN mounts \subseteq DOMAIN newroot

\* Directories are created in directories, where nothing has been.
LEMMA TreeDir ==
    ASSUME RealNames, MaxLinks \in Nat, IsTree, IsArgument(B!Op), B!MakeDir
    PROVE  IsTree'
<1>1. /\ B!Possible /\ newroot' = B!Prepared /\ mounts' = mounts /\ B!Op.type = "dir"
      /\ ~B!LinkExists /\ FileSystem(newroot)
  BY DEF B!MakeDir, B!Do, B!LinkExists, IsTree
<1>2. PICK d : d = B!Op.dest
  OBVIOUS
<1>3. PICK n, b, e : Way(d, n, b, e)
  BY <1>1, <1>2, HasWay
<1>4. PICK r : r = [i \in b .. Len(d) |-> e \o SubSeq(d, b + 1, i)]
  OBVIOUS
<1>5. Grown(newroot, r, b, n, Len(d), newroot')
  BY <1>1, <1>2, <1>3, <1>4, PreparedGrows
<1> QED  BY <1>1, <1>5 DEF Grown, IsTree

\* A link is made in a directory, where nothing has been.
LEMMA TreeLink ==
    ASSUME RealNames, MaxLinks \in Nat, IsTree, IsArgument(B!Op), B!MakeSymlink
    PROVE  IsTree'
<1>1. /\ B!Possible /\ mounts' = mounts /\ B!Op.type = "symlink" /\ FileSystem(newroot)
      /\ B!LinkExists => newroot' = newroot
  BY DEF B!MakeSymlink, B!Do, IsTree
<1>2. CASE B!LinkExists
  BY <1>1, <1>2 DEF IsTree
<1>3. CASE ~B!LinkExists
  <2>1. PICK d : d = B!Op.dest
    OBVIOUS
  <2>2. PICK n, b, e : Way(d, n, b, e)
    BY <1>1, <2>1, HasWay
  <2>3. PICK r : r = [i \in b .. Len(d) |-> e \o SubSeq(d, b + 1, i)]
    OBVIOUS
  <2>4. PICK g : g = B!Prepared
    OBVIOUS
  <2>5. /\ Joined(Names, e, d, b, r) /\ B!Dest = r[Len(d)]
        /\ Grown(newroot, r, b, n, Len(d), g)
    BY <1>1, <1>3, <2>1, <2>2, <2>3, <2>4, PreparedGrows
  <2>6. /\ n = Len(d) - 1 /\ n \in b .. Len(d) - 1 /\ n + 1 = Len(d) /\ n < Len(d)
        /\ n + 1 \in 1 .. Len(d) /\ d \in Seq(Names)
    BY <1>1, <2>2 DEF Way, FoundUpto
  <2>7. PICK c, x : c = r[n + 1] /\ x = d[n + 1]
    OBVIOUS
  <2>8. FileSystem(g) /\ r[n] \in Dirs(g) /\ c = Append(r[n], x) /\ c \notin DOMAIN g /\ x \in Names
    BY <2>5, <2>6, <2>7 DEF Grown, Joined
  <2>9. PICK v : v = B!Link(B!Op.source)
    OBVIOUS
  <2>10. newroot' = [p \in DOMAIN g \cup {c} |-> IF p = c THEN v ELSE g[p]]
    BY <1>3, <2>4, <2>5, <2>6, <2>7, <2>9 DEF B!MakeSymlink
  <2>11. v.target.parts \in Seq(Components) /\ v.target.slash \in BOOLEAN
    BY <2>9 DEF B!Link, IsArgument
  <2>12. FileSystem(newroot')
    <3>1. PICK f, new : f = r[n] /\ new = newroot'
      OBVIOUS
    <3>2. f \in Dirs(g) /\ c = Append(f, x) /\ x \in Names
      BY <2>8, <3>1
    <3>3. AddsLink(g, c, v, new)
      BY <2>8, <2>10, <2>11, <3>1 DEF AddsLink
    <3>4. FileSystem(new)
      BY <2>8, <3>2, <3>3, GrowsLink
    <3> QED  BY <3>1, <3>4
  <2>13. \A p \in DOMAIN newroot : p \in DOMAIN newroot'
    BY <2>5, <2>10 DEF Grown
  <2> QED  BY <1>1, <2>12, <2>13 DEF IsTree, FileSystem
<1> QED  BY <1>2, <1>3

\* Mounts beneath a new one are hidden by it, and no others.
LEMMA TreeMount ==
    ASSUME IsTree, NEW g, FileSystem(g), \A p \in DOMAIN newroot : p \in DOMAIN g,
           NEW m \in DOMAIN g, NEW mount, B!Mount(g, m, mount),
           NEW c, c = IF mount.type = "bind" THEN B!Content(mount.source)
                      ELSE [p \in {<<>>} |-> B!Directory],
           IsContent(c), m = <<>> => c[<<>>].kind = "dir"
    PROVE  IsTree'
<1>1. \A a, b : B!IsPrefix(a, b) <=> IsPrefix(a, b)
  BY DEF B!IsPrefix, IsPrefix
<1>2. PICK there, rest : there = {m \o p : p \in DOMAIN c} /\ rest = B!Hide(g, m)
  OBVIOUS
<1>3. /\ newroot' = [q \in DOMAIN rest \cup there |->
                        IF q \in there THEN c[B!After(m, q)] ELSE rest[q]]
      /\ DOMAIN mounts' = DOMAIN B!Hide(mounts, m) \cup {m}
  BY <1>2 DEF B!Mount
<1>4. DOMAIN rest = {q \in DOMAIN g : ~IsPrefix(m, q)} /\ \A q \in DOMAIN rest : rest[q] = g[q]
  BY <1>1, <1>2 DEF B!Hide
<1>5. DOMAIN B!Hide(mounts, m) = {q \in DOMAIN mounts : ~IsPrefix(m, q)}
  BY <1>1 DEF B!Hide
<1>6. PICK new : new = newroot'
  OBVIOUS
<1>7. MountedAt(g, m, c, new)
  BY <1>2, <1>3, <1>4, <1>6 DEF MountedAt
<1>8. FileSystem(new) /\ m \in DOMAIN new
  BY <1>7, Mounts
<1>9. \A q \in DOMAIN mounts' : q \in DOMAIN new
  BY <1>3, <1>4, <1>5, <1>6, <1>8 DEF IsTree
<1> QED  BY <1>6, <1>8, <1>9 DEF IsTree, FileSystem

\* Only a directory is mounted at the root.
LEMMA TreeMounts ==
    ASSUME RealNames, MaxLinks \in Nat, FileSystem(host), IsTree, IsArgument(B!Op),
           B!MakeTmpfs \/ B!BindReadOnly \/ B!BindWritable
    PROVE  IsTree'
<1>1. /\ B!Possible /\ B!Op.type \in {"tmpfs", "ro-bind", "bind"} /\ FileSystem(newroot)
      /\ ~B!LinkExists
  BY DEF B!MakeTmpfs, B!BindReadOnly, B!BindWritable, B!Do, B!LinkExists, IsTree
<1>2. PICK d : d = B!Op.dest
  OBVIOUS
<1>3. PICK n, b, e : Way(d, n, b, e)
  BY <1>1, <1>2, HasWay
<1>4. PICK r : r = [i \in b .. Len(d) |-> e \o SubSeq(d, b + 1, i)]
  OBVIOUS
<1>5. PICK g, m : g = B!Prepared /\ m = B!Dest
  OBVIOUS
<1>6. /\ Joined(Names, e, d, b, r) /\ m = r[Len(d)]
      /\ Grown(newroot, r, b, n, Len(d), g)
  BY <1>1, <1>2, <1>3, <1>4, <1>5, PreparedGrows
<1>7. n = Len(d) /\ d \in Seq(Names) /\ b \in 0 .. Len(d) /\ e \in Seq(Names)
  BY <1>1, <1>3 DEF Way, FoundUpto, FileSystem
<1>8. FileSystem(g) /\ m \in DOMAIN g /\ \A p \in DOMAIN newroot : p \in DOMAIN g
  BY <1>6, <1>7 DEF Grown
<1>9. CASE B!MakeTmpfs
  <2>1. B!Mount(g, m, B!NewTmpfs)
    BY <1>5, <1>9 DEF B!MakeTmpfs
  <2>2. PICK c : c = [p \in {<<>>} |-> B!Directory]
    OBVIOUS
  <2>3. IsContent(c) /\ c[<<>>].kind = "dir"
    <3>1. DOMAIN c = {<<>>} /\ c[<<>>].kind = "dir" /\ <<>> \in Seq(Names)
      BY <2>2 DEF B!Directory
    <3> QED  BY <3>1 DEF IsContent
  <2>4. B!NewTmpfs.type # "bind"
    BY DEF B!NewTmpfs
  <2> QED  BY <1>8, <2>1, <2>2, <2>3, <2>4, TreeMount
<1>10. CASE B!BindReadOnly \/ B!BindWritable
  <2>1. PICK s, ro : s = B!BindSource.file /\ B!Mount(g, m, B!NewBind(s, ro))
    BY <1>5, <1>10 DEF B!BindReadOnly, B!BindWritable
  <2>2. B!IsBind /\ B!Op.source = d
    BY <1>2, <1>10 DEF B!BindReadOnly, B!BindWritable, B!Do, B!IsBind, IsArgument
  <2>3. B!BindSource = Follow(host, d) /\ Finds(Follow(host, d)) /\ s = Follow(host, d).file
    <3>1. B!BindSource = Follow(host, d)
      BY <2>2, SameLookup DEF B!BindSource
    <3> QED  BY <1>1, <2>1, <2>2, <3>1 DEF B!Possible, B!Finds, Finds
  <2>4. d \in Seq(Components)
    BY <1>7 DEF Components
  <2>5. s \in DOMAIN host /\ (d = <<>> => s = <<>>)
    BY <2>3, <2>4, FoundIsThere DEF Opened
  <2>6. PICK c : c = B!Content(s)
    OBVIOUS
  <2>7. IsContent(c) /\ c[<<>>] = host[s]
    BY <2>5, <2>6, ContentIs
  <2>8. ASSUME m = <<>> PROVE host[s].kind = "dir"
    <3>1. b = Len(d) /\ e = <<>>
      <4>1. Len(m) = Len(e) + Len(d) - b /\ Len(e) \in Nat /\ Len(d) \in Nat /\ b \in Nat /\ b <= Len(d)
        BY <1>6, <1>7 DEF Joined
      <4>2. Len(m) = 0
        BY <2>8
      <4>3. Len(e) = 0 /\ b = Len(d)
        BY <4>1, <4>2
      <4> QED  BY <1>7, <4>3, EmptySeq
    <3>2. CASE b = 0
      <4>1. d = <<>>
        BY <1>7, <3>1, <3>2, EmptySeq
      <4> QED  BY <2>5, <4>1 DEF FileSystem
    <3>3. CASE b > 0
      <4>1. newroot[<<>>].kind = "dir" <=> ~B!WantsFile
        BY <1>3, <3>1, <3>3 DEF Way
      <4>2. ~B!WantsFile
        BY <1>1, <4>1 DEF FileSystem
      <4>3. B!IsA(host, B!BindSource, "dir")
        BY <2>2, <4>2 DEF B!WantsFile
      <4> QED  BY <2>3, <4>3 DEF B!IsA
    <3>4. b = 0 \/ b > 0
      BY <1>7
    <3> QED  BY <3>2, <3>3, <3>4
  <2>9. B!NewBind(s, ro).type = "bind" /\ B!NewBind(s, ro).source = s
    BY DEF B!NewBind
  <2> QED  BY <1>8, <2>1, <2>6, <2>7, <2>8, <2>9, TreeMount
<1> QED  BY <1>9, <1>10

\* Each operation of bubblewrap leaves a tree.
LEMMA TreeNext ==
    ASSUME RealNames, MaxLinks \in Nat, FileSystem(host), IsTree, ops # <<>> => IsArgument(B!Op),
           B!Next
    PROVE  IsTree'
<1>1. ASSUME B!Fail PROVE IsTree'
  BY <1>1 DEF B!Fail, IsTree, FileSystem
<1>2. IsArgument(B!Op)
  BY DEF B!Next, B!Fail, B!MakeDir, B!MakeTmpfs, B!BindReadOnly, B!BindWritable, B!MakeSymlink,
         B!Do, B!Running
<1> QED  BY <1>1, <1>2, TreeDir, TreeLink, TreeMounts DEF B!Next

-----------------------------------------------------------------------------
(* The types of the table, of the arguments and of the tree.               *)
AnyMode   == ModeSet \cup {Symlink}
LinkPaths == {q \in Seq(Names) : IsSymlink(q)}

TypedTable(table) ==
    /\ IsFiniteSet(DOMAIN table) /\ DOMAIN table \subseteq Seq(Names)
    /\ table \in [DOMAIN table -> AnyMode]
    /\ \A q \in DOMAIN table : table[q] = Symlink => q \in LinkPaths

TypedRequest ==
    /\ granted \subseteq Wishes /\ stage \in {"idle", "expose", "done"}
    /\ stage = "expose" => /\ request \in Wishes /\ path \in Seq(Components)
                           /\ links \in Seq(LinkPaths)

TypedOps == \A i \in 1 .. Len(ops) : IsArgument(ops[i])

BoxTyped ==
    /\ host \in Hosts /\ TypedTable(exports) /\ TypedRequest
    /\ ops \in Seq(Range(ops)) /\ TypedOps /\ IsTree
    /\ outcome \in {"running", "died", "wrote"}

\* What is given of a host.
LEMMA Given ==
    ASSUME ExportsParameters, host \in Hosts
    PROVE  RealNames /\ MaxLinks \in Nat /\ FileSystem(host) /\ Ordered /\ DOMAIN Order = Names
BY DEF ExportsParameters, RealNames, Ordered

\* Without "." and "..", only names are left.
LEMMA CanonicalIsNamed ==
    ASSUME RealNames, NEW parts \in Seq(Components) PROVE Canonical(parts) \in Seq(Names)
<1>1. PICK u : Steps(parts, u) /\ Canonical(parts) = u[Len(parts)]
  BY CanonicalSteps
<1>2. Len(parts) \in Nat
  OBVIOUS
<1>3. PICK S : S = {i \in 0 .. Len(parts) : u[i] \in Seq(Names)}
  OBVIOUS
<1>4. 0 \in S
  <2>1. 0 \in 0 .. Len(parts)
    BY <1>2
  <2>2. u[0] = <<>> /\ <<>> \in Seq(Names)
    BY <1>1 DEF Steps
  <2>3. u[0] \in Seq(Names)
    BY <2>2
  <2> QED  BY <1>3, <2>1, <2>3
<1>5. \A i \in 0 .. Len(parts) - 1 : i \in S => i + 1 \in S
  <2> TAKE i \in 0 .. Len(parts) - 1
  <2> HAVE i \in S
  <2>1. i + 1 \in 1 .. Len(parts) /\ (i + 1) - 1 = i /\ i + 1 \in 0 .. Len(parts)
    BY <1>2
  <2>2. PICK a, x : a = u[i] /\ x = parts[i + 1]
    OBVIOUS
  <2>3. a \in Seq(Names) /\ x \in Components /\ u[i + 1] = Add(a, x)
    BY <1>1, <1>3, <2>1, <2>2 DEF Steps
  <2>4. a # <<>> => Front(a) \in Seq(Names)
    <3>1. a # <<>> => Len(a) > 0
      BY <2>3, EmptySeq
    <3> QED  BY <2>3, <3>1, FrontIs
  <2>5. Add(a, x) \in Seq(Names)
    <3>1. x \in Names => x # "." /\ x # ".."
      BY DEF RealNames
    <3>2. x \in Names => Append(a, x) \in Seq(Names)
      BY <2>3
    <3>3. CASE x = "."
      BY <2>3, <3>3 DEF Add
    <3>4. CASE x = ".."
      BY <2>3, <2>4, <3>4 DEF Add
    <3>5. CASE x \in Names
      <4>1. Add(a, x) = Append(a, x)
        BY <3>1, <3>5 DEF Add
      <4> QED  BY <3>2, <3>5, <4>1
    <3> QED  BY <2>3, <3>3, <3>4, <3>5 DEF Components
  <2> QED  BY <1>3, <2>1, <2>3, <2>5
<1>6. \A i \in 0 .. Len(parts) : i \in S
  BY <1>2, <1>4, <1>5, Climbs
<1> QED  BY <1>1, <1>2, <1>3, <1>6

\* Links of the host can be resolved, and "/" is none.
LEMMA ResolvedIs ==
    ASSUME MaxLinks \in Nat, FileSystem(host), NEW p \in LinkPaths
    PROVE  p \in Seq(Names) /\ p # <<>> /\ Front(p) \in Seq(Names) /\ ResolveLink(p) \in Seq(Components)
<1>1. p \in Seq(Names) /\ IsSymlink(p)
  BY DEF LinkPaths
<1>2. p \in Seq(Components)
  BY <1>1 DEF Components
<1>3. PICK f : f = NoFollow(host, p).file
  OBVIOUS
<1>4. f \in DOMAIN host /\ host[f].kind = "link"
  BY <1>1, <1>2, <1>3, FoundIsThere DEF IsSymlink, IsA
<1>5. p # <<>>
  <2>1. ASSUME p = <<>> PROVE f = <<>>
    <3>1. NoFollow(host, p) = Opened(<<>>, MaxLinks)
      BY <1>2, <2>1, FoundIsThere
    <3> QED  BY <1>3, <3>1 DEF Opened
  <2> QED  BY <1>4, <2>1 DEF FileSystem
<1>6. Front(p) \in Seq(Names) /\ Front(p) \in Seq(Components)
  <2>1. Len(p) > 0
    BY <1>1, <1>5, EmptySeq
  <2>2. Front(p) \in Seq(Names)
    BY <1>1, <2>1, FrontIs
  <2> QED  BY <2>2 DEF Components
<1>7. host[f].target.parts \in Seq(Components)
  BY <1>4 DEF FileSystem
<1>8. PICK g : g = host[f].target /\ g.parts \in Seq(Components)
  BY <1>7
<1>9. ResolveLink(p) = IF g.absolute THEN g.parts ELSE Front(p) \o g.parts
  BY <1>3, <1>8 DEF ResolveLink
<1>10. Front(p) \o g.parts \in Seq(Components)
  BY <1>6, <1>8
<1> QED  BY <1>1, <1>5, <1>6, <1>8, <1>9, <1>10

\* do_export_path() can make a link of a file that is one, only.
LEMMA TypedExport ==
    ASSUME NEW table, TypedTable(table), NEW S \in SUBSET Seq(Names), IsFiniteSet(S),
           NEW mode \in AnyMode, mode = Symlink => S \subseteq LinkPaths
    PROVE  TypedTable(DoExport(table, S, mode))
<1>1. PICK new : new = DoExport(table, S, mode)
  OBVIOUS
<1>2. /\ DOMAIN new = DOMAIN table \cup S
      /\ \A q \in DOMAIN new : new[q] = IF q \notin S THEN table[q]
                                        ELSE IF q \in DOMAIN table THEN Max({table[q], mode})
                                        ELSE mode
      /\ new = [q \in DOMAIN new |-> new[q]]
  BY <1>1 DEF DoExport
<1>3. IsFiniteSet(DOMAIN new) /\ DOMAIN new \subseteq Seq(Names)
  <2>1. IsFiniteSet(DOMAIN table) /\ DOMAIN table \subseteq Seq(Names)
    BY DEF TypedTable
  <2>2. IsFiniteSet(DOMAIN table \cup S)
    BY <2>1, FS_Union
  <2> QED  BY <1>2, <2>1, <2>2
<1>4. AnyMode \subseteq Int
  BY DEF AnyMode, ModeSet, Dir, Tmpfs, ReadOnly, ReadWrite, Symlink
<1>5. \A q \in DOMAIN new : new[q] \in AnyMode /\ (new[q] = Symlink => q \in LinkPaths)
  <2> TAKE q \in DOMAIN new
  <2>1. q \in DOMAIN table => table[q] \in AnyMode /\ (table[q] = Symlink => q \in LinkPaths)
    BY DEF TypedTable
  <2>2. CASE q \notin S
    BY <1>2, <2>1, <2>2
  <2>3. CASE q \in S /\ q \notin DOMAIN table
    BY <1>2, <2>3
  <2>4. CASE q \in S /\ q \in DOMAIN table
    <3>1. new[q] \in {table[q], mode}
      <4>1. Max({table[q], mode}) \in {table[q], mode}
        BY <1>4, <2>1, <2>4, MaxOfTwo
      <4> QED  BY <1>2, <2>4, <4>1
    <3> QED  BY <2>1, <2>4, <3>1
  <2> QED  BY <2>2, <2>3, <2>4
<1>6. new \in [DOMAIN new -> AnyMode]
  BY <1>2, <1>5
<1> QED  BY <1>1, <1>3, <1>5, <1>6 DEF TypedTable

\* Nothing changes what is a link of the host.
LEMMA SameLinks ==
    ASSUME host' = host
    PROVE  LinkPaths' = LinkPaths /\ \A table : TypedTable(table)' = TypedTable(table)
<1>1. LinkPaths' = LinkPaths
  BY DEF LinkPaths, IsSymlink
<1> QED  BY <1>1 DEF TypedTable

\* Before the first request.
LEMMA TypedInit ==
    ASSUME ExportsParameters, BoxInit PROVE BoxTyped
<1>1. /\ host \in Hosts /\ exports = << >> /\ granted = {} /\ stage = "idle" /\ ops = <<>>
      /\ newroot = [p \in {<<>>} |-> B!Directory] /\ mounts = [p \in {<<>>} |-> B!NewTmpfs]
      /\ outcome = "running"
  BY DEF BoxInit, ExportsInit, B!Init
<1>2. TypedTable(exports)
  <2>1. DOMAIN exports = {}
    BY <1>1
  <2>2. exports \in [DOMAIN exports -> AnyMode]
    BY <1>1
  <2> QED  BY <2>1, <2>2, FS_EmptySet DEF TypedTable
<1>3. IsTree
  <2>1. PICK t : t = newroot
    OBVIOUS
  <2>2. DOMAIN t = {<<>>} /\ t[<<>>].kind = "dir" /\ <<>> \in Seq(Names)
    BY <1>1, <2>1 DEF B!Directory
  <2>3. FileSystem(t)
    BY <2>2 DEF FileSystem
  <2> QED  BY <1>1, <2>1, <2>2, <2>3 DEF IsTree
<1>4. TypedRequest
  BY <1>1 DEF TypedRequest
<1>5. ops \in Seq(Range(ops)) /\ TypedOps
  BY <1>1 DEF TypedOps
<1> QED  BY <1>1, <1>2, <1>3, <1>4, <1>5 DEF BoxTyped

\* While requests are dealt with.
LEMMA TypedCollect ==
    ASSUME ExportsParameters, BoxTyped, Ask \/ Refuse \/ ExposeTarget \/ Expose
    PROVE  host' \in Hosts /\ TypedTable(exports)' /\ TypedRequest'
<1>1. /\ host \in Hosts /\ TypedTable(exports) /\ TypedRequest /\ RealNames /\ MaxLinks \in Nat
      /\ FileSystem(host)
  BY Given DEF BoxTyped
<1>2. host' = host
  BY DEF Ask, Refuse, ExposeTarget, Expose
<1>3. LinkPaths' = LinkPaths /\ \A table : TypedTable(table)' = TypedTable(table)
  BY <1>2, SameLinks
<1>4. ASSUME exports' = exports PROVE TypedTable(exports)'
  BY <1>1, <1>3, <1>4 DEF TypedTable
<1>5. CASE Ask
  <2>1. /\ request' \in Wishes /\ path' = request'.path /\ links' = <<>> /\ stage' = "expose"
        /\ exports' = exports /\ granted' = granted
    BY <1>5 DEF Ask
  <2>2. path' \in Seq(Components)
    BY <2>1 DEF ExportsParameters
  <2>3. links' \in Seq(LinkPaths')
    BY <2>1
  <2> QED  BY <1>1, <1>2, <1>4, <2>1, <2>2, <2>3 DEF TypedRequest
<1>6. CASE Refuse
  BY <1>1, <1>2, <1>4, <1>6 DEF Refuse, TypedRequest
<1>7. CASE ExposeTarget
  <2>1. PICK c, i : c = Canonical(path) /\ i = LinkAt(c)
    OBVIOUS
  <2>2. /\ stage = "expose" /\ i # 0 /\ links' = Append(links, Upto(c, i))
        /\ path' = ResolveLink(Upto(c, i)) \o From(c, i + 1)
        /\ exports' = exports /\ granted' = granted /\ request' = request /\ stage' = stage
    BY <1>7, <2>1 DEF ExposeTarget
  <2>3. path \in Seq(Components) /\ links \in Seq(LinkPaths) /\ request \in Wishes
    BY <1>1, <2>2 DEF TypedRequest
  <2>4. c \in Seq(Names)
    BY <1>1, <2>1, <2>3, CanonicalIsNamed
  <2>5. i \in LinksIn(c)
    <3>1. LinksIn(c) # {} /\ i = Min(LinksIn(c))
      BY <2>1, <2>2 DEF LinkAt
    <3>2. LinksIn(c) \in SUBSET Nat
      BY DEF LinksIn
    <3>3. \E m \in LinksIn(c) : \A l \in LinksIn(c) : m <= l
      BY <3>1, <3>2, HasMinimum
    <3> QED  BY <3>1, <3>3 DEF Min
  <2>6. i \in 1 .. Len(c) /\ IsSymlink(Upto(c, i)) /\ i \in 0 .. Len(c) /\ Len(c) \in Nat
    BY <2>4, <2>5 DEF LinksIn
  <2>7. PICK u : u = Upto(c, i)
    OBVIOUS
  <2>8. u \in LinkPaths
    BY <2>4, <2>6, <2>7, Uppers DEF LinkPaths
  <2>9. ResolveLink(u) \in Seq(Components)
    BY <1>1, <2>8, ResolvedIs
  <2>10. From(c, i + 1) \in Seq(Components)
    <3>1. PICK z : z = From(c, i + 1)
      OBVIOUS
    <3>2. z \in Seq(Names)
      BY <2>4, <2>6, <3>1 DEF From
    <3> QED  BY <3>1, <3>2 DEF Components
  <2>11. path' \in Seq(Components) /\ links' \in Seq(LinkPaths)
    BY <2>2, <2>3, <2>7, <2>8, <2>9, <2>10
  <2> QED  BY <1>1, <1>2, <1>3, <1>4, <2>2, <2>3, <2>11 DEF TypedRequest
<1>8. CASE Expose
  <2>1. PICK c, known, mode : c = Canonical(path) /\ known = Range(links) /\ mode = request.mode
    OBVIOUS
  <2>2. /\ stage = "expose" /\ stage' = "idle" /\ granted' = granted \cup {request}
        /\ exports' = DoExport(DoExport(exports, {c}, mode), known, Symlink)
    BY <1>8, <2>1 DEF Expose
  <2>3. path \in Seq(Components) /\ links \in Seq(LinkPaths) /\ request \in Wishes
    BY <1>1, <2>2 DEF TypedRequest
  <2>4. c \in Seq(Names)
    BY <1>1, <2>1, <2>3, CanonicalIsNamed
  <2>5. mode \in AnyMode /\ mode # Symlink /\ Symlink \in AnyMode
    <3>1. mode \in ModeSet
      BY <2>1, <2>3 DEF ExportsParameters, ModeSet
    <3> QED  BY <3>1 DEF AnyMode, ModeSet, Dir, Tmpfs, ReadOnly, ReadWrite, Symlink
  <2>6. known \subseteq LinkPaths /\ IsFiniteSet(known)
    <3>1. DOMAIN links = 1 .. Len(links) /\ Len(links) \in Nat
      BY <2>3
    <3>2. known \subseteq LinkPaths
      BY <2>1, <2>3, <3>1 DEF Range
    <3>3. links \in [1 .. Len(links) -> known]
      BY <2>1, <2>3, <3>1 DEF Range
    <3>4. links \in Surjection(1 .. Len(links), known)
      BY <2>1, <3>1, <3>3 DEF Range, Surjection
    <3>5. IsFiniteSet(1 .. Len(links))
      BY <3>1, FS_Interval
    <3> QED  BY <3>2, <3>4, <3>5, FS_Surjection
  <2>7. PICK middle : middle = DoExport(exports, {c}, mode)
    OBVIOUS
  <2>8. TypedTable(middle)
    <3>1. IsFiniteSet({c}) /\ {c} \in SUBSET Seq(Names)
      BY <2>4, FS_Singleton
    <3> QED  BY <1>1, <2>5, <2>7, <3>1, TypedExport
  <2>9. PICK last : last = exports'
    OBVIOUS
  <2>10. TypedTable(last)
    <3>1. known \in SUBSET Seq(Names)
      BY <2>6 DEF LinkPaths
    <3>2. last = DoExport(middle, known, Symlink)
      BY <2>2, <2>7, <2>9
    <3> QED  BY <2>5, <2>6, <2>8, <3>1, <3>2, TypedExport
  <2>11. TypedTable(exports)'
    BY <1>3, <2>9, <2>10 DEF TypedTable
  <2>12. granted' \subseteq Wishes
    BY <1>1, <2>2, <2>3 DEF TypedRequest
  <2> QED  BY <1>1, <1>2, <2>2, <2>11, <2>12 DEF TypedRequest
<1> QED  BY <1>5, <1>6, <1>7, <1>8

\* flatpak_exports_append_bwrap_args(): every entry of the table is an argument.
LEMMA ArgumentIsTyped ==
    ASSUME MaxLinks \in Nat, FileSystem(host), TypedTable(exports), NEW p \in DOMAIN exports
    PROVE  IsArgument(ArgumentFor(p))
<1>1. PICK a : a = ArgumentFor(p)
  OBVIOUS
<1>2. /\ p \in Seq(Names) /\ p \in Seq(Components) /\ exports[p] \in AnyMode
      /\ exports[p] = Symlink => p \in LinkPaths
  BY DEF TypedTable, Components
<1>3. CASE exports[p] = Symlink
  <2>1. p # <<>> /\ Front(p) \in Seq(Names) /\ ResolveLink(p) \in Seq(Components)
    BY <1>2, <1>3, ResolvedIs
  <2>2. PICK up, s : up = [i \in 1 .. Len(Front(p)) |-> ".."] /\ s = up \o ResolveLink(p)
    OBVIOUS
  <2>3. up \in Seq(Components)
    BY <2>1, <2>2 DEF Components
  <2>4. s \in Seq(Components)
    BY <2>1, <2>2, <2>3
  <2>5. a = Argument("symlink", s, p)
    <3>1. MakeRelative(Front(p), ResolveLink(p)) = s
      BY <2>2 DEF MakeRelative
    <3>2. a = Argument("symlink", MakeRelative(Front(p), ResolveLink(p)), p)
      <4>1. exports[p] \notin {Tmpfs, Dir}
        BY <1>3 DEF Tmpfs, Dir, Symlink
      <4> QED  BY <1>1, <1>3, <4>1 DEF ArgumentFor
    <3> QED  BY <3>1, <3>2
  <2> QED  BY <1>1, <1>2, <2>1, <2>4, <2>5 DEF Argument, IsArgument
<1>4. CASE exports[p] # Symlink /\ exports[p] \in {Tmpfs, Dir}
  <2>1. a = Argument(IF exports[p] = Tmpfs /\ ParentIsMapped(p) THEN "tmpfs" ELSE "dir", <<>>, p)
    BY <1>1, <1>4 DEF ArgumentFor
  <2> QED  BY <1>1, <1>2, <2>1 DEF Argument, IsArgument
<1>5. CASE exports[p] # Symlink /\ exports[p] \notin {Tmpfs, Dir}
  <2>1. a = Argument(IF exports[p] = ReadOnly THEN "ro-bind" ELSE "bind", p, p)
    BY <1>1, <1>5 DEF ArgumentFor
  <2> QED  BY <1>1, <1>2, <2>1 DEF Argument, IsArgument
<1> QED  BY <1>3, <1>4, <1>5

\* The table becomes arguments.
LEMMA TypedStart ==
    ASSUME ExportsParameters, BoxTyped, Start
    PROVE  ops' \in Seq(Range(ops')) /\ TypedOps'
<1>1. /\ host \in Hosts /\ TypedTable(exports) /\ RealNames /\ MaxLinks \in Nat
      /\ FileSystem(host) /\ Ordered /\ DOMAIN Order = Names
  BY Given DEF BoxTyped
<1>2. PICK args : args = BwrapArguments
  OBVIOUS
<1>3. Sortable
  <2>1. Mentioned \subseteq DOMAIN exports
    BY DEF Mentioned
  <2>2. IsFiniteSet(DOMAIN exports) /\ DOMAIN exports \subseteq Seq(DOMAIN Order)
    BY <1>1 DEF TypedTable
  <2>3. IsFiniteSet(Mentioned)
    BY <2>1, <2>2, FS_Subset
  <2> QED  BY <1>1, <2>1, <2>2, <2>3 DEF Sortable
<1>4. InOrder(args)
  BY <1>2, <1>3, AllInOrder
<1>5. args \in Seq(Range(args))
      /\ \A i \in 1 .. Len(args) : /\ args[i].dest \in Mentioned
                                   /\ args[i] = ArgumentFor(args[i].dest)
  BY <1>4 DEF InOrder
<1>6. \A i \in 1 .. Len(args) : IsArgument(args[i])
  <2> TAKE i \in 1 .. Len(args)
  <2>1. PICK p : p = args[i].dest
    OBVIOUS
  <2>2. p \in DOMAIN exports /\ args[i] = ArgumentFor(p)
    BY <1>5, <2>1 DEF Mentioned
  <2> QED  BY <1>1, <2>2, ArgumentIsTyped
<1>7. ops' = args
  BY <1>2 DEF Start
<1> QED  BY <1>5, <1>6, <1>7 DEF TypedOps

\* The arguments are applied.
LEMMA TypedSetUp ==
    ASSUME ExportsParameters, BoxTyped, B!Next, host' = host
    PROVE  /\ ops' \in Seq(Range(ops')) /\ TypedOps' /\ IsTree'
           /\ outcome' \in {"running", "died", "wrote"}
<1>1. RealNames /\ MaxLinks \in Nat /\ FileSystem(host) /\ IsTree
  BY Given DEF BoxTyped
<1>2. ops \in Seq(Range(ops)) /\ \A i \in 1 .. Len(ops) : IsArgument(ops[i])
  BY DEF BoxTyped, TypedOps
<1>3. IsTree'
  <2>1. ops # <<>> => B!Op = ops[1] /\ 1 \in 1 .. Len(ops)
    BY <1>2 DEF B!Op
  <2>2. ops # <<>> => IsArgument(B!Op)
    BY <1>2, <2>1
  <2> QED  BY <1>1, <2>2, TreeNext
<1>4. /\ ops' = ops \/ (ops # <<>> /\ ops' = Tail(ops))
      /\ outcome' \in {"running", "died", "wrote"}
  BY DEF BoxTyped, B!Next, B!Fail, B!MakeDir, B!MakeTmpfs, B!BindReadOnly, B!BindWritable,
         B!MakeSymlink, B!Do, B!Running
<1>5. CASE ops' = ops
  BY <1>2, <1>3, <1>4, <1>5 DEF TypedOps
<1>6. CASE ops # <<>> /\ ops' = Tail(ops)
  <2>1. PICK rest : rest = Tail(ops)
    OBVIOUS
  <2>2. /\ rest \in Seq(Range(ops)) /\ Len(rest) = Len(ops) - 1 /\ Len(ops) \in Nat /\ Len(ops) > 0
        /\ \A i \in 1 .. Len(rest) : rest[i] = ops[i + 1]
    BY <1>2, <1>6, <2>1
  <2>3. rest \in Seq(Range(rest))
    BY <2>2 DEF Range
  <2>4. \A i \in 1 .. Len(rest) : IsArgument(rest[i])
    <3> TAKE i \in 1 .. Len(rest)
    <3>1. i + 1 \in 1 .. Len(ops)
      BY <2>2
    <3> QED  BY <1>2, <2>2, <3>1
  <2> QED  BY <1>3, <1>4, <1>6, <2>1, <2>3, <2>4 DEF TypedOps
<1> QED  BY <1>3, <1>4, <1>5, <1>6

\* Every step keeps the types.
LEMMA TypedStep ==
    ASSUME ExportsParameters, BoxTyped, [BoxNext]_boxVars PROVE BoxTyped'
<1>1. ASSUME UNCHANGED <<ops, newroot, mounts, outcome>>
      PROVE  /\ ops' \in Seq(Range(ops')) /\ TypedOps' /\ IsTree'
             /\ outcome' \in {"running", "died", "wrote"}
  BY <1>1 DEF BoxTyped, TypedOps, IsTree, FileSystem
<1>2. ASSUME UNCHANGED <<host, exports, request, path, links, granted>>, stage' \in {stage, "done"}
      PROVE  host' \in Hosts /\ TypedTable(exports)' /\ TypedRequest'
  <2>1. LinkPaths' = LinkPaths
    BY <1>2, SameLinks
  <2>2. TypedTable(exports)'
    BY <1>2, <2>1 DEF BoxTyped, TypedTable
  <2> QED  BY <1>2, <2>1, <2>2 DEF BoxTyped, TypedRequest
<1>3. CASE Collect
  <2>1. UNCHANGED <<ops, newroot, mounts, outcome>> /\ (Ask \/ Refuse \/ ExposeTarget \/ Expose)
    BY <1>3 DEF Collect, wrapVars
  <2> QED  BY <1>1, <2>1, TypedCollect DEF BoxTyped
<1>4. CASE Start
  <2>1. /\ UNCHANGED <<host, exports, request, path, links, granted>> /\ stage' = "done"
        /\ UNCHANGED <<newroot, mounts, outcome>>
    BY <1>4 DEF Start
  <2>2. ops' \in Seq(Range(ops')) /\ TypedOps'
    BY <1>4, TypedStart
  <2>3. IsTree' /\ outcome' \in {"running", "died", "wrote"}
    BY <2>1 DEF BoxTyped, IsTree, FileSystem
  <2> QED  BY <1>2, <2>1, <2>2, <2>3 DEF BoxTyped
<1>5. CASE SetUp
  <2>1. UNCHANGED <<host, exports, request, path, links, granted>> /\ stage' = stage /\ B!Next
    BY <1>5 DEF SetUp, exportVars
  <2> QED  BY <1>2, <2>1, TypedSetUp DEF BoxTyped
<1>6. CASE UNCHANGED boxVars
  <2>1. /\ UNCHANGED <<host, exports, request, path, links, granted>> /\ stage' = stage
        /\ UNCHANGED <<ops, newroot, mounts, outcome>>
    BY <1>6 DEF boxVars, exportVars, wrapVars
  <2> QED  BY <1>1, <1>2, <2>1 DEF BoxTyped
<1> QED  BY <1>3, <1>4, <1>5, <1>6 DEF BoxNext

\* Whatever the host is like, plain or not, what bubblewrap has set up so far is a tree
\* of files, with mount points that exist in it, and the table has modes for paths
\* (bubblewrap.c, setup_newroot(); flatpak-exports.c, do_export_path()).
THEOREM BoxTypeCorrect == ASSUME ExportsParameters PROVE BoxSpec => []BoxTypeOK
<1>1. ASSUME BoxInit PROVE BoxTyped
  BY <1>1, TypedInit
<1>2. ASSUME BoxTyped, [BoxNext]_boxVars PROVE BoxTyped'
  BY <1>2, TypedStep
<1>3. ASSUME BoxTyped PROVE BoxTypeOK
  <2>1. exports \in [DOMAIN exports -> {Dir, Tmpfs, ReadOnly, ReadWrite, Symlink}]
    <3>1. AnyMode = {Dir, Tmpfs, ReadOnly, ReadWrite, Symlink}
      BY DEF AnyMode, ModeSet
    <3> QED  BY <1>3, <3>1 DEF BoxTyped, TypedTable
  <2> QED  BY <1>3, <2>1 DEF BoxTyped, TypedRequest, IsTree, BoxTypeOK
<1> QED  BY <1>1, <1>2, <1>3, PTL DEF BoxSpec
=============================================================================
