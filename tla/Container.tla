----------------------------- MODULE Container ------------------------------
(***************************************************************************)
(* Exports and Bubblewrap together: requests are collected, the table is    *)
(* turned into arguments, and bubblewrap sets the container up with them.   *)
(***************************************************************************)
EXTENDS Exports

VARIABLES ops, newroot, mounts, outcome

wrapVars == <<ops, newroot, mounts, outcome>>
boxVars  == <<exportVars, wrapVars>>

B == INSTANCE Bubblewrap

BoxInit == ExportsInit /\ B!Init

Collect == (Ask \/ Refuse \/ ExposeTarget \/ Expose) /\ UNCHANGED wrapVars

\* The arguments are all there before bubblewrap starts.
Start ==
    /\ stage = "idle" /\ stage' = "done"
    /\ ops' = BwrapArguments
    /\ UNCHANGED <<host, exports, request, path, links, requests, granted,
                   newroot, mounts, outcome>>

SetUp == B!Next /\ UNCHANGED exportVars

BoxNext == Collect \/ Start \/ SetUp

BoxSpec == BoxInit /\ [][BoxNext]_boxVars

-----------------------------------------------------------------------------
(* What the container has to do with the host.                             *)
Finished == stage = "done" /\ ops = <<>>

\* A path leads to the same file in the container and on the host.
IsShared(p) ==
    LET here  == Follow(newroot, p)
        there == Follow(host, p)
    IN  /\ Finds(here) /\ Finds(there)
        /\ B!IsOnHost(here.file) /\ B!Source(here.file) = there.file

\* What one may do with it there; what does not exist may be created.
SharedMode(p) ==
    LET known == IF Finds(NoFollow(host, p)) THEN p ELSE Front(p)
        mode  == IF B!IsReadOnly(Follow(newroot, known).file) THEN ReadOnly ELSE ReadWrite
    IN  IF ~IsShared(known) \/ (known # p /\ (mode = ReadOnly \/ ~IsA(host, Follow(host, known), "dir")))
        THEN None ELSE mode

-----------------------------------------------------------------------------
(* Correctness.                                                            *)
BoxTypeOK ==
    /\ exports \in [DOMAIN exports -> {Dir, Tmpfs, ReadOnly, ReadWrite, Symlink}]
    /\ granted \subseteq Wishes /\ stage \in {"idle", "expose", "done"}
    /\ outcome \in {"running", "died", "wrote"}
    /\ FileSystem(newroot) /\ DOMAIN mounts \subseteq DOMAIN newroot

\* No link on the way to it.
IsItself(p) == Finds(Follow(host, p)) /\ Follow(host, p).file = p

\* A request to hide something that is not a directory has no effect.
HasEffect(wish) ==
    wish.mode # Dir /\ (wish.mode = Tmpfs => host[RealPath(wish)].kind = "dir")

AskedMode(p) ==
    LET over    == {w \in granted : HasEffect(w) /\ IsPrefix(RealPath(w), p)}
        deepest == {w \in over : \A v \in over : Len(RealPath(v)) <= Len(RealPath(w))}
    IN  IF over = {} THEN None ELSE Max({w.mode : w \in deepest})

\* The container can be set up, and without creating anything on the host.  It has
\* those files of the host that were asked for: of all requests that are about
\* directories above a file, the deepest one decides, and of several for the same
\* directory the one that allows most, in whatever order they were made.  What was
\* asked for is found there by the same path, symbolic links included.  Nothing is
\* mounted over what the container itself is made of.
ContainerAsAsked ==
    IsPlain =>
        /\ outcome = "running"
        /\ \A m \in DOMAIN mounts \ {<<>>} : ~IsReserved(m)
        /\ Finished =>
             /\ \A p \in DOMAIN host : IsItself(p) => SharedMode(p) = AskedMode(p)
             /\ \A w \in granted :
                   /\ w.mode \in {ReadOnly, ReadWrite} => IsShared(w.path)
                   /\ IsA(host, Follow(host, w.path), "dir") =>
                          IsA(newroot, Follow(newroot, w.path), "dir")

\* Not so: the table says that "/" is shared, and that a file is hidden although
\* that has no effect.
ModeIsUnclear(p) ==
    LET file == Follow(host, p).file
    IN  /\ Finds(Follow(host, p))
        /\ file = <<>> \/ (file \in DOMAIN exports /\ exports[file] = Tmpfs /\ ~IsDir(file))

\* Before there is a container, flatpak_exports_path_get_mode() says of every path
\* that exists, or whose last component does not, what one will be able to do with it
\* there.
ModeIsTrue ==
    IsPlain /\ Finished =>
        \A d \in DOMAIN host, name \in Names :
            LET p == Append(d, name)
            IN  /\ Finds(Follow(host, p)) \/ NoFollow(host, p).error = "missing"
                /\ ~ModeIsUnclear(p)
                => GetMode(p, MaxLinks) = SharedMode(p)
=============================================================================
