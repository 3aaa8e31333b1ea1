----------------------------- MODULE Bubblewrap -----------------------------
(***************************************************************************)
(* subprojects/bubblewrap/bubblewrap.c, setup_newroot(): the root of the    *)
(* container is an empty tmpfs, and arguments are applied to it one by one: *)
(* directories and symbolic links are made, and parts of the host are       *)
(* mounted.  What is missing on the way to a path is created where it would *)
(* be, which is on the host if that part of it is mounted there.            *)
(***************************************************************************)
EXTENDS PathWalk, FiniteSetsExt

VARIABLES
    host,
    ops,        \* arguments that remain
    newroot,    \* what one finds in the container
    mounts,     \* what is mounted there: mount points -> mounts
    outcome     \* "running", "died", or "wrote": created something on the host

wrapVars == <<ops, newroot, mounts, outcome>>

Directory == [kind |-> "dir"]
EmptyFile == [kind |-> "file"]
Link(parts) ==
    [kind |-> "link", target |-> [absolute |-> FALSE, parts |-> parts, slash |-> FALSE]]

NewTmpfs            == [type |-> "tmpfs"]
NewBind(source, ro) == [type |-> "bind", source |-> source, ro |-> ro]

Init ==
    /\ ops = <<>> /\ newroot = [p \in {<<>>} |-> Directory]
    /\ mounts = [p \in {<<>>} |-> NewTmpfs] /\ outcome = "running"

-----------------------------------------------------------------------------
(* Mounts.  A file or directory of a bind mount is one of the host.        *)
Owner(p) ==
    LET over == {m \in DOMAIN mounts : IsPrefix(m, p)}
    IN  CHOOSE m \in over : \A n \in over : Len(n) <= Len(m)

After(m, p) == SubSeq(p, Len(m) + 1, Len(p))

IsOnHost(p)   == mounts[Owner(p)].type = "bind"
IsReadOnly(p) == mounts[Owner(p)].ro
Source(p)     == mounts[Owner(p)].source \o After(Owner(p), p)

\* A mount hides everything from its mount point downwards.
Hide(f, m) == [p \in {q \in DOMAIN f : ~IsPrefix(m, q)} |-> f[p]]

Content(source) ==
    LET below == {h \in DOMAIN host : IsPrefix(source, h)}
    IN  [p \in {After(source, h) : h \in below} |-> host[source \o p]]

Mount(root, m, mount) ==
    LET content == IF mount.type = "bind" THEN Content(mount.source)
                   ELSE [p \in {<<>>} |-> Directory]
        there   == {m \o p : p \in DOMAIN content}
        rest    == Hide(root, m)
    IN  /\ newroot' = [p \in DOMAIN rest \cup there |->
                          IF p \in there THEN content[After(m, p)] ELSE rest[p]]
        /\ mounts' = [p \in DOMAIN Hide(mounts, m) \cup {m} |->
                         IF p = m THEN mount ELSE mounts[p]]

-----------------------------------------------------------------------------
(* mkdir_with_parents(), ensure_dir(), ensure_file().                      *)
Running == outcome = "running" /\ ops # <<>>
Op      == Head(ops)

IsBind     == Op.type \in {"bind", "ro-bind"}
BindSource == Follow(host, Op.source)
WantsFile  == IsBind /\ ~IsA(host, BindSource, "dir")

\* What has to exist: of a symbolic link that is to be made, only its directory.
Needed   == 1..(IF Op.type = "symlink" THEN Len(Op.dest) - 1 ELSE Len(Op.dest))
At(i)    == SubSeq(Op.dest, 1, i)
There(i) == Follow(newroot, At(i))
Lacking  == {i \in Needed : ~Finds(There(i))}

\* mkdir() does not replace a symbolic link that leads nowhere.
Blocked(i) ==
    IF Finds(There(i))
    THEN (newroot[There(i).file].kind = "dir") = (WantsFile /\ i = Len(Op.dest))
    ELSE Finds(NoFollow(newroot, At(i)))

\* The deepest component that exists, and where what is missing would be.
Base    == Cardinality(Needed \ Lacking)
Real(i) == There(Base).file \o SubSeq(Op.dest, Base + 1, i)
Dest    == Real(Len(Op.dest))

LinkExists == Op.type = "symlink" /\ Finds(NoFollow(newroot, Op.dest))
SameLink   == newroot[NoFollow(newroot, Op.dest).file] = Link(Op.source)

Possible ==
    /\ IsBind => Finds(BindSource)
    /\ \A i \in Needed : ~Blocked(i)
    /\ LinkExists => SameLink

\* newroot with everything that is needed for the operation.
Prepared ==
    LET new == {Real(i) : i \in Lacking}
    IN  [p \in DOMAIN newroot \cup new |->
            IF p \notin new THEN newroot[p]
            ELSE IF WantsFile /\ p = Dest THEN EmptyFile ELSE Directory]

-----------------------------------------------------------------------------
\* Something has to be created, and in a directory of the host.
Creates == Lacking # {} \/ (Op.type = "symlink" /\ ~LinkExists)
OutIn   == Creates /\ IsOnHost(There(Base).file)

Fail ==
    /\ Running /\ (~Possible \/ OutIn)
    /\ outcome' = IF Possible /\ ~IsReadOnly(There(Base).file) THEN "wrote" ELSE "died"
    /\ UNCHANGED <<ops, newroot, mounts>>

Do(type) ==
    /\ Running /\ Op.type = type /\ Possible /\ ~OutIn
    /\ ops' = Tail(ops) /\ UNCHANGED outcome

MakeDir      == Do("dir") /\ newroot' = Prepared /\ UNCHANGED mounts
MakeTmpfs    == Do("tmpfs") /\ Mount(Prepared, Dest, NewTmpfs)
BindReadOnly == Do("ro-bind") /\ Mount(Prepared, Dest, NewBind(BindSource.file, TRUE))
BindWritable == Do("bind") /\ Mount(Prepared, Dest, NewBind(BindSource.file, FALSE))

MakeSymlink ==
    /\ Do("symlink") /\ UNCHANGED mounts
    /\ newroot' = IF LinkExists THEN newroot
                  ELSE [p \in DOMAIN Prepared \cup {Dest} |->
                           IF p = Dest THEN Link(Op.source) ELSE Prepared[p]]

Next == Fail \/ MakeDir \/ MakeTmpfs \/ BindReadOnly \/ BindWritable \/ MakeSymlink
=============================================================================
