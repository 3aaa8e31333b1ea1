------------------------------ MODULE Exports -------------------------------
(***************************************************************************)
(* pressure-vessel/flatpak-exports.c: which files of the host a container   *)
(* is to have.  Requests to share a path, to hide it or to have a directory *)
(* there are collected in a table from paths to modes; symbolic links on   *)
(* the way to a path are noted in the table too, and what they lead to is  *)
(* shared instead.  In the end the table becomes arguments for bubblewrap. *)
(*                                                                         *)
(* /usr and /etc of the host in /run/host, and autofs, are left out.        *)
(***************************************************************************)
EXTENDS PathWalk, FiniteSetsExt

CONSTANTS
    Order,            \* where strcmp() sorts a name at the end of a path, and before a slash
    Reserved,         \* pv_get_reserved_paths()
    NeverSymlinks,    \* /tmp and /var/tmp
    Hosts,            \* bound: file systems of the host
    Wishes,           \* bound: requests
    MaxRequests,      \* bound: how many of them
    MaxLinkLevel      \* 40 in the code

\* FlatpakFilesystemMode, and the FAKE_MODEs around it.
Dir       == -1
Tmpfs     == 0
ReadOnly  == 1
ReadWrite == 2
Symlink   == 4

None == Tmpfs    \* flatpak_exports_path_get_mode(): not visible

VARIABLES
    host,
    exports,     \* the table: paths -> modes
    request,     \* [mode, path], while it is dealt with
    path,        \* of _exports_path_expose(), at its deepest level
    links,       \* symbolic links that the levels above have come upon
    requests,    \* counter for MaxRequests
    granted,     \* history: requests that did not fail
    stage        \* "idle", "expose", "done"

exportVars == <<host, exports, request, path, links, requests, granted, stage>>

ExportsInit ==
    /\ host \in Hosts /\ exports = << >>
    /\ request = [mode |-> None, path |-> <<>>] /\ path = <<>> /\ links = <<>>
    /\ requests = 0 /\ granted = {} /\ stage = "idle"

-----------------------------------------------------------------------------
(* Adding to the table.                                                    *)
Ask ==
    /\ stage = "idle" /\ requests < MaxRequests /\ requests' = requests + 1
    /\ request' \in Wishes /\ path' = request'.path /\ links' = <<>>
    /\ stage' = "expose"
    /\ UNCHANGED <<host, exports, granted>>

\* flatpak_canonicalize_filename(): "." and ".." go without a look at the disk.
Add(p, name) ==
    CASE name = "."  -> p
      [] name = ".." -> IF p = <<>> THEN p ELSE Front(p)
      [] OTHER       -> Append(p, name)

Canonical(parts) ==
    LET upto[i \in 0..Len(parts)] == IF i = 0 THEN <<>> ELSE Add(upto[i - 1], parts[i])
    IN  upto[Len(parts)]

Upto(p, i) == SubSeq(p, 1, i)
From(p, i) == SubSeq(p, i, Len(p))

IsSymlink(p) == IsA(host, NoFollow(host, p), "link")
IsDir(p)     == IsA(host, NoFollow(host, p), "dir")

\* flatpak_resolve_link(): one link, and an absolute path, maybe with "..".
ResolveLink(p) ==
    LET target == host[NoFollow(host, p).file].target
    IN  IF target.absolute THEN target.parts ELSE Front(p) \o target.parts

IsReserved(p) == \E r \in Reserved : IsPrefix(r, p) \/ IsPrefix(p, r)

MayExpose ==
    /\ Len(links) <= MaxLinkLevel
    /\ Finds(NoFollow(host, path))
    /\ host[NoFollow(host, path).file].kind \in {"dir", "file", "link"}
    /\ ~IsReserved(Canonical(path))

\* Where the first component is that is a symbolic link, or 0.  Faulty variant: only
\* the file itself may be one.
LastIn(p)  == {i \in {Len(p)} \ {0} : IsSymlink(p) /\ p \notin NeverSymlinks}
LinksIn(p) == {i \in 1..Len(p) : IsSymlink(Upto(p, i)) /\ Upto(p, i) \notin NeverSymlinks}

LinkAt(p) == IF LinksIn(p) = {} THEN 0 ELSE Min(LinksIn(p))

Refuse ==
    /\ stage = "expose" /\ ~MayExpose
    /\ stage' = "idle"
    /\ UNCHANGED <<host, exports, request, path, links, requests, granted>>

ExposeTarget ==
    /\ stage = "expose" /\ MayExpose
    /\ LET p == Canonical(path)
           i == LinkAt(p)
       IN  /\ i # 0
           /\ links' = Append(links, Upto(p, i))
           /\ path' = ResolveLink(Upto(p, i)) \o From(p, i + 1)
    /\ UNCHANGED <<host, exports, request, requests, granted, stage>>

\* do_export_path(): the mode can only become greater.  Faulty variant: the last
\* request decides.
Replaces(table, paths, mode) ==
    [q \in DOMAIN table \cup paths |-> IF q \in paths THEN mode ELSE table[q]]

DoExport(table, paths, mode) ==
    [q \in DOMAIN table \cup paths |->
        IF q \notin paths THEN table[q]
        ELSE IF q \in DOMAIN table THEN Max({table[q], mode}) ELSE mode]

\* Each level adds the link that it has come upon.
Expose ==
    /\ stage = "expose" /\ MayExpose /\ LinkAt(Canonical(path)) = 0
    /\ exports' = DoExport(DoExport(exports, {Canonical(path)}, request.mode),
                           Range(links), Symlink)
    /\ granted' = granted \cup {request}
    /\ stage' = "idle"
    /\ UNCHANGED <<host, request, path, links, requests>>

-----------------------------------------------------------------------------
(* What the table says of a path.                                          *)

\* Directories that are only to exist say nothing.  Faulty variant: they do.
Above(p)    == {q \in DOMAIN exports : IsPrefix(q, p)}
Covering(p) == {q \in DOMAIN exports : IsPrefix(q, p) /\ exports[q] # Dir}
Deepest(S)  == CHOOSE p \in S : \A q \in S : Len(q) <= Len(p)

ParentIsMapped(p) ==
    LET above == Covering(p) \ {p}
    IN  above # {} /\ exports[Deepest(above)] # Tmpfs

IsMapped(p) ==
    /\ Covering(p) # {}
    /\ LET over == Deepest(Covering(p))
       IN  IF exports[over] = Symlink THEN p = over ELSE exports[over] # Tmpfs

MappedReadOnly(p) == IsMapped(p) /\ exports[Deepest(Covering(p))] = ReadOnly

\* flatpak_exports_path_get_mode() looks at one component after another, and stops at
\* one that should be visible and is a symbolic link, or not there.
Breaks(p) ==
    {i \in 1..Len(p) : IsMapped(Upto(p, i)) /\
        (~Finds(NoFollow(host, Upto(p, i))) \/ IsSymlink(Upto(p, i)))}

ModeFor(p) == IF MappedReadOnly(p) THEN ReadOnly ELSE ReadWrite

\* For a link it calls itself: mode[depth][path]; the code has no limit.
ModeStep(mode, p, depth) ==
    LET i == Min(Breaks(p))
    IN  CASE Breaks(p) = {} -> IF p # <<>> /\ ~IsMapped(p) THEN None ELSE ModeFor(p)
          [] Breaks(p) # {} /\ IsSymlink(Upto(p, i)) ->
                 IF depth = 0 THEN None
                 ELSE mode[depth - 1][ResolveLink(Upto(p, i)) \o From(p, i + 1)]
          [] OTHER ->
                 IF /\ NoFollow(host, Upto(p, i)).error = "missing"
                    /\ i = Len(p) /\ ~MappedReadOnly(p)
                 THEN ReadWrite ELSE None

GetMode(path0, depth0) ==
    LET mode[depth \in Nat] ==
            [parts \in Seq(Components) |-> ModeStep(mode, Canonical(parts), depth)]
    IN  mode[depth0][path0]

-----------------------------------------------------------------------------
(* Arguments for bubblewrap.                                               *)
Argument(type, source, dest) == [type |-> type, source |-> source, dest |-> dest]

MakeRelative(base, p) == [i \in 1..Len(base) |-> ".."] \o p

\* A link is there already if its directory is; only a directory can be hidden or be
\* created.
HasArgument(p) ==
    CASE exports[p] = Symlink       -> ~ParentIsMapped(p)
      [] exports[p] \in {Tmpfs, Dir} -> IsDir(p)
      [] OTHER                      -> TRUE

ArgumentFor(p) ==
    CASE exports[p] = Symlink ->
             Argument("symlink", MakeRelative(Front(p), ResolveLink(p)), p)
      [] exports[p] \in {Tmpfs, Dir} ->
             Argument(IF exports[p] = Tmpfs /\ ParentIsMapped(p) THEN "tmpfs" ELSE "dir",
                      <<>>, p)
      [] OTHER ->
             Argument(IF exports[p] = ReadOnly THEN "ro-bind" ELSE "bind", p, p)

\* strcmp(): what is above a path comes before it, but perhaps not next to it: /a-b is
\* between /a and /a/b.
Letter(p, i) == IF i = Len(p) THEN Order[p[i]].end ELSE Order[p[i]].slash

SortsBefore(p, q) ==
    \/ p = <<>> /\ q # <<>>
    \/ \E i \in 1..Len(p) : /\ i <= Len(q) /\ Upto(p, i - 1) = Upto(q, i - 1)
                            /\ Letter(p, i) < Letter(q, i)

Mentioned == {p \in DOMAIN exports : HasArgument(p)}
Turn(p)   == Cardinality({q \in Mentioned : SortsBefore(q, p)})

BwrapArguments ==
    [i \in 1..Cardinality(Mentioned) |->
        ArgumentFor(CHOOSE p \in Mentioned : Turn(p) = i - 1)]

-----------------------------------------------------------------------------
(* Correctness of the table.                                               *)
RealPath(wish) == Follow(host, wish.path).file

\* "." and ".." come first, if at all.
DotsFirst(parts) ==
    \E n \in 0..Len(parts) :
        /\ \A i \in 1..n : parts[i] \in {".", ".."}
        /\ \A i \in (n + 1)..Len(parts) : parts[i] \notin {".", ".."}

\* /tmp is a symbolic link on the host, but a directory in the container.
TmpIsLink == \E p \in NeverSymlinks : IsSymlink(p)

\* Hosts on which it makes no difference that ".." is taken away without a look at
\* what is before it, or a slash at the end of a link's target.
IsPlain ==
    /\ ~TmpIsLink
    /\ \A p \in DOMAIN host : host[p].kind = "link" =>
          DotsFirst(host[p].target.parts) /\ ~host[p].target.slash

\* The host, with those links only that are in the table.
WithKnownLinks ==
    [p \in {q \in DOMAIN host : host[q].kind = "link" => q \in DOMAIN exports} |-> host[p]]

\* What the parameters are like.
ExportsParameters ==
    /\ Names \cap {".", ".."} = {}
    /\ MaxLinks \in Nat /\ MaxLinkLevel \in 0..MaxLinks
    /\ DOMAIN Order = Names
    /\ \A n \in Names : /\ Order[n].end \in Int /\ Order[n].slash \in Int
                       /\ Order[n].end < Order[n].slash
    /\ \A m, n \in Names : m # n =>
          {Order[m].end, Order[m].slash} \cap {Order[n].end, Order[n].slash} = {}
    /\ \A h \in Hosts : FileSystem(h) /\ IsFiniteSet(DOMAIN h)
    /\ \A w \in Wishes : /\ w.mode \in {Dir, Tmpfs, ReadOnly, ReadWrite}
                         /\ w.path \in Seq(Components) /\ DotsFirst(w.path)

\* The links in the table are enough: with no others, the kernel would find the same.
HasFile(wish) ==
    /\ Finds(Follow(host, wish.path)) /\ RealPath(wish) \in DOMAIN exports
    /\ Follow(WithKnownLinks, wish.path) = Follow(host, wish.path)

IsAsked(p) ==
    /\ p \in DOMAIN host
    /\ IF host[p].kind = "link" THEN exports[p] = Symlink
       ELSE LET asked == {w \in granted : RealPath(w) = p}
            IN  /\ \E w \in asked : w.mode = exports[p]
                /\ \A w \in asked : w.mode <= exports[p]
                /\ ~IsReserved(p)

\* The table has the files that the kernel finds for what was asked for, whichever
\* links are on the way, each with the mode that allows most, in whatever order it
\* was asked for; and otherwise only links of the host, which are enough to find them.
\* None of the files is reserved.
TableAsAsked ==
    IsPlain => /\ \A w \in granted : HasFile(w)
               /\ \A p \in DOMAIN exports : IsAsked(p)
=============================================================================
