-------------------------- MODULE ResolveInSysroot --------------------------
(***************************************************************************)
(* steam-runtime-tools/resolve-in-sysroot.c, _srt_resolve_in_sysroot():     *)
(* a path is followed component by component below a directory that is     *)
(* taken for the root.  A stack of file descriptors says where the walk is, *)
(* and a string what that place is called; a symbolic link is replaced by   *)
(* its target in what remains of the path.                                 *)
(*                                                                         *)
(* A file is called by the names that lead to it, without symbolic links.   *)
(* Reopening the result (READABLE, MUST_BE_EXECUTABLE) is left out.         *)
(***************************************************************************)
EXTENDS PathWalk

CONSTANTS
    Trees,       \* bound: file systems, functions from files to what they are
    Paths,       \* bound: what may be asked for
    FlagSets     \* bound: SrtResolveFlags

Root == <<>>

\* A path, or the target of a symbolic link; slash: there is one at the end.
Path(absolute, parts, slash) == [absolute |-> absolute, parts |-> parts, slash |-> slash]

Directory  == [kind |-> "dir"]
File       == [kind |-> "file"]
Link(path) == [kind |-> "link", target |-> path]

VARIABLES
    tree,
    before,      \* history: the tree at the beginning
    descendant,  \* history: what was asked for
    flags,
    remaining,   \* components that remain
    ends,        \* remaining would be NULL after the last one, not ""
    fds,
    current_path,
    followed,    \* counter for MaxLinks, bound: the code has no limit
    result       \* "none" yet, "opened" or an error

pathVars == <<tree, before, descendant, flags, remaining, ends, fds, current_path,
              followed, result>>

PathInit ==
    /\ tree \in Trees /\ before = tree
    /\ descendant \in Paths
    /\ \E f \in FlagSets :
          flags = f \cup IF "MKDIR_P" \in f THEN {"MUST_BE_DIRECTORY"} ELSE {}
    /\ remaining = descendant.parts /\ ends = ~descendant.slash
    /\ fds = <<Root>> /\ current_path = <<>>
    /\ followed = 0 /\ result = "none"

-----------------------------------------------------------------------------
(* One iteration of the loop.                                              *)
Next1      == Head(remaining)
Found      == Append(Last(fds), Next1)
Final      == Len(remaining) = 1 /\ ends
Walking    == result = "none" /\ remaining # <<>>

\* g_array_set_size() and g_string_truncate(): neither goes above the root.
Up(s, least) == IF Len(s) > least THEN Front(s) ELSE s

Dot ==
    /\ Walking /\ Next1 = "."
    /\ remaining' = Tail(remaining)
    /\ UNCHANGED <<tree, before, descendant, flags, ends, fds, current_path, followed, result>>

DotDot ==
    /\ Walking /\ Next1 = ".."
    /\ remaining' = Tail(remaining)
    /\ fds' = Up(fds, 1) /\ current_path' = Up(current_path, 0)
    /\ UNCHANGED <<tree, before, descendant, flags, ends, followed, result>>

Named  == Walking /\ Next1 \notin {".", ".."}
Exists == Found \in DOMAIN tree

Fail(error) ==
    /\ result' = error
    /\ UNCHANGED <<tree, before, descendant, flags, remaining, ends, fds, current_path,
                   followed>>

Enter ==
    /\ remaining' = Tail(remaining)
    /\ fds' = Append(fds, Found) /\ current_path' = Append(current_path, Next1)
    /\ UNCHANGED <<before, descendant, flags, ends, followed, result>>

Missing == Named /\ ~Exists /\ "MKDIR_P" \notin flags /\ Fail("missing")

MakeDirectory ==
    /\ Named /\ ~Exists /\ "MKDIR_P" \in flags
    /\ tree' = [p \in DOMAIN tree \cup {Found} |-> IF p = Found THEN Directory ELSE tree[p]]
    /\ Enter

IsLink == tree[Found].kind = "link"
KeptLink   == "KEEP_FINAL_SYMLINK" \in flags /\ Final

RejectLink ==
    Named /\ Exists /\ IsLink /\ "REJECT_SYMLINKS" \in flags /\ Fail("symlink")

\* Where a relative target is looked up; faulty variant: also an absolute one.
Stays(s, least)  == s
Origin(s, least) == IF tree[Found].target.absolute THEN SubSeq(s, 1, least) ELSE s

\* g_build_filename() drops what remains if it is empty, and a "/" with it.
FollowLink ==
    /\ Named /\ Exists /\ IsLink /\ "REJECT_SYMLINKS" \notin flags /\ ~KeptLink
    /\ followed < MaxLinks /\ followed' = followed + 1
    /\ fds' = Origin(fds, 1) /\ current_path' = Origin(current_path, 0)
    /\ remaining' = tree[Found].target.parts \o Tail(remaining)
    /\ ends' = IF Len(remaining) = 1 THEN ~tree[Found].target.slash ELSE ends
    /\ UNCHANGED <<tree, before, descendant, flags, result>>

MayEnter ==
    \/ Final /\ "MUST_BE_DIRECTORY" \notin flags
    \/ tree[Found].kind = "dir"

NotLink == Named /\ Exists /\ (IsLink => "REJECT_SYMLINKS" \notin flags /\ KeptLink)

NotDirectory == NotLink /\ ~MayEnter /\ Fail("not_dir")
OpenFound    == NotLink /\ MayEnter /\ Enter /\ UNCHANGED tree

-----------------------------------------------------------------------------
Return ==
    /\ result = "none" /\ remaining = <<>>
    /\ result' = IF "MUST_BE_REGULAR" \in flags /\ tree[Last(fds)].kind # "file"
                 THEN "not_regular" ELSE "opened"
    /\ UNCHANGED <<tree, before, descendant, flags, remaining, ends, fds, current_path,
                   followed>>

PathNext ==
    \/ Dot \/ DotDot \/ Missing \/ MakeDirectory \/ RejectLink \/ FollowLink
    \/ NotDirectory \/ OpenFound \/ Return

PathSpec == PathInit /\ [][PathNext]_pathVars

-----------------------------------------------------------------------------
PathTypeOK ==
    /\ Root \in DOMAIN tree
    /\ \A p \in DOMAIN tree :
          tree[p].kind = "link" => /\ tree[p].target.parts \in Seq(Components)
                                   /\ tree[p].target.slash \in BOOLEAN
    /\ remaining \in Seq(Components) /\ ends \in BOOLEAN
    /\ current_path \in Seq(Names) /\ fds \in Seq(Seq(Names))
    /\ result \in {"none", "opened", "missing", "symlink", "not_dir", "not_regular"}

\* What the inputs are like: components are names, and a tree is one.
WellFormed ==
    /\ MaxLinks \in Nat
    /\ \A path \in Paths : path.parts \in Seq(Components) /\ path.slash \in BOOLEAN
    /\ \A t \in Trees : FileSystem(t)

\* The stack and the string never disagree: each file descriptor is that of the
\* directory that the components so far lead to, the root at the bottom.
PathIsTrue ==
    /\ Len(fds) = Len(current_path) + 1
    /\ \A i \in DOMAIN fds : fds[i] = SubSeq(current_path, 1, i - 1)
    /\ \A i \in DOMAIN fds : fds[i] \in DOMAIN tree

\* Nothing that was there is replaced, and only directories are added, on request.
OnlyAdds ==
    /\ DOMAIN before \subseteq DOMAIN tree
    /\ \A p \in DOMAIN tree :
          IF p \in DOMAIN before THEN tree[p] = before[p]
          ELSE "MKDIR_P" \in flags /\ tree[p] = Directory
=============================================================================
