------------------------------ MODULE PathWalk ------------------------------
(***************************************************************************)
(* How the kernel looks a path up in a tree: a function from sequences of   *)
(* names to what is there, a directory, a file or a symbolic link.  A link  *)
(* is resolved as a path of its own before the walk goes on from there, and *)
(* the number of links that one lookup follows is limited.                 *)
(***************************************************************************)
EXTENDS Integers, SequencesExt

CONSTANTS
    Names,       \* names of files
    MaxLinks     \* links that one lookup follows: 40 in the kernel

Components == Names \cup {".", ".."}

\* There is a root, every file is in a directory, and the targets of links are paths.
FileSystem(t) ==
    /\ DOMAIN t \subseteq Seq(Names) /\ <<>> \in DOMAIN t /\ t[<<>>].kind = "dir"
    /\ \A p \in DOMAIN t \ {<<>>} : Front(p) \in DOMAIN t /\ t[Front(p)].kind = "dir"
    /\ \A p \in DOMAIN t : t[p].kind = "link" => /\ t[p].target.parts \in Seq(Components)
                                                /\ t[p].target.slash \in BOOLEAN

\* left: how many more links may be followed.
Opened(file, left) == [error |-> "opened", file |-> file, left |-> left]
Error(error)       == [error |-> error, file |-> <<>>, left |-> 0]

\* Where a lookup is.  keep: a link at the end is not followed, unless there is a
\* slash after it.
Place(left, dir, parts, slash, keep) ==
    [left |-> left, dir |-> dir, parts |-> parts, slash |-> slash, keep |-> keep]
Places == [left : Nat, dir : Seq(Names), parts : Seq(Components),
           slash : BOOLEAN, keep : BOOLEAN]

\* What has been found for the first component is where the others are looked up;
\* strict: it has to be a directory.
GoOn(walk, t, at, found, strict) ==
    IF found.error # "opened" THEN found
    ELSE IF strict /\ t[found.file].kind # "dir" THEN Error("not_dir")
    ELSE walk[Place(found.left, found.file, Tail(at.parts), at.slash, at.keep)]

\* lax: a slash after a link says nothing about what it leads to.
Advance(walk, t, lax, at) ==
    LET next  == Head(at.parts)
        final == Len(at.parts) = 1
        child == Append(at.dir, next)
        link  == t[child].target
        above == IF at.dir = <<>> THEN <<>> ELSE Front(at.dir)
    IN  IF at.parts = <<>> THEN Opened(at.dir, at.left)
        ELSE IF next = "." THEN GoOn(walk, t, at, Opened(at.dir, at.left), FALSE)
        ELSE IF next = ".." THEN GoOn(walk, t, at, Opened(above, at.left), FALSE)
        ELSE IF child \notin DOMAIN t THEN Error("missing")
        ELSE IF t[child].kind # "link" \/ (at.keep /\ final /\ ~at.slash)
        THEN GoOn(walk, t, at, Opened(child, at.left), ~final \/ at.slash)
        ELSE IF at.left = 0 THEN Error("loop")
        ELSE GoOn(walk, t, at,
                  walk[Place(at.left - 1, IF link.absolute THEN <<>> ELSE at.dir,
                             link.parts, link.slash, FALSE)],
                  ~final \/ (at.slash /\ ~lax))

Lookup(t, lax) == LET walk[at \in Places] == Advance(walk, t, lax, at) IN walk

\* What stat() and lstat() find at an absolute path.
Find(t, parts, keep) == Lookup(t, FALSE)[Place(MaxLinks, <<>>, parts, FALSE, keep)]
Follow(t, parts)   == Find(t, parts, FALSE)
NoFollow(t, parts) == Find(t, parts, TRUE)
Finds(result)      == result.error = "opened"

IsA(t, result, kind) == Finds(result) /\ t[result.file].kind = kind
=============================================================================
