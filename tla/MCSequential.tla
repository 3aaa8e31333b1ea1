---------------------------- MODULE MCSequential ----------------------------
(***************************************************************************)
(* Four parts in which only one actor acts, and that share no state, are    *)
(* checked in one run: in a behaviour one of them takes steps while the     *)
(* others are as they were at the beginning.                               *)
(***************************************************************************)
EXTENDS LogLines, FdSetup, PathLookup, Container

VARIABLE part    \* "lines", "fds", "path" or "container"

-----------------------------------------------------------------------------
\* A directive differs from a level prefix in its second byte only, and one
\* digit is a level that syslog does not have.
MCDirective == <<"r", "=">>
MCLevelOf   == [c \in {"3", "9"} |-> IF c = "3" THEN 3 ELSE 9]

Chunks == { <<"<", "3", ">">>, <<"<", "9", ">">>, <<"<", "r", "=", "3", ">">>,
            <<"<", "r">>, <<Newline>>, <<"x">>, <<"x", "x", "x", "x">> }
MCInputs == {FlattenSeq(c) : c \in UNION {[1..n -> Chunks] : n \in 0..4}}

\* One of stdin, stdout and stderr may be closed, or all of them, or no fd be free
\* for a copy of stderr, or for a lock.
MCStarts == {0..6, 0..5, 0..4, 0..3, {2, 3}, {0, 2, 4}, {0, 1, 3}, {}}

-----------------------------------------------------------------------------
\* Each of /a, /b, /a/a and /a/b may be missing, a directory, a file or a link,
\* to itself, to another one, to more than one component, upwards, or to the root.

LinkTargets ==
    { Path(FALSE, <<"a">>, FALSE), Path(FALSE, <<"b">>, FALSE),
      Path(FALSE, <<"..", "b">>, FALSE), Path(TRUE, <<"a", "b">>, FALSE),
      Path(TRUE, <<>>, FALSE), Path(FALSE, <<"b">>, TRUE),
      Path(FALSE, <<"b", "..">>, TRUE) }
Leaves == {Directory, File} \cup {Link(t) : t \in LinkTargets}
Slots  == { {}, {<<"a">>}, {<<"b">>}, {<<"a">>, <<"b">>} }
Below  == SUBSET {<<"a", "a">>, <<"a", "b">>}

TreesOf(files) ==
    {[p \in files \cup {<<>>} |-> IF p = <<>> THEN Directory ELSE f[p]] :
        f \in [files -> Leaves]}
MCTrees ==
    UNION {TreesOf(files) : files \in Slots} \cup
    {t \in UNION {TreesOf(f \cup g) : f \in {s \in Slots : <<"a">> \in s}, g \in Below} :
        t[<<"a">>] = Directory}

Files   == {"a", "b"}
Steps   == Files \cup {".."}
MCPaths ==
    {Path(FALSE, p, TRUE) : p \in [1..1 -> Files] \cup [1..2 -> Files]} \cup
    {Path(FALSE, p, FALSE) :
        p \in [1..1 -> Steps] \cup [1..2 -> Steps] \cup
              { <<"a", "b", "..">>, <<"a", "..", "b">>, <<"b", "b", "a">>, <<"a", ".", "b">> }}

-----------------------------------------------------------------------------
\* /a and /a/a are directories; /a/b and /b may be links to each other, to the same
\* file, to themselves or to /u.  What the container itself needs is in /u/b, so that
\* /u cannot be shared; /t stands for /tmp, and /x does not exist.
\* The name "b" stands for one that starts with "a" and a character before the slash.
MCOrder == [n \in Names |->
               CASE n = "a" -> [end |-> 1, slash |-> 4] [] n = "b" -> [end |-> 2, slash |-> 3]
                 [] n = "t" -> [end |-> 5, slash |-> 6] [] n = "u" -> [end |-> 7, slash |-> 8]
                 [] n = "x" -> [end |-> 9, slash |-> 10]]
MCReserved      == {<<"u", "b">>}
MCNeverSymlinks == {<<"t">>}

LinkTo(absolute, parts) == Link(Path(absolute, parts, FALSE))

HostWith(ab, b, t) ==
    [p \in { <<>>, <<"a">>, <<"a", "a">>, <<"a", "a", "a">>, <<"a", "b">>,
             <<"b">>, <<"t">>, <<"u">>, <<"u", "a">> } |->
        CASE p = <<"a", "b">>                         -> ab
          [] p = <<"b">>                              -> b
          [] p = <<"t">>                              -> t
          [] p \in {<<"a", "a", "a">>, <<"u", "a">>} -> File
          [] OTHER                                    -> Directory]

ToB == LinkTo(FALSE, <<"..", "b">>)
MCHosts ==
    { HostWith(ToB, Directory, Directory), HostWith(ToB, LinkTo(TRUE, <<"a", "a">>), Directory),
      HostWith(ToB, LinkTo(FALSE, <<"a", "b">>), Directory),
      HostWith(File, Directory, Directory),
      HostWith(LinkTo(FALSE, <<"a">>), LinkTo(FALSE, <<"a", "b">>), Directory),
      HostWith(LinkTo(TRUE, <<"u">>), [kind |-> "fifo"], Directory),
      HostWith(Directory, Directory, LinkTo(TRUE, <<"x">>)) }

\* -1 is FAKE_MODE_DIR, and 0 is to hide a path.
MCWishes ==
    {[mode |-> m, path |-> p] : m \in -1..2, p \in {<<"a">>, <<"a", "b">>}} \cup
    {[mode |-> m, path |-> <<"a", "a">>] : m \in 0..2} \cup
    {[mode |-> m, path |-> <<"b", "a">>] : m \in {0, 2}} \cup
    {[mode |-> 1, path |-> p] : p \in {<<"b">>, <<"t">>, <<"u">>}}

\* What the theorems about FdSetup, ResolveInSysroot and Container take for granted.
ASSUME InputsAreWellFormed == Parameters /\ WellFormed /\ ExportsParameters

-----------------------------------------------------------------------------
\* The parts that do not take steps.
LinesRest == input = <<>> /\ parsing = TRUE /\ LinesInit
FdsRest   == start = {} /\ FdsInit
PathRest  == /\ tree = [p \in {<<>>} |-> Directory] /\ flags = {}
             /\ descendant = Path(FALSE, <<"a">>, TRUE)
             /\ PathInit
BoxRest   == host = HostWith(ToB, Directory, Directory) /\ BoxInit

MCInit ==
    \/ part = "lines" /\ FdsRest /\ PathRest /\ BoxRest /\ LinesInit
    \/ part = "fds" /\ LinesRest /\ PathRest /\ BoxRest /\ FdsInit
    \/ part = "path" /\ LinesRest /\ FdsRest /\ BoxRest /\ PathInit
    \/ part = "container" /\ LinesRest /\ FdsRest /\ PathRest /\ BoxInit

MCNext ==
    /\ UNCHANGED part
    /\ \/ part = "lines" /\ LinesNext /\ UNCHANGED <<fdsVars, pathVars, boxVars>>
       \/ part = "fds" /\ FdsNext /\ UNCHANGED <<linesVars, pathVars, boxVars>>
       \/ part = "path" /\ PathNext /\ UNCHANGED <<linesVars, fdsVars, boxVars>>
       \/ part = "container" /\ BoxNext /\ UNCHANGED <<linesVars, fdsVars, pathVars>>

MCSpec == MCInit /\ [][MCNext]_<<part, linesVars, fdsVars, pathVars, boxVars>>

-----------------------------------------------------------------------------
\* The types of the four parts, with what assertions of logger.c say and with
\* the path that resolve-in-sysroot.c returns being that of the fd.
TypesOK == LinesTypeOK /\ FdsTypeOK /\ PathTypeOK /\ PathIsTrue /\ BoxTypeOK
=============================================================================
