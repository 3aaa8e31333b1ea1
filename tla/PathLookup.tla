----------------------------- MODULE PathLookup -----------------------------
(***************************************************************************)
(* What _srt_resolve_in_sysroot() should find: what the kernel does after   *)
(* chroot().  _srt_sysroot_open() leaves it to the kernel if the sysroot is *)
(* the real root, so that both should agree.                               *)
(***************************************************************************)
EXTENDS ResolveInSysroot

\* Where links are rejected, the kernel is to follow none.
Rejects == "REJECT_SYMLINKS" \in flags
Allowed == IF Rejects THEN 0 ELSE MaxLinks

\* The code takes no notice of a slash after a symbolic link, neither in what it
\* was asked for nor in the target of another link: this is lax.
Kernel(t, slash, keep) ==
    Lookup(t, TRUE)[Place(Allowed, Root, descendant.parts, slash, keep)]

Keeps == "KEEP_FINAL_SYMLINK" \in flags /\ ~Rejects

Expected ==
    LET found == Kernel(tree, descendant.slash, Keeps)
        kind  == tree[found.file].kind
    IN  IF found.error = "loop" /\ Rejects THEN Error("symlink")
        ELSE IF found.error # "opened" THEN found
        ELSE IF "MUST_BE_DIRECTORY" \in flags /\ kind # "dir" THEN Error("not_dir")
        ELSE IF "MUST_BE_REGULAR" \in flags /\ kind # "file" THEN Error("not_regular")
        ELSE found

\* If the last link is to be kept and has a slash, the code follows only that one.
EndsInLink == IsA(tree, Kernel(tree, FALSE, TRUE), "link")
Unclear    == descendant.slash /\ EndsInLink /\ Keeps

\* The walk would go on for ever, as there is no limit.
Endless == Named /\ Exists /\ IsLink /\ ~KeptLink /\ ~Rejects /\ followed = MaxLinks

-----------------------------------------------------------------------------
(* Correctness.                                                            *)

\* Without a directory that is new, something would be missing.
Beneath(p) == {q \in DOMAIN tree : IsPrefix(p, q)}
Without(p) == [q \in DOMAIN tree \ Beneath(p) |-> tree[q]]

OnlyNeeded ==
    \A p \in DOMAIN tree \ DOMAIN before :
        result # "none" => Kernel(Without(p), descendant.slash, Keeps).error = "missing"

\* _srt_resolve_in_sysroot() opens what the kernel would open after chroot(), or
\* fails for the same reason; it follows too many links only if the kernel does;
\* and with MKDIR_P it creates what was missing and nothing else.
ResolvesLikeKernel ==
    ~Unclear =>
        /\ result # "none" => result = Expected.error
        /\ result = "opened" => Last(fds) = Expected.file
        /\ Endless => Expected.error = "loop"
        /\ OnlyAdds /\ OnlyNeeded
=============================================================================
