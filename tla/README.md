# A verification development for steam-runtime-tools

TLA+ models of the concurrent parts of steam-runtime-tools and pressure-vessel,
checked by TLC on small instances, and theorems about them proved with TLAPS
for every instance. `PROJECT.json` lists the runs, the hazards that the
properties are for, the lines of code behind every definition, the faulty
variants that show that a property can fail, and what was found.

Paths without a directory are in `src/steam-runtime-tools/`.

## 1. The system

steam-runtime-tools is a library that describes the host to the Steam client
(`libsteam-runtime-tools-0`) and a set of programs that run games in
containers. Most of the library is sequential: it looks at files, runs helper
programs and reports. What needs a model is what runs at the same time as
something else.

| Component | State | Operations | Interacts with | What is hard | What makes it correct |
|---|---|---|---|---|---|
| Process manager (`process-manager.c`; used by `bin/supervisor.c` and `pressure-vessel/adverb.c`) | COMMAND's process ID, tables of signalled processes, two timers, held locks | start COMMAND, wait, forward signals, reap, terminate descendants | the kernel's process table, signals, `/proc`, file locks | forks, exits, orphans, reuse of IDs, stopped processes, one pending SIGCHLD | it outlives every descendant, signals only its children, never sleeps for ever, reports COMMAND's status |
| Runtimes and their copies (`pressure-vessel/runtime.c`, `file-lock.c`) | `.ref` lock files, the variable directory, temporary copies | lock, garbage-collect, copy, hand over the lock, run | other pressure-vessel-wrap processes, whoever deletes runtimes, pv-adverb (inherits the lock) | open and lock are two steps; hard links and symbolic links; death at any point | GC never deletes what is in use, and deletes what is not |
| Log files (`logger.c`, `bin/logger.c`) | open log, locks, three names in a directory | open, lock, check, reopen, rotate, write | other loggers of the same file, developers who delete logs, the parent that waits for READY | names and inodes change under a logger; failure halfway through rotation | one rotates at a time, lines reach the log, the log is not thrown away, nobody waits for ever |
| Launcher service (`bin/launcher-service.c`, `portal-listener.c`) and client (`bin/launch-client.c`) | children by process ID, bus name, peers, exported object | Launch, SendSignal, Terminate, child exits, name lost, peer closed, stop | D-Bus, GLib child watches, client | any order of these, also during start-up | it ends once, after its children; every client learns of its child's exit; signals reach only live children |
| Pseudo-terminal bridge (`pty-bridge.c`) | two buffers, an out-of-band buffer, four event sources, terminal attributes | read and write both ways, signals, close | child behind the terminal, the user's terminal, launch client | partial writes, full buffers, EOF and errors on one side only | bytes in order and not lost, reading resumes, attributes restored |
| Supervisor's file descriptors (`process-manager.c`, `log.c`) | fd table of manager and child | assign, pass, close, lock | log redirection, which moves stdout and stderr first | numbers given by the user collide with internal ones | the child gets exactly the fds that were asked for |
| Logger's lines (`logger.c`) | line buffer, parsed level | split, truncate, prefix, partial lines | sinks | buffer exactly full, EOF in a prefix | every byte once, in order, with its line's level |
| Input device monitors (`input-device.c` and its implementations) | devices known, first scan done | added, removed, all-for-now | inotify, udev, main context | scan races with events | a client sees each device added once before it is removed |
| Paths in a sysroot (`resolve-in-sysroot.c`) | stack of fds, path so far, what remains | follow a component or a link, create directories | file systems of host and container | `..` after links, absolute links, new directories, loops | opens what the kernel would after `chroot()` |
| Environment overlay (`env-overlay.c`) | a value, "unset" or "inherit" per variable | set, unset, inherit | everything that starts programs | nothing: the last operation on a variable wins | - |
| Exports (`pressure-vessel/flatpak-exports.c`, `exports.c`) and what bubblewrap (`subprojects/bubblewrap`) makes of them | a table from paths to modes; mounts, directories and links of the new root | share, hide, ensure a directory; append arguments; ask for the mode of a path; apply each argument | host file system, kernel's mounts | links on the way, requests within each other, the order of mounts, an answer before there is a container | the container has what was asked for, the host gets nothing, and the answer is what the container shows |
| pressure-vessel-wrap (`pressure-vessel/wrap*.c`, Flatpak code), graphics stack, diagnostics, helpers, scripts | options, file system contents | one long computation each | host file system | the data | compared with expected output by the tests; not a subject for a model checker |

How they interact: pressure-vessel-wrap deploys a runtime (RuntimeGC), then
executes bubblewrap, which runs pv-adverb in the container. pv-adverb inherits
the lock on the runtime and runs the game with a process manager
(ProcessManager) that keeps the lock until the last descendant has exited; it
may be the child of a launcher service (LauncherService), whose client may talk
to it through a pseudo-terminal (PtyBridge). Output goes to srt-logger, which
divides it into lines (LogLines) and writes them (LogRotation). A program in the
container finds its input devices with a monitor (InputMonitor), and all of
these look up paths below another root (ResolveInSysroot). What of the host the
container shows is decided before bubblewrap starts (Exports) and carried out
by it (Bubblewrap).

Locks connect the modules: RuntimeGC's `End(p)`, in the state `running`, is the
moment at which ProcessManager reaches `pc = "exited"` (the locks are freed
with the manager), and `ExitsAfterDescendants` is what makes it safe to delete
the copy afterwards. In the same way, `ProcessExits(p)` of LauncherService is
the end of a command that may itself be a supervisor, `ClientFinishes` of
PtyBridge is the moment at which LauncherService's client is `done`, and
`CompleteLine` of LogLines hands over what `Write` of LogRotation writes.

## 2. Plan

The modules, in the order in which they were written. Each has a `...Proofs`
module beside it, except that `SupervisorProofs` is about both halves of
steam-runtime-supervisor, ProcessManager and FdSetup, and `LoggerProofs` about
both of logger.c, LogRotation and LogLines.

| Module | Abstract specification | Status |
|---|---|---|
| ProcessManager | - | checked and proved |
| RuntimeGC | - | checked and proved |
| LogRotation | - | checked and proved |
| PtyBridge | Channel, three times | checked and proved, the refinement too |
| LauncherService | RemoteCommand | checked and proved, the refinement too |
| InputMonitor | - | checked and proved |
| LogLines | `Entry`, `Kept` and `Byte`: what each byte of the input is to become, without a buffer | checked and proved |
| FdSetup | `ChildAsAsked`, `SupervisorAsAsked`: what the options say | checked and proved |
| ResolveInSysroot | PathLookup: the kernel's lookup | checked and proved, the agreement with it too |
| Exports, Bubblewrap, composed by Container | `AskedMode`: what the requests say of a file | checked and proved |

What would come next: **FileLocks**, an abstract lock service (shared or
exclusive, per inode) that RuntimeGC and LogRotation would both be shown to
implement; a composition of LauncherService with ProcessManager for commands
that are supervisors; the input monitor that uses udev. The environment overlay
was planned and dropped: each of its operations is one assignment, and a
reference definition would repeat it.

A run that checks several properties at once is cheaper than several runs, so
there is one run for each question about a module's safety, and a smaller
instance for liveness where the larger one is too slow.

## 3. ProcessManager

*State.* Per process ID: `state` (gone, running, stopped, zombie), `parent`,
`got` (signals sent to it), `wstatus`. Of the manager: its `pc`, and the
fields of `TerminationData` under their own names.

*Actions.* `SpawnCommand`, `ChildSetup`, `ExecFails` ... are
`_srt_process_manager_run()` and its child; `WaitForMain`, `DrainChild` ... are
`_srt_wait_for_child_processes()`; `ReapChild`, `ReadChildrenFile`, `VisitChild`
are `termination_data_refresh()` in the order of the code, with one step for
each child, because processes fork and die between them; the timers and
`sigchld_cb()` are the main loop. `SignalManager` is `terminate_child_cb()`,
which may run at any point because it is a signal handler.

*The kernel.* SIGCHLD is one pending bit, because it is a standard signal and
the manager blocks it. A process ID becomes available again when its zombie is
reaped. Orphans go to the manager if it is a subreaper, to init otherwise.
`/proc/PID/task/PID/children` may omit children only while a child is exiting
(proc(5)), in which case SIGCHLD is pending; the scan of `/proc` finds processes
in any order, one at a time. The kill timer fires after the wait timer, as it
was attached after it and is at least as long.

*Left out.* The files (FdSetup), the text of messages, delays below a
millisecond; five more forwarded signals behave as SIGTERM does; threads of
the manager. The error "Process was not seen to exit" cannot be reached.

| Run | Instance | Shows |
|---|---|---|
| `manager_safety` | 3 process IDs, 3 forks (so that IDs are used again), 1 stop, 1 signal, all kinds of options | `ExitsAfterDescendants`, `SentMeansSignalled`, `NoLostWakeup`, `ExitStatusIsCommands`, `SignalsOnlyChildren`; 0.76 million states |
| `manager_terminates` | the same processes, `--terminate-timeout` | `Terminates`: the manager exits whatever the processes do; if they all die of SIGTERM it exits without the kill timer |

*Bounds.* `MaxForks` must be finite, as no manager outruns a fork bomb that
forks faster than it is killed. Three IDs make a manager's child, a grandchild
that becomes an orphan, and a new process under an old ID. One signal is
enough: the handler restores the default action before it raises the signal.

*Fairness.* Weak fairness of the manager's steps (the scheduler), of the timers
(GLib), and of dying of SIGKILL (the kernel). None of processes, signals or
failures. The run's first environment is
exactly `LiveSpec`; the second (`polite` in `MCPoliteProcesses`) also
assumes that processes die of SIGTERM, that nobody stops a process once
termination has begun, and that the grace period is long enough: there the kill
timer is disabled, so that the manager must notice by itself. A stopped process
is continued by the manager's SIGCONT; this is where it matters. `LiveOptions`
are two of the options, as the others lead into the same phases.

*Proof.* `SupervisorProofs`: type correctness and all five safety
properties of the run, for any number of IDs and any bounds. The inductive
invariant adds that parents are alive and parenthood has no cycles (so a set of
processes without the manager's children is empty, which is why "no children"
implies "no descendants"), that a subreaper's descendants never go to init,
that only the manager reaps its children (so the tables cannot go stale), and,
for `NoLostWakeup`, that at each point of the refresh either SIGCHLD is pending
or a child that has been or will be signalled is alive.

## 4. RuntimeGC

*State.* The variable directory (`exists`, `usr`, `usr_ref`, `top`: how much of
`tmp-d/usr` there is, the inode of `tmp-d/usr/.ref`, and that of `tmp-d/.ref` or
that it is a symbolic link), the runtime and its `.ref`, and for each process
the locks that it holds under the names of the fields of `PvRuntime`. A lock
belongs to an inode; names are bound to inodes.

*Actions.* One for each system call that others can observe: opening and
locking `.ref` are two; `RemoveMember` takes the members of a directory in any
order, as `readdir()` does; a copy is made in two steps, so that a process can
die in between. `End` is an error, a kill, or the end of the game. `Natures`
are left-overs: `keep` has a file `./keep`, `stubborn` has content that cannot be
deleted.

*Left out.* Locks without OFD support, whose window on fork() is called
unavoidable at runtime.c:2199; unpacking of archives; `gc-legacy-runtimes`; what
is put into the container. The list of directories is read at once, since
nobody may add to it while GC holds its exclusive lock; a name whose old inode
somebody still has open is not used again by `mkdtemp()`.

| Run | Instance | Shows |
|---|---|---|
| `gc_safety` | 2 processes, 2 names, all left-overs | `CopyIntact`, `CollectsUnused`; 0.41 million states |
| `gc_live` | 2 processes, 1 name that is used again, somebody who deletes the runtime | `CopyProceeds`: a process that waits for the lock on the variable directory gets it |
| `gc_sysroot` | finding | the copy of a complete sysroot (not a merged `/usr`) has no link `.ref`, so GC takes the copy of a running game for unused |

*Bounds.* Two processes are the two sides of every race on a lock; a third
would be in one of their places, as locks are tested pairwise. The theorems
have any number. Processes start again any number of times.

*Fairness.* Weak for a process's own steps and for its end after an error;
strong for `LockToCopy`, which waits for a lock that others take and release
again and again: the kernel wakes those that wait. No game ends by assumption.

*Proof.* `CopiesStayIntact` and `GarbageIsCollected`, for merged `/usr` runtimes
(`MergedUsr`, an assumption of every theorem of that module; `gc_sysroot` shows
that `CopyIntact` needs it) and any number of processes and names, whether or not
somebody deletes the runtime meanwhile. Whoever copies
holds the variable directory's lock and whoever collects holds it exclusively,
so GC only meets complete copies; and the `.ref` of those leads to the inode on
which the owner holds a shared lock.

`CollectsUnused` is about directories that can be deleted: `Undeletable` names
the two kinds of left-over that GC does not delete, which section 11 describes.

## 5. LogRotation

*State.* What `filename`, `previous_filename` and `new_filename` name, and for
each logger its open files and their locks, `leaked` file descriptors included:
`file_fd` is replaced, but not closed, when the log is opened again
(logger.c:1297). `rotating` is `max_bytes > 0`. `file_stat` always describes
`file_fd` and is not a variable of its own. The length of the log is left out:
at each line a logger that may rotate either does or does not.

*Actions.* Each system call of `_srt_logger_setup()`,
`logger_process_complete_line()` and `_srt_logger_try_rotate()` is one, with its
error path; the exception is `rename()`, which is taken together with the
local assignments after it. A parent that opens the log and the srt-logger that
it passes the file to are one logger. `End` is the end of the input or a kill,
at any point; so what a crash leaves behind is part of the reachable states.

*Left out.* Kernels without OFD locks (no rotation there), the other sinks,
lines and levels (LogLines), errors of `stat()` other than ENOENT.

| Run | Instance | Shows |
|---|---|---|
| `logs` | 2 loggers, 3 files, `link()` and `rename()` may fail, `open()` fails when no file is free, somebody deletes the log once | `OneRotator`, `WritesToLog`, `KeepsOldLog`, `BecomesReady`; 0.12 million states |
| `logs_exclusive` | finding | if the previous log cannot be deleted, the exclusive lock is kept for ever, and every other logger of that file blocks (logger.md:38) |

*Bounds.* Loggers start again any number of times, so two cover a sequence of
many; three files are the log, the file that replaces it, and one that a slow
logger still has open. The failure of `unlink()` is left out of `logs`, because
`BecomesReady` does not survive it: that is the finding. `OneRotator`,
`WritesToLog` and `KeepsOldLog` are about loggers among themselves: once
somebody else has deleted the log, two loggers may each believe in a different
one, and one of them may then replace the other's.

*Fairness.* Weak for a logger's steps, strong for its two waiting lock requests,
none for lines, starts, ends and deletions.

*Proof.* `LoggerProofs`: types, `OneRotator`, `WritesToLog`, `KeepsOldLog`
for any number of loggers and files, failures of `unlink()` included. The
invariant: a logger that uses its file holds a lock on it, exclusive in
`_srt_logger_try_rotate()`; the file of a logger that has checked is the log;
the temporary file is nobody else's until it gets its name, and has its
exclusive lock by then; the log has its second name before that.

## 6. PtyBridge

*State.* Bytes are numbered in the order in which they are sent. `typed`,
`signalled` and `printed` are what has been sent, `text_received`,
`oob_received` and `out_received` what has arrived: all six are history. In
between are the kernel's queues (`source`, `pending`, `tty_out`) and the
bridge's buffers (`input_buffer`, `oob_buffer`, `output_buffer`); the read and
write sources of `BridgeFd` exist or not, and a write source may be left with
an fd of -1 (`"dead"`). `attrs` and `saved_attrs` are those of the two
terminals, which may be one (`same`).

*Actions.* One per callback: `InputReads`, `InputCloses`
(`_srt_pty_bridge_input_in_cb`), `PtmxOutCb`, `PtmxInCb`, `OutputOutCb`,
`HandleSignal`; `Initable`, which may fail at any of its steps; and
`ClientFinishes`, with which the launch client leaves its main loop and
finalizes the bridge. A callback is one action because only the kernel's queues
can change while it runs, and how much a read or write transfers is a choice
anyway. `EnvStep` is the user, the child and whoever reads the output.

*Left out.* The size of the terminal (SIGWINCH), `is_active`, and whether a
signal is sent as a control character or to the foreground process group.

| Run | Instance | Shows |
|---|---|---|
| `pty` | 3 bytes of input, 1 signal, 4 bytes of output; buffers of 2 bytes, kernel queues of 1; every fault | `NothingForgotten`, `NothingLost`, `ImplementsChannels`, `OutputFlows`, `InputFlows`, `AttrsRestored`; 0.41 million states |

*Bounds.* One byte more than fits into a buffer and a queue together, in both
directions, so that every buffer becomes full, reading is paused, and it has to
be resumed; two-byte buffers are the smallest in which a write may take a part.

*Fairness.* Weak, for each callback: the main loop dispatches sources that are
ready. None of the user, the child and the destination: `OutputFlows` assumes
by itself that the destination is read again and again, `InputFlows` that the
child reads. `Initable` is fair because nothing happens before it.

*Refinement.* Text, interrupts and output are each a `Channel`: what has been
received is always a prefix of what has been sent. `Text`, `Interrupts` and
`Output` are the refinement mappings.

*Proof.* Every safety property of the run, and the three refinements, for any
sizes. Beside the types and `NothingForgotten`, the invariant says which sources
may exist (`SourcesOK`) and where the original attributes are; everything about
data follows from one fact about a write (`Flow`): what was received followed
by what is buffered does not change. Only checked: `OutputFlows`, `InputFlows`.

## 7. LauncherService

*State.* Of the service: its command line, `export_state`, whether the skeleton
is `live` (accepts calls), its names and whether it is `listening`, the table of
children, `main_pid`. Of a client: whom it knows the service as, its calls that
have not been answered, the messages on their way to it, `child_pid`. `owner`
and `alive` are the kernel's table of processes, in which IDs are used again.

*Actions.* Callbacks of the service's main loop (`HandleLaunch`,
`HandleSendSignal`, `ChildWatchDied`, `NameAcquired`, `NameLost`, `Asked` for
Terminate() and signals, `UnrefSkeleton`), of the client's (`ClientReturns`,
`ClientHears`, `ForwardSignal`), and what happens to both from outside.
`Ends` is the tail of `pv_launcher_server_stop()`, which several of them call.

*Left out.* What a child is given; authentication; a failure to export the
object (the service then ends at once with EX_SOFTWARE). Clients run one
command each. GLib is one that uses pidfds.

| Run | Instance | Shows |
|---|---|---|
| `launcher` | 2 clients, 1 name, 3 process IDs, 3 command lines, symmetric | `OutlivesChildren`, `SignalsOwnChildren`, `MainPidIsTrue`, `StoppedStaysStopped`, `CommandIsRemote`; 0.38 million states |
| `launcher_live` | 1 client | `ClientEnds`: the client hears of the end of its command; `ServiceEnds`: a service that was stopped ends |

*Bounds.* Three IDs are a command, a client's child and another client's, or
the same ID for all of them one after the other. The command lines: the default
with `--exec-fallback`; no command, with a name that others may take over; a
socket and `--no-stop-on-exit`. Two clients are enough for one to use an ID that
has become the other's.

*Fairness.* Weak, for callbacks of both main loops; a process that the service
has sent a signal dies (with `"service" \in told[p]`). None of other processes,
names, clients or stopping. `ClientEnds` excludes a client whose name for the
service has been taken over, `ServiceEnds` a service with a child that it has
not signalled: both are consequences of the code, see section 11.

*Refinement.* `RemoteCommand` says what the client's users rely on: the command
behaves like the client's own child. It starts at most once, an exit status is
reported only after the exit, and failure only while nothing runs.

*Proof.* All safety properties of the run, `CommandIsRemote` included, for any
number of clients, names and IDs. The invariant says for each message what
remains true while it is on its way (`Allowed`), and that a client's process,
if there is one, has the history that `ran` says (`RanOK`).

## 8. InputMonitor

*State.* What nodes there are and which device has a name (`node`, `id`); the
queue of inotify and the part of it in the buffer; the table `devices`; how far
the scan and the callback have got. `seen` is what the client has been told.

*Actions.* `Start`, `Stop`, and steps of the two callbacks, `enumerate_cb` and
`srt_direct_input_device_monitor_cb`: one for each node that they look at, and
two for adding one (`OpenDevice`, `Announce`), because nodes come and go in
between. `Stop` is possible between callbacks and in a handler of the client's.

*Left out.* The monitor that uses udev, what a device is found to be (sysfs,
ioctl), `IN_Q_OVERFLOW`, which the code does not look at.

| Run | Instance | Shows |
|---|---|---|
| `input_monitor` | 1 hidraw and 1 evdev node, 4 changes, buffer of 2 events, all flags | `InSync`, `InitialBatch`, `CatchesUp`; 93 thousand states |

*Bounds.* Two directories because they are listed one after the other; nodes are
independent otherwise. Four changes are: created, made readable, deleted, and
there again. Queues are longer than the buffer.

*Fairness.* Weak fairness of the main context. `CatchesUp` needs nodes to stop
changing, which `MaxChanges` makes sure of.

*Proof.* Types, `InSync` and `InitialBatch` for any nodes, changes and buffer
size. The table is wrong about a node only while a "vanish" event for it is
queued; a usable node is missing only while it is still to be scanned, is open
and about to be announced, or has an "appear" event that no "vanish" follows.
Only checked: `CatchesUp`.

## 9. The sequential parts: LogLines, FdSetup, ResolveInSysroot, Container

These have one actor and share nothing, so `MCSequential` checks them in one
run, `sequential` (1.3 million states): in each behaviour `part` says which of
them takes steps.

**LogLines.** `CompleteLine` is one turn of the loop over lines in
`_srt_logger_process()`, `Read` is `read()` with any number of bytes,
`PartialLine` what is shown of an unfinished line. `LogsTheInput` speaks of
positions in the whole input, without a buffer: a newline is the end of an entry
(`Ends`), and so is a byte with which a line fills the buffer; which bytes are
`Kept` (not the level prefix, not a directive that was understood) and at which
level and in which order each is to be found in the log (`Entry`, `Byte`), the
last directive before the line included. Inputs are sequences of up to four of seven chunks (a level prefix, one
that is out of range, a directive and half of one, a newline, text), 2801 in
all, with a buffer of 6 bytes, in which a line of two chunks fits exactly or is
one byte too long.

**FdSetup.** What `log.c` does with the standard fds, options in any order,
set-up in the child, and what the supervisor closes then. `FdsAsAsked`: both end
up with what the options say. 8 sets of fds may be open at the beginning, with
any of the standard ones closed; 2 options. `Plain` excludes command lines of
which the documentation does not say what they mean; section 11 lists what the
code does with them. Pairs of options are what matters: an fd is the target of
one and the source of another.

**ResolveInSysroot.** One action for each way in which the loop of
`_srt_resolve_in_sysroot()` treats a component. `ResolvesLikeKernel` compares
it with `PathLookup`, path_resolution(7) below a root directory: same file or
same error, with MKDIR_P exactly the missing directories are made, and the walk
follows more links than the kernel allows only where the kernel gives up. The
code has no limit; in the model both stop at `MaxLinks` links, and where the
walk would follow one more it is `Endless`. Trees of up to four files
(`/a`, `/b`, `/a/a`, `/a/b`), each a directory, file or one of seven links,
paths of up to three components, six sets of flags. `MaxLinks` is 8 in the run,
more than any walk here follows that is not in a loop. `Unclear` excludes one
case in which code and kernel differ (KEEP_FINAL_SYMLINK with a slash), and
`lax` another: the code takes no notice of a slash after a link, neither in what
it was asked for nor in the target of another link.

`PathWalk` is the lookup of path_resolution(7), as a function from places (what
is left of a path, where, and how many more links may be followed) to what is
found. It looks the target of a link up as a path of its own, with a result of
its own, and then goes on; the code has one loop, and puts the target in front
of what remains of the path. That is why the agreement is not obvious.

**Container.** `Exports` has the table of flatpak-exports.c. `Ask` is a call
of one of the functions that add to it; `_exports_path_expose()` calls itself
for every link, and `ExposeTarget` is such a call, `Refuse` and `Expose` are the
two ways in which all levels return. `BwrapArguments` is
`flatpak_exports_append_bwrap_args()`, `GetMode` is
`flatpak_exports_path_get_mode()`. `Bubblewrap` applies the arguments as
`setup_newroot()` does, one action for each type; what is found at a path of the
new root is `newroot`, and `mounts` says which of it is the host's. `Fail` is
bubblewrap's exit with an error, and also the creation of something on the host
(`outcome = "wrote"`), which must never happen. `Container` puts `Start` between
them.

`TableAsAsked`: the table has what the kernel finds for each request that was
granted, with the mode that allows most, and otherwise only links, which are
enough to find it. It is about hosts that are plain (`IsPlain`): ".." in the target of a
link comes first, because the code takes ".." away without a look at what is
before it, and such a target has no slash at its end. `ContainerAsAsked`: bubblewrap succeeds and creates nothing on the host; of all
requests about directories above a file, the deepest decides, and of several for
the same directory the one that allows most, in whatever order and through
whichever links they were made; what was asked for is found in the container by
the same path; nothing is mounted over reserved paths. `ModeIsTrue`: `GetMode`
says beforehand what one will then be able to do with every path that exists, or
whose last component does not; like the others, it is about plain hosts, and it says
nothing of what section 11 lists (`ModeIsUnclear`, loops, and links at the end of a
path that lead nowhere). Both look at the container with the kernel's
lookup (`PathWalk`, which PathLookup uses too), not with the table. Seven hosts:
`/a/b` and `/b` are a directory, a file, a FIFO or a link, upwards, into a shared
directory, to each other in a loop, in chains of two, or to a reserved
directory, and `/tmp` may be a dangling link; up to three out of sixteen requests, in
four modes, so that one can be above a second and below a third. Links on the
way to a path are followed `MaxLinkLevel` = 4 deep instead of 40, and the kernel
follows 8: more than any chain here that is not a loop.

*Left out.* The host's `/usr` and `/etc` in `/run/host`, autofs, a mock host
(`host_fd`), the mode "create", which differs from "read-write" in other code only,
and the directories that are reserved only downwards (`/lib*`, `/bin`, `/sbin`).
`pv_bwrap_append_adjusted_exports()`, and a host that changes meanwhile. The
Journal as a sink or stream; READABLE and MUST_BE_EXECUTABLE;
somebody else who changes the tree during the walk.

*Proof.* `SupervisorProofs`: `FdsAsAsked` for any number of fds and options, under
`Parameters`. Until the supervisor lets go, a number that it has not opened
itself is what it was, except that 1 is 2; what it has opened is one of two
copies or a lock. No assignment destroys the source of a later one, because
only the copies are sources that are not the user's, and they come last.
The types are a theorem as well.

`ResolveInSysrootProofs`: types, `PathIsTrue`, `OnlyAdds` and
`ResolvesLikeKernel` for any file systems, paths, flags and `MaxLinks`, under
`WellFormed`: a tree has a root, what contains a file is a directory, and paths
consist of names, `.` and `..`. In four parts:
1. *The lookup is defined.* That a function is defined by a recursive equation
   does not say in TLA+ that it satisfies it. `LookupIs` proves that, from the
   well-founded order of the places (links that are left, then the length of
   the path): the function is put together from functions that are right for
   the places below one, and `CorrectIsUnique` says that these agree.
2. *A path can be looked up in two parts* (`PathDivides`), the first of which has to
   lead to a directory. So it is the same whether the target of a link is looked
   up on its own or in front of the rest (`Follows`), with as many links left
   afterwards.
3. *The invariant*, `WalkInv`: in the tree as it is, **and in every tree that adds
   to it** (`Larger`), the kernel finds for the whole path what it finds for the
   rest of it from the top of the stack, with as many links as are left. The trees
   that are larger are needed because MKDIR_P changes the tree below the walk:
   what it creates must not change what was found before. For each
   new directory, the invariant says also that in any tree that lacks only this
   directory and what is beneath it the kernel finds something missing: this is
   `OnlyNeeded`. Or else the walk has `Strayed`, which is `Unclear`: it has
   followed the one link that it should have kept.
4. Each action takes the same component from both sides (`Enters`, `Stops`,
   `Follows`); at the end of the path nothing is left to look up.

`ContainerProofs`: `TableAsAsked`, `ContainerAsAsked`, `ModeIsTrue` and `BoxTypeOK` for any hosts
and requests, `MaxLinks` and `MaxLinkLevel`, under `ExportsParameters`: a host is a
file system with finitely many files, and names are any that strcmp() sorts, each of
them by where it ends a path and where a slash follows it. First the table. The code takes "." and ".." away by
itself, then puts the target of the first link in front of the rest, and so on,
while the kernel's lookup is recursive and knows no names without links. The
invariant (`Reaches`): while a request is dealt with, the kernel finds for what is
left of it what it finds for the whole of it, with as many links as are left,
**on the host and in every tree that is like it** (`Like`): it has the same files and
directories, perhaps not all links, but those that this request has come upon, and a
link in it may have another target that leads to the same place, since bubblewrap
makes links relative; and what is left begins with an existing directory, then
".", "..", then names (`Solid`), so that it does no harm to take the dots away
(`Canonicalizes`). When there is no link on the way any more, the path is the name
of the file (`Direct`), and the links that were noted are enough. What is granted
stays found, as the table only grows (`Enough`).

Then the container. The invariant (`Building`): the mounts are those that the table has
for the arguments that are done with, and `newroot` has at each path what the
deepest of these mounts has there, besides links and directories that were made
(`RootIs`). Arguments are applied in the order of strcmp(), in which a path comes after all
that is above it, though not always right after (`NotBelow`; `/a-b` sorts between `/a` and
`/a/b`). So when a path's turn comes, all mounts above it are there and none
below it, and the table's answer to whether its parent is mapped is what bubblewrap finds
(`ParentIsOnHost`): a link is made exactly where it is not there already, a directory that
is hidden is there to be hidden, nothing is missing in a directory of the host, and
nothing that has been mounted is hidden. As `RootIs` makes the root of the container, at
any time, a tree like the host (`RootResembles`), what is known of the table holds there:
a path that was asked for leads to the same file. The mode of that file is the one of its
deepest mount, and `TableAsAsked` says that this is the deepest request (`ModeIn`).

Last, what `flatpak_exports_path_get_mode()` says before there is a container. It calls
itself for each link, so `GetMode` is a recursive function, of depth and path; that
there is such a function is proved by hand (`LayersExist`: for each depth one that is
right up to it; `LayersAgree`: these agree), as for the kernel's lookup. The claim for
paths of any depth (`Right`, `ModesAreRight`) compares it with two lookups, those of the
path on the host and in the container: of a file that is found on the host, either the
container has the same file and the mode is what the table allows for it, or the
container has none and the mode is "none"; of one whose last component is missing, it
is "read-write" if and only if its directory is there and can be written to. The proof goes
by the first component that the function stops at. Up to there, all are directories on
the host, and what lies below a file, a link or nothing is in the table in no way
(`MappedAsAbove`), so the function cannot have gone past it (`StepIs`). If it is a link
that is mapped, it is in the container too (`Redirects`), and what is left is the same
question about its target, one link shorter; if it is a link that is not mapped, it is
missing in the container (`LinkIsMissing`). What the table says is mapped
(`IsMappedRight`) is, by `Building`, what is mounted, with the mode with which it is mounted.

`BoxTypeOK` says more than the types: whatever bubblewrap has set up so far is a tree of
files, and every mount point is a path that exists in it. It is proved for any host, also
one on which links are not plain, where the other three properties do not apply. What
makes it difficult is that bubblewrap creates what is missing on the way to a
destination, wherever links lead on that way, and then mounts something there. So the invariant
(`BoxTyped`) is that `newroot` is a tree (`IsTree`), and the proof is about what the lookup
says of it: the path of a file that is found is one that exists (`HasFoundUpto`), and where the first
missing component is to be made, there is nothing, in a directory that exists (`HasWay`). Then
what is made is a tree again, larger by one file (`Grows`), and so is what results
from a mount (`Mounts`), whatever files of the host it brings with it. The lemmas about lookups
are for targets of links that do not end in a slash; a target that does leads to what the
same target with "." at its end leads to (`FindIs`), so they apply to all.

`LoggerProofs`: `LogsTheInput` and `LinesTypeOK` for any input, any division of it
into calls of `read()` and any buffer that has room for a directive, under
`BufferAssumption` and `BytesAssumption`: a directive does not look like a
level prefix and has no newline in it. The invariant: the buffer is what has been
read and not yet consumed; what has been logged is right for what was consumed;
and the variables of the loop say whether the next byte begins a line or goes
on with one that was cut, whether the prefix of that line is known, and which
directive was the last before it. The difficulty is what a prefix may still
become: of a buffer that is too short, it cannot be told whether it begins with
one, and a line is only shown then, never logged; once enough has been read,
more input does not change it. Sequences are compared by their lengths and by their
elements at each position, because equality with a recursive function of the
whole input would be induction over data.

## 10. Proved, checked, neither

| Module | Proved for all values of the constants | Only checked |
|---|---|---|
| ProcessManager | `TypeOK`, `ExitsAfterDescendants`, `SentMeansSignalled`, `NoLostWakeup`, `ExitStatusIsCommands`, `SignalsOnlyChildren` | `Terminates` |
| RuntimeGC | `TypeOK`, `CopyIntact`, `CollectsUnused`, for merged `/usr` runtimes | `CopyProceeds`; the finding `gc_sysroot` |
| LogRotation | `TypeOK`, `OneRotator`, `WritesToLog`, `KeepsOldLog` | `BecomesReady`; the finding `logs_exclusive` |
| PtyBridge | `TypeOK`, `NothingForgotten`, `NothingLost`, `ImplementsChannels`, `AttrsRestored` | `OutputFlows`, `InputFlows` |
| LauncherService | `TypeOK`, `OutlivesChildren`, `SignalsOwnChildren`, `MainPidIsTrue`, `StoppedStaysStopped`, `CommandIsRemote` | `ClientEnds`, `ServiceEnds` |
| InputMonitor | `TypeOK`, `InSync`, `InitialBatch` | `CatchesUp` |
| LogLines | `LinesTypeOK`, `LogsTheInput` | - |
| FdSetup | `FdsTypeOK`, `FdsAsAsked` | - |
| ResolveInSysroot | `PathTypeOK`, `PathIsTrue`, `OnlyAdds`, `ResolvesLikeKernel` | - |
| Exports | `TableAsAsked` | - |
| Container | `BoxTypeOK`, `ContainerAsAsked`, `ModeIsTrue` | - |

`TypeOK` of LogRotation and of InputMonitor is proved and not part of a run.
`TypesOK` of MCSequential is the conjunction of those of the four parts, and
`PathIsTrue`: all of them are proved, each in its module.

Liveness under fairness is beyond the prover. The library's theorems for
induction over data take an operator as a parameter, which is beyond it too;
where ResolveInSysroot needs such an induction it is a proof by a least
counterexample (`HasMinimum`, `HasLeast`). The assumptions of the
theorems are the named ASSUMEs of the modules, `MergedUsr` for RuntimeGC,
`BufferAssumption` and `BytesAssumption` for LogLines, `Parameters` for FdSetup,
`WellFormed` for ResolveInSysroot and `ExportsParameters` for Exports and Container; TLC evaluates
them for every instance.

## 11. What the runs do not say

What was met while modelling, is not a property, or is excluded from one.

*Process manager.* If the manager is killed between fork() and
PR_SET_PDEATHSIG (process-manager.c:1049-1056), COMMAND survives it. A signal
after COMMAND has exited kills the manager while it waits for descendants,
since the handler then restores the default (supervisor.md:244 speaks of
forwarding). A signal between wait() and `global_child_pid = 0`
(process-manager.c:1317) goes to whoever has the ID by then. The model has all
of these behaviours; the properties speak of a manager that is alive.

*Runtimes.* GC is skipped whenever somebody holds the shared lock
(runtime.c:1674-1682), so copies may accumulate. A deletion that was
interrupted after `usr` leaves a dangling `.ref`, which cannot be opened, and
that directory is never collected (runtime.c:938, compare wrap.1.md:139). A
process that was killed while it copied leaves a `.ref` hard-linked to the
runtime's: it is not collected while that is locked. A `.ref` of the runtime
that is opened before and locked after a clean-up is a lock on a deleted file
(runtime.c:1654, locking.md:37). Without OFD locks, the lock is lost on fork()
and taken again by pv-adverb; runtime.c:2199 calls that unavoidable.

*Log files.* A logger that is killed between creating `new_filename` and
renaming it (logger.c:1081) disables rotation for every later logger, because of
O_EXCL, and each of those deletes the previous log before it notices. A line may
go to a file without a name if the log is rotated twice while a logger opens it
again (logger.c:1272). `file_fd` is not closed when that happens.

*Lines.* logger.md:344 says that the fifth line of its example, which starts
with `<3>`, is logged at level 3; by logger.md:323-326 and the code it has the
level of the directive, 4.

*Pseudo-terminal.* The client leaves its main loop as soon as it hears that the
command has exited (launch-client.c:133) and does not drain the bridge, so
output may be lost (compare launch-client.md:330-333). BRIDGE_FD_HANGUP is never
set, so output for a destination that has failed is kept instead of discarded
(pty-bridge.c:722, 779); the buffer fills and the command blocks. Attributes are
not restored by `srt_pty_bridge_finalize()` for an input that was closed first
and whose terminal is also the output's. After the end of the input its source
stays ready: the loop is busy until the terminal closes (pty-bridge.c:680).
`_srt_pty_bridge_get_controlling_terminal()` returns FALSE, which is the valid
fd 0, on its first failure.

*Launcher.* Launch() is still served for 500 ms after Terminate()
(launcher-service.c:259), although the interface says that the service stops
listening for it. SIGTERM during start-up leaves EX_UNAVAILABLE, and with
`--exec-fallback` the service then runs its command. The last ProcessExited may
be lost, as main() returns without flushing its connection; the client exits
with 255 as soon as the service's name is released, whichever comes first. A
client whose name for the service was taken over may wait for ever. Peers that
disconnect are not signalled. With a GLib that has no pidfds, children are
reaped before `child_watch_died()`, and the table is stale in between (lines
640, 683). launcher-service.md writes `--[no-]stop-on-exit` where it describes
the loss of a name.

*Input devices.* A stop() in a handler, or while the scan is queued, does not
keep that callback from emitting more signals (input-device.c:1428). is-active
is TRUE after a failed start (input-device.c:1317). Signals are emitted in the
main context that was the default when the monitor was constructed, not when it
was started (input-device.c:1388). IN_Q_OVERFLOW is ignored, and a chmod after a
device was added does not update what the client was told about it. The udev
monitor may enumerate a device before udev has set its properties. The loop in
the classification that is said to look for three axes looks at two.

*File descriptors.* Assignments take effect in order, so two fds cannot be
swapped. `--assign-fd=9=1` copies the diverted stderr (process-manager.c:803;
supervisor.md:52-55). `--assign-fd=3=3 --close-fds` leaves fd 3 close-on-exec.
A target may be the number at which log.c has saved the original stdout.
`--lock-fd=5 --pass-fd=5` closes the lock in the supervisor, and again when it is
freed (supervisor.md:170). `--pass-fd` is said to have no effect without
`--close-fds` (supervisor.md:233), but it has with `--lock-fd`. If stdout is closed
at the start, COMMAND's stdout is stderr.

*Paths.* Nothing limits the links that are followed: for `a -> a/x` the remaining
path grows for ever. A slash after a symbolic link is dropped, so `link/` opens a
file, and so does a link to `link/`. If another process creates a directory just before `mkdirat()`, MKDIR_P
fails (resolve-in-sysroot.c:386). MKDIR_P creates the target of a dangling link,
of which the description of that flag does not speak.

*Exports.* A link on the host whose target goes into a directory that is not
shared and out again (`a/../b`) is created with that target, only made relative
(flatpak-exports.c:490), and leads nowhere in the container; the hosts in
the bounds have no such targets. `flatpak_exports_path_get_mode("/")` says
"read-write", since the loop over components does not run for it
(flatpak-exports.c:697), and therefore so it does for a shared link to `/`, such
as Wine's `dosdevices/z:`; its comment promises "NONE if not visible". Hiding
something that is not a directory has no effect (flatpak-exports.c:524), but the
mode is then said to be "none". A loop of links in a shared directory makes the
function call itself for ever. A link at the end of a path that leads nowhere may
be said to be "read-write" if its target could be created. `ModeIsTrue` excludes these
four (`ModeIsUnclear`, and paths that end in a loop or in such a link). If `/tmp` is a link, it is bound as a directory
while the function follows the link; hiding it, or asking for a directory, has
no effect; and if it leads nowhere and is shared, bubblewrap ends with an error
(`TmpIsLink`).

*System information.* `_srt_system_info_set_sysroot()` (system-info.c:2238) keeps
what has been found out about drivers, the runtime linker and portals below the
other root, and the setters of architectures, of the subprocess runner and of
check flags each forget only some of the caches that depend on them. The
programs in this repository call `set_sysroot` before they ask anything.

## 12. Not modelled

Everything with that status in `PROJECT.json`, with the reason there. Most of
the repository's lines are one of three things: long sequential computations
whose result depends on the contents of a file system (what a container sees,
which graphics drivers take precedence, what the diagnostic tools report); code
of other projects (Flatpak, bubblewrap, libcapsule); and parsers and writers of
formats. They have no interleavings, and their correctness is a matter of data
that the repository's tests compare with expected output.
