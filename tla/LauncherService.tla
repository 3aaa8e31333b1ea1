--------------------------- MODULE LauncherService ---------------------------
(***************************************************************************)
(* bin/launcher-service.c and steam-runtime-tools/portal-listener.c: a     *)
(* service that runs commands for clients (bin/launch-client.c), which it  *)
(* meets on the session bus or on a socket, and one command of its own.    *)
(*                                                                         *)
(* The service has one main loop, so a callback is one action.  It writes  *)
(* messages in another thread, which ends with the process: those that     *)
(* were sent last may then be lost.  A client runs one command.            *)
(*                                                                         *)
(* Process IDs are used again.  GLib is one that waits for a child when it *)
(* calls child_watch_died() (a pidfd), not before.                         *)
(***************************************************************************)
EXTENDS Naturals, Sequences, FiniteSets

CONSTANTS
    Clients, Names, Pids,
    Options,       \* command lines that are considered
    NoPid,         \* main_pid before the command has been started
    Unique         \* the unique name of the service's connection

ASSUME NamesAssumption ==
    /\ NoPid \notin Pids /\ Unique \notin Names
    /\ {"main", "nobody", "service"} \cap Clients = {}

\* A service without a command has nothing to fall back to or to stop with.
ASSUME OptionsAssumption ==
    /\ Options \subseteq [{"bus", "wrapped", "stop_on_exit", "stop_on_name_loss",
                          "exec_fallback"} -> BOOLEAN]
    /\ \A o \in Options : (o.exec_fallback \/ o.stop_on_exit) => o.wrapped

VARIABLES
    (* the service *)
    opts,          \* command line
    pc,            \* "start", "loop", "exited", or "exec": runs the command itself
    exit_status,   \* "unavailable", "ok"
    export_state,  \* "starting", "listening", "exported", "gone"
    launcher,      \* the skeleton: "none", "live", "dead"
    unref_timer,   \* unref_skeleton_in_timeout_cb() is going to be called
    started, main_pid,
    main_alive,    \* main_pid_str is not NULL
    children,      \* client_pid_data_hash: for some process IDs, PidData
    peers,         \* clients that are connected to the socket
    (* its SrtPortalListener *)
    listening,     \* bus_names, or server, is not NULL
    ready,
    names,         \* per name: "waiting", "owned", "lost", "released"
    (* processes other than the service *)
    owner,         \* per process ID: a client, "main", or "nobody": a stranger, or none
    alive,         \* those of them that are not zombies
    told,          \* who has sent signals to it: "service", clients
    (* clients *)
    client,        \* "idle", "calling", "waiting", "done"
    via,           \* the name of the service that it uses
    call,          \* its call to Launch(): "none", "launch", "launch_terminate"
    sig,           \* its call to SendSignal() is for this process ID, or NoPid
    inbox,         \* messages for it
    child_pid,
    dropped,       \* those whose NameOwnerChanged the service has not handled
    ran,           \* history: "no", "running", "exited"
    status         \* "none", "command", "failed", "unknown", "died"

startVars  == <<opts, pc, exit_status, started, ready, peers>>
mainVars   == <<main_pid, main_alive>>
exportVars == <<export_state, launcher, unref_timer, listening, names>>
procVars   == <<owner, alive, told>>
clientVars == <<client, via, call, sig, inbox, child_pid, dropped, ran, status>>
vars == <<startVars, mainVars, exportVars, children, procVars, clientVars>>

Free == { p \in Pids : owner[p] = "nobody" }

-----------------------------------------------------------------------------
(* Messages.                                                               *)
Reply(p)  == [kind |-> "reply", pid |-> p]
Exited(p) == [kind |-> "exited", pid |-> p]
Error     == [kind |-> "error"]
Gone      == [kind |-> "gone"]     \* NameOwnerChanged, or GDBusConnection::closed

\* Messages for one client; for those who use one of the names in `lost`.
Sent(box, c, m)     == IF client[c] = "done" THEN box ELSE [box EXCEPT ![c] = Append(@, m)]
SentGone(box, lost) ==
    [c \in Clients |-> IF client[c] # "done" /\ via[c] \in lost THEN Append(box[c], Gone)
                                                                ELSE box[c]]

-----------------------------------------------------------------------------
Init ==
    /\ opts \in Options
    /\ pc = "start" /\ exit_status = "unavailable"
    /\ export_state = "starting" /\ launcher = "none" /\ unref_timer = FALSE
    /\ started = FALSE /\ main_pid = NoPid /\ main_alive = FALSE
    /\ children = <<>> /\ peers = {}
    /\ listening = FALSE /\ ready = FALSE /\ names = [n \in Names |-> "waiting"]
    /\ owner = [p \in Pids |-> "nobody"] /\ alive = {} /\ told = [p \in Pids |-> {}]
    /\ client = [c \in Clients |-> "idle"] /\ via = [c \in Clients |-> Unique]
    /\ call = [c \in Clients |-> "none"] /\ sig = [c \in Clients |-> NoPid]
    /\ inbox = [c \in Clients |-> <<>>] /\ child_pid = [c \in Clients |-> NoPid]
    /\ dropped = {}
    /\ ran = [c \in Clients |-> "no"] /\ status = [c \in Clients |-> "none"]

-----------------------------------------------------------------------------
(* Stopping.                                                               *)

\* What pv_launcher_server_stop() may change.
Service == [export_state |-> export_state, unref_timer |-> unref_timer,
            listening |-> listening, names |-> names, told |-> told, inbox |-> inbox]

Becomes(s) ==
    /\ export_state' = s.export_state /\ unref_timer' = s.unref_timer
    /\ listening' = s.listening /\ names' = s.names
    /\ told' = s.told /\ inbox' = s.inbox

\* pv_launcher_server_terminate_children(), name_owner_changed()
Signalled(s, pids, who) ==
    [s EXCEPT !.told = [p \in Pids |-> s.told[p] \cup (IF p \in pids THEN {who} ELSE {})]]

\* _srt_portal_listener_stop_listening()
StopListening(s) ==
    [s EXCEPT !.listening = FALSE,
              !.names = [n \in Names |-> IF s.names[n] = "lost" THEN "lost" ELSE "released"],
              !.inbox = SentGone(s.inbox, { n \in Names : s.names[n] = "owned" })]

\* Faulty variant: waits for skeleton_died_cb() in any case.
EndsLater(s) == [s EXCEPT !.unref_timer = s.export_state = "exported"]

\* The end of pv_launcher_server_stop().
Ends(s) == IF s.export_state = "exported" THEN [s EXCEPT !.unref_timer = TRUE]
                                          ELSE [s EXCEPT !.export_state = "gone"]

Stopped(s) == Ends(StopListening(s))

\* Faulty variant: the table keeps processes that have been waited for.
KeptIn(p) == children

\* client_pid_data_hash without `p`.
RemovedFrom(p) == [q \in DOMAIN children \ {p} |-> children[q]]

-----------------------------------------------------------------------------
(* Starting.                                                               *)

\* A new process.
Spawned(p, who) ==
    /\ p \in Free
    /\ owner' = [owner EXCEPT ![p] = who] /\ alive' = alive \cup {p}

PidData(who, terminate_after) == [client |-> who, terminate_after |-> terminate_after]

NewChild(p, who, terminate_after) ==
    /\ Spawned(p, who)
    /\ children' = [q \in DOMAIN children \cup {p} |->
                      IF q = p THEN PidData(who, terminate_after) ELSE children[q]]

\* portal_listener_ready_cb() and pv_launcher_server_finish_startup(), in a service
\* that is like s, once no name is awaited any more.
Starts(s) ==
    /\ started' = TRUE
    /\ \/ /\ IF opts.wrapped
             THEN \E p \in Pids :
                    /\ NewChild(p, "main", opts.stop_on_exit)
                    /\ main_pid' = p /\ main_alive' = TRUE
             ELSE UNCHANGED <<children, owner, alive, mainVars>>
          /\ exit_status' = "ok"
          /\ Becomes(IF s.export_state = "starting" THEN [s EXCEPT !.export_state = "listening"]
                                                    ELSE s)
       \/ /\ opts.wrapped
          /\ Becomes(Stopped(Signalled(s, DOMAIN children, "service")))
          /\ UNCHANGED <<children, owner, alive, mainVars, exit_status>>

\* srt_portal_listener_check_ready(); without bus_names nothing is awaited.
CheckReady(s) ==
    LET waits == s.listening /\ opts.bus /\ \E n \in Names : s.names[n] = "waiting"
    IN  IF ready \/ waits
        THEN Becomes(s) /\ UNCHANGED <<ready, started, exit_status, children, owner, alive, mainVars>>
        ELSE /\ ready' = TRUE
             /\ IF exit_status = "unavailable" /\ s.export_state # "gone"
                THEN Starts(s)
                ELSE /\ Becomes(s)
                     /\ UNCHANGED <<started, exit_status, children, owner, alive, mainVars>>

\* _srt_portal_listener_listen() on a socket, or on the session bus, where
\* on_bus_acquired() exports the object before any name is owned.
Listen ==
    /\ pc = "start" /\ pc' = "loop"
    /\ launcher' = IF opts.bus THEN "live" ELSE "none"
    /\ CheckReady([Service EXCEPT !.listening = TRUE,
                                  !.export_state = IF opts.bus THEN "exported" ELSE @])
    /\ UNCHANGED <<opts, peers, client, via, call, sig, child_pid, dropped, ran, status>>

Fallback == IF opts.exec_fallback /\ main_pid = NoPid THEN "exec" ELSE "exited"

ListenFails ==
    /\ pc = "start" /\ pc' = Fallback
    /\ UNCHANGED <<opts, exit_status, started, ready, peers, mainVars, exportVars,
                   children, procVars, clientVars>>

-----------------------------------------------------------------------------
(* Callbacks of the main loop.                                             *)
Loop == pc = "loop"

\* on_name_acquired(); the bus gives a name back when its new owner has gone.
NameAcquired(n) ==
    /\ Loop /\ listening /\ opts.bus /\ names[n] \in {"waiting", "lost"}
    /\ CheckReady([Service EXCEPT !.names[n] = "owned"])
    /\ UNCHANGED <<opts, pc, peers, launcher, client, via, call, sig, child_pid,
                   dropped, ran, status>>

\* Faulty variant: as after any other stop.
StopsLater(s) == s

\* A service that loses its name before it has started is not going to start.
StopsBeforeStart(s) == IF started THEN s ELSE [s EXCEPT !.export_state = "gone"]

\* on_name_lost() in both files; the name may not have been acquired at all.
NameLost(n) ==
    /\ Loop /\ listening /\ opts.bus /\ names[n] \in {"waiting", "owned"}
    /\ LET s == [Service EXCEPT !.names[n] = "lost"]
       IN  CheckReady(IF opts.stop_on_name_loss THEN StopsBeforeStart(Stopped(s)) ELSE s)
    /\ UNCHANGED <<opts, pc, peers, launcher, client, via, call, sig, child_pid,
                   dropped, ran, status>>

\* new_connection_cb() and pv_launcher_server_export()
NewConnection(c) ==
    /\ Loop /\ listening /\ ~opts.bus /\ client[c] = "calling" /\ c \notin peers
    /\ peers' = peers \cup {c}
    /\ launcher' = "live" /\ export_state' = "exported"
    /\ UNCHANGED <<opts, pc, exit_status, started, ready, unref_timer, listening, names,
                   mainVars, children, procVars, clientVars>>

Reaches(c) == Loop /\ (opts.bus \/ c \in peers)

\* handle_launch()
HandleLaunch(c) ==
    /\ Reaches(c) /\ call[c] # "none" /\ launcher = "live"
    /\ call' = [call EXCEPT ![c] = "none"]
    /\ \/ \E p \in Pids :
             /\ NewChild(p, c, call[c] = "launch_terminate")
             /\ inbox' = Sent(inbox, c, Reply(p))
             /\ ran' = [ran EXCEPT ![c] = "running"]
       \/ inbox' = Sent(inbox, c, Error) /\ UNCHANGED <<children, owner, alive, ran>>
    /\ UNCHANGED <<startVars, mainVars, exportVars, told, client, via, sig, child_pid,
                   dropped, status>>

\* The skeleton has been unexported.
RefuseLaunch(c) ==
    /\ Loop /\ call[c] # "none"
    /\ launcher = "dead" \/ ~(listening \/ opts.bus \/ c \in peers)
    /\ call' = [call EXCEPT ![c] = "none"]
    /\ inbox' = Sent(inbox, c, Error)
    /\ UNCHANGED <<startVars, mainVars, exportVars, children, procVars, client, via, sig,
                   child_pid, dropped, ran, status>>

\* Faulty variant: whoever asks.
AnyChild(c, p) == p \in DOMAIN children

\* The process is the client's, as far as the service knows.
OwnChild(c, p) == p \in DOMAIN children /\ children[p].client = c

\* handle_send_signal()
HandleSendSignal(c) ==
    /\ Reaches(c) /\ sig[c] # NoPid
    /\ sig' = [sig EXCEPT ![c] = NoPid]
    /\ told' = IF launcher = "live" /\ OwnChild(c, sig[c])
               THEN [told EXCEPT ![sig[c]] = @ \cup {c}] ELSE told
    /\ UNCHANGED <<startVars, mainVars, exportVars, children, owner, alive, client, via, call,
                   inbox, child_pid, dropped, ran, status>>

\* handle_terminate(), signal_handler() and exit_on_readable_cb(): somebody asks the
\* service to stop.
Asked ==
    /\ Loop
    /\ Becomes(Stopped(Signalled(Service, DOMAIN children, "service")))
    /\ UNCHANGED <<opts, pc, exit_status, started, ready, peers, launcher, mainVars, children,
                   owner, alive, client, via, call, sig, child_pid, dropped, ran, status>>

\* name_owner_changed(): a client has left the bus.
HandleDropped(c) ==
    /\ Loop /\ opts.bus /\ c \in dropped /\ call[c] = "none"
    /\ dropped' = dropped \ {c}
    /\ told' = Signalled(Service, { p \in DOMAIN children : children[p].client = c }, "service").told
    /\ UNCHANGED <<startVars, mainVars, exportVars, children, owner, alive, client, via, call,
                   sig, inbox, child_pid, ran, status>>

\* Faulty variants: everybody hears of every child; only those hear who have asked
\* the service to stop then; MAINPID is not cleared if the service stops.
ToAnyone(p)   == Clients
ToSome(p)     == IF children[p].terminate_after THEN {children[p].client} ELSE {}
MainStays(p)  == main_alive /\ ~(p = main_pid /\ children[p].terminate_after)

\* Who hears of the end of a child.
ToClient(p)  == {children[p].client} \cap Clients
MainLives(p) == main_alive /\ p # main_pid

\* GLib waits for a child and calls child_watch_died().
ChildWatchDied(p) ==
    /\ Loop /\ p \in DOMAIN children /\ p \notin alive
    /\ owner' = [owner EXCEPT ![p] = "nobody"]
    /\ children' = RemovedFrom(p)
    /\ main_alive' = MainLives(p)
    /\ LET s == [Service EXCEPT
                   !.told[p] = {},
                   !.inbox = [c \in Clients |-> IF c \in ToClient(p)
                                               THEN Sent(inbox, c, Exited(p))[c] ELSE inbox[c]]]
       IN  Becomes(IF children[p].terminate_after
                   THEN Stopped(Signalled(s, DOMAIN children \ {p}, "service")) ELSE s)
    /\ UNCHANGED <<startVars, launcher, main_pid, alive, client, via, call, sig, child_pid,
                   dropped, ran, status>>

\* unref_skeleton_in_timeout_cb() and skeleton_died_cb()
UnrefSkeleton ==
    /\ Loop /\ unref_timer
    /\ unref_timer' = FALSE /\ launcher' = "dead" /\ export_state' = "gone"
    /\ UNCHANGED <<startVars, mainVars, listening, names, children, procVars, clientVars>>

\* Faulty variant: only what is exported keeps the service.
ExportAlive == export_state # "gone"

\* pv_launcher_server_still_alive()
StillAlive == DOMAIN children # {} \/ export_state # "gone"

\* What a client gets if the service ends after `box`: its call fails
\* and its connection is closed, or the bus tells it that a name has no owner.
Closing(c, box) ==
    LET Has(kinds) == \E i \in DOMAIN box : box[i].kind \in kinds
    IN  box \o (IF client[c] = "calling" /\ ~Has({"reply", "error"}) THEN <<Error>> ELSE <<>>)
            \o (IF ~Has({"gone"}) /\ (via[c] = Unique \/ names[via[c]] # "lost")
                THEN <<Gone>> ELSE <<>>)

\* The end of main().  What has not been written to the client's connection is lost.
LeaveMainLoop ==
    /\ Loop /\ ~StillAlive
    /\ pc' = Fallback
    /\ \E kept \in [Clients -> UNION { 0..Len(inbox[c]) : c \in Clients }] :
          /\ \A c \in Clients : kept[c] <= Len(inbox[c])
          /\ inbox' = [c \in Clients |->
                         IF client[c] \in {"idle", "done"} THEN inbox[c]
                         ELSE Closing(c, SubSeq(inbox[c], 1, kept[c]))]
    /\ call' = [c \in Clients |-> "none"] /\ sig' = [c \in Clients |-> NoPid]
    /\ UNCHANGED <<opts, exit_status, started, ready, peers, mainVars, exportVars,
                   children, procVars, client, via, child_pid, dropped, ran, status>>

-----------------------------------------------------------------------------
(* Processes.                                                              *)

ProcessExits(p) ==
    /\ p \in alive
    /\ alive' = alive \ {p}
    /\ ran' = [c \in Clients |-> IF c = owner[p] THEN "exited" ELSE ran[c]]
    /\ UNCHANGED <<startVars, mainVars, exportVars, children, owner, told, client, via, call,
                   sig, inbox, child_pid, dropped, status>>

-----------------------------------------------------------------------------
(* bin/launch-client.c                                                     *)
serviceVars == <<startVars, mainVars, exportVars, children, procVars>>

Available == { n \in Names : names[n] = "owned" } \cup {Unique}

\* The client subscribes to ProcessExited and NameOwnerChanged, and calls Launch().
ClientCalls(c) ==
    /\ client[c] = "idle" /\ Loop /\ listening
    /\ client' = [client EXCEPT ![c] = "calling"]
    /\ \E n \in Available : via' = [via EXCEPT ![c] = n]
    /\ \E kind \in {"launch", "launch_terminate"} : call' = [call EXCEPT ![c] = kind]
    /\ UNCHANGED <<serviceVars, sig, inbox, child_pid, dropped, ran, status>>

\* What the client knew goes with it.
Done(c, s) ==
    /\ client' = [client EXCEPT ![c] = "done"] /\ status' = [status EXCEPT ![c] = s]
    /\ inbox' = [inbox EXCEPT ![c] = <<>>]
    /\ child_pid' = [child_pid EXCEPT ![c] = NoPid] /\ via' = [via EXCEPT ![c] = Unique]

\* The synchronous call returns; signals wait until the main loop runs.
ClientReturns(c) ==
    /\ client[c] = "calling"
    /\ \E i \in DOMAIN inbox[c] :
          /\ inbox[c][i].kind \in {"reply", "error"}
          /\ IF inbox[c][i].kind = "reply"
             THEN /\ client' = [client EXCEPT ![c] = "waiting"]
                  /\ child_pid' = [child_pid EXCEPT ![c] = inbox[c][i].pid]
                  /\ inbox' = [inbox EXCEPT ![c] = SubSeq(@, 1, i - 1)
                                                 \o SubSeq(@, i + 1, Len(@))]
                  /\ UNCHANGED <<status, via>>
             ELSE Done(c, "failed")
    /\ UNCHANGED <<serviceVars, call, sig, dropped, ran>>

\* Faulty variant: of any process.
OfAnyChild(c, p) == TRUE

OfMyChild(c, p) == p = child_pid[c]

\* process_exited_cb(), name_owner_changed() and connection_closed_cb()
ClientHears(c) ==
    /\ client[c] = "waiting" /\ inbox[c] # <<>>
    /\ LET m == Head(inbox[c])
       IN  \/ m.kind = "gone" /\ Done(c, "unknown")
           \/ m.kind = "exited" /\ OfMyChild(c, m.pid) /\ Done(c, "command")
           \/ /\ m.kind = "exited" /\ ~OfMyChild(c, m.pid)
              /\ inbox' = [inbox EXCEPT ![c] = Tail(@)]
              /\ UNCHANGED <<client, status, via, child_pid>>
    /\ UNCHANGED <<serviceVars, call, sig, dropped, ran>>

\* forward_signal(); one signal tells as much as many.
ForwardSignal(c) ==
    /\ client[c] = "waiting" /\ Loop /\ sig[c] = NoPid /\ c \notin told[child_pid[c]]
    /\ sig' = [sig EXCEPT ![c] = child_pid[c]]
    /\ UNCHANGED <<serviceVars, client, via, call, inbox, child_pid, dropped, ran, status>>

ClientDies(c) ==
    /\ client[c] \in {"calling", "waiting"}
    /\ Done(c, "died") /\ dropped' = IF Loop /\ opts.bus THEN dropped \cup {c} ELSE dropped
    /\ UNCHANGED <<serviceVars, call, sig, ran>>

-----------------------------------------------------------------------------
NameStep   == \E n \in Names : NameAcquired(n) \/ NameLost(n)
CallStep   == \E c \in Clients : NewConnection(c) \/ HandleLaunch(c) \/ RefuseLaunch(c)
                                 \/ HandleSendSignal(c) \/ HandleDropped(c)
ChildStep  == \E p \in Pids : ChildWatchDied(p)
MainStep   == Listen \/ ListenFails \/ Asked \/ UnrefSkeleton \/ LeaveMainLoop
ProcStep   == \E p \in Pids : ProcessExits(p)
ClientStep == \E c \in Clients : ClientCalls(c) \/ ClientReturns(c) \/ ClientHears(c)
                                 \/ ForwardSignal(c) \/ ClientDies(c)

Next == NameStep \/ CallStep \/ ChildStep \/ MainStep \/ ProcStep \/ ClientStep

Spec == Init /\ [][Next]_vars

-----------------------------------------------------------------------------
(* Fairness: main loops dispatch their callbacks, and a process to which the *)
(* service has sent a signal dies.                                         *)
LiveSpec ==
    /\ Spec
    /\ WF_vars(UnrefSkeleton) /\ WF_vars(LeaveMainLoop)
    /\ \A c \in Clients :
         /\ WF_vars(HandleLaunch(c)) /\ WF_vars(RefuseLaunch(c)) /\ WF_vars(NewConnection(c))
         /\ WF_vars(HandleDropped(c)) /\ WF_vars(ClientReturns(c)) /\ WF_vars(ClientHears(c))
    /\ \A p \in Pids :
         /\ WF_vars(ChildWatchDied(p))
         /\ WF_vars("service" \in told[p] /\ ProcessExits(p))

-----------------------------------------------------------------------------
(* Properties.                                                             *)

Owners   == Clients \cup {"main", "nobody"}
Messages == [kind : {"reply", "exited"}, pid : Pids] \cup [kind : {"error", "gone"}]

\* Types; and a PidData is always that of the process which has its process ID.
TypeOK ==
    /\ opts \in Options /\ pc \in {"start", "loop", "exited", "exec"}
    /\ exit_status \in {"unavailable", "ok"}
    /\ export_state \in {"starting", "listening", "exported", "gone"}
    /\ launcher \in {"none", "live", "dead"}
    /\ {unref_timer, started, main_alive, listening, ready} \subseteq BOOLEAN
    /\ main_pid \in Pids \cup {NoPid}
    /\ DOMAIN children \subseteq Pids
    /\ \A p \in DOMAIN children :
         /\ children[p] \in [client : Clients \cup {"main"}, terminate_after : BOOLEAN]
         /\ owner[p] = children[p].client
    /\ peers \subseteq Clients /\ dropped \subseteq Clients
    /\ names \in [Names -> {"waiting", "owned", "lost", "released"}]
    /\ owner \in [Pids -> Owners] /\ alive \subseteq Pids
    /\ told \in [Pids -> SUBSET (Clients \cup {"service"})]
    /\ client \in [Clients -> {"idle", "calling", "waiting", "done"}]
    /\ via \in [Clients -> Names \cup {Unique}]
    /\ call \in [Clients -> {"none", "launch", "launch_terminate"}]
    /\ sig \in [Clients -> Pids \cup {NoPid}]
    /\ child_pid \in [Clients -> Pids \cup {NoPid}]
    /\ inbox \in [Clients -> Seq(Messages)]
    /\ ran \in [Clients -> {"no", "running", "exited"}]
    /\ status \in [Clients -> {"none", "command", "failed", "unknown", "died"}]

\* The service ends, or becomes its own command, only when all of its children have
\* gone, however it was asked to end; and it never runs its command twice.
OutlivesChildren ==
    pc \in {"exited", "exec"} =>
        /\ alive = {}
        /\ pc = "exec" => main_pid = NoPid

\* Signals reach the service's children, and a client's signals its own, although
\* process IDs are used again while clients still use the old ones.
SignalsOwnChildren ==
    \A p \in Pids :
        /\ owner[p] = "nobody" => told[p] = {}
        /\ told[p] \cap Clients \subseteq {owner[p]}

\* MAINPID, which is given to later children, is the service's own command.
MainPidIsTrue == main_alive => main_pid \in Pids /\ owner[main_pid] = "main"

\* Once the service has been stopped, its own command is not started, although the
\* loss of the last name it waits for makes the listener ready.
StoppedStaysStopped ==
    [][Loop /\ ~listening' => main_pid' = main_pid]_vars

\* To its client, a command is as good as a child of its own.
Remote == INSTANCE RemoteCommand

CommandIsRemote == Remote!Spec

\* A client learns that its command has ended, or that nobody can tell; unless another
\* service has taken over the name that the client knows.
ClientEnds ==
    \A c \in Clients :
        (client[c] = "waiting" /\ ran[c] = "exited") ~>
            (client[c] = "done" \/ (via[c] # Unique /\ names[via[c]]  = "lost"))

\* A service that has been stopped ends, unless it has a child to which it has not
\* sent a signal.
ServiceEnds ==
    (Loop /\ ~listening) ~> (~Loop \/ \E p \in DOMAIN children : "service" \notin told[p])

=============================================================================
