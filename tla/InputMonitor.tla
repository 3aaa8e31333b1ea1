---------------------------- MODULE InputMonitor ----------------------------
(***************************************************************************)
(* steam-runtime-tools/direct-input-device.c: a monitor tells its client   *)
(* which input devices there are.  It watches /dev and /dev/input with     *)
(* inotify and scans both once, in callbacks of a main context, while      *)
(* device nodes come and go and udev changes their permissions.            *)
(*                                                                         *)
(* Callbacks of the main context do not interrupt each other, but device   *)
(* nodes change at any point of a callback, so a callback is one action    *)
(* for each node or event that it looks at, and two if it adds a device.   *)
(* In a handler of its signals the client may stop the monitor.            *)
(***************************************************************************)
EXTENDS Naturals, Sequences

CONSTANTS
    RawHid,       \* names of the form /dev/hidrawN
    Evdev,        \* names of the form /dev/input/eventN
    BatchSize,    \* events that fit into the buffer of one read()
    MaxChanges    \* bound: changes of the device nodes after start()

ASSUME NodesAssumption ==
    RawHid \cap Evdev = {} /\ "none" \notin RawHid \cup Evdev
ASSUME SizesAssumption == BatchSize \in Nat \ {0} /\ MaxChanges \in Nat

Nodes        == RawHid \cup Evdev
Kinds        == {"hidraw", "input"}
NodesOf(k)   == IF k = "hidraw" THEN RawHid ELSE Evdev
OfKinds(ks)  == UNION {NodesOf(k) : k \in ks}

VARIABLES
    (* the kernel and udev *)
    node,      \* "gone", "closed": there, but open() fails, or "ready"
    id,        \* which device has the name now, or had it last
    changes,
    steady,    \* history: nodes that were ready at start() and did not change
    (* the monitor *)
    state,     \* "NOT_STARTED", "STARTED", "STOPPED"
    want,      \* want_hidraw, want_evdev
    once,      \* SRT_INPUT_DEVICE_MONITOR_FLAGS_ONCE
    watch,     \* which of dev_watch and devinput_watch are valid
    source,    \* monitor_source is attached
    events,    \* events of inotify_fd, those in the buffer included
    nread,     \* how many of them are in the buffer
    devices,   \* hash table: the device that was added under a name, or 0
    running,   \* "none", "enumerate": enumerate_cb, "monitor": .._monitor_cb
    scan,      \* enumerate_cb: "none", "queued", "begun"
    dirs,      \* what it has not listed yet
    listed,    \* what it has listed and not looked at
    opened,    \* what add_device() has opened and not announced, or NoDevice
    (* the client *)
    seen,      \* history: the device last "added" and not "removed", or 0
    announced, \* history: "all-for-now" was emitted
    handling   \* it runs in a handler of "added" or "removed"

kernelVars == <<node, id, changes, steady>>
tableVars  == <<devices, opened>>
scanVars   == <<running, scan, dirs, listed>>
fdVars     == <<watch, source, events, nread>>
flagVars   == <<state, want, once>>
seenVars   == <<seen, announced, handling>>
vars       == <<kernelVars, tableVars, scanVars, fdVars, flagVars, seenVars>>

NoDevice == [node |-> "none", id |-> 0]

Appear(n) == [what |-> "appear", node |-> n]   \* IN_CREATE, MOVED_TO, ATTRIB
Vanish(n) == [what |-> "vanish", node |-> n]   \* IN_DELETE, IN_MOVED_FROM

\* The events that are asked for; faulty variant: without IN_ATTRIB.
NoAttrib == {"CREATE", "DELETE", "MOVE"}
Mask     == {"CREATE", "DELETE", "MOVE", "ATTRIB"}

Init ==
    /\ node \in [Nodes -> {"gone", "closed", "ready"}]
    /\ id = [n \in Nodes |-> IF node[n] = "gone" THEN 0 ELSE 1]
    /\ changes = 0 /\ steady = {}
    /\ state = "NOT_STARTED" /\ want \in SUBSET Kinds /\ once \in BOOLEAN
    /\ watch = {} /\ source = FALSE /\ events = <<>> /\ nread = 0
    /\ devices = [n \in Nodes |-> 0] /\ opened = NoDevice
    /\ running = "none" /\ scan = "none" /\ dirs = {} /\ listed = {}
    /\ seen = [n \in Nodes |-> 0] /\ announced = FALSE
    /\ handling = FALSE

-----------------------------------------------------------------------------
(* Device nodes.  What is not watched is not queued.                       *)
Change(n, mask, what) ==
    /\ state # "NOT_STARTED"
    /\ changes < MaxChanges /\ changes' = changes + 1
    /\ steady' = steady \ {n}
    /\ events' = IF n \in OfKinds(watch) /\ mask \in Mask
                  THEN Append(events, what) ELSE events
    /\ UNCHANGED <<watch, source, nread, tableVars, scanVars, flagVars, seenVars>>

\* A new device, at first often with permissions that udev is about to change.
Create(n) ==
    /\ node[n] = "gone"
    /\ \E access \in {"closed", "ready"} : node' = [node EXCEPT ![n] = access]
    /\ id' = [id EXCEPT ![n] = @ + 1]
    /\ Change(n, "CREATE", Appear(n))

Chmod(n) ==
    /\ node[n] # "gone"
    /\ \E access \in {"closed", "ready"} \ {node[n]} :
           node' = [node EXCEPT ![n] = access]
    /\ UNCHANGED id
    /\ Change(n, "ATTRIB", Appear(n))

Delete(n) ==
    /\ node[n] # "gone"
    /\ node' = [node EXCEPT ![n] = "gone"]
    /\ UNCHANGED id
    /\ Change(n, "DELETE", Vanish(n))

-----------------------------------------------------------------------------
(* start() and stop().                                                     *)
Watched == IF once THEN {} ELSE want

\* enumerate_cb is called at once if start() runs in the main context.
Start ==
    /\ state = "NOT_STARTED" /\ state' = "STARTED"
    /\ watch' = Watched
    /\ source' = (Watched # {})
    /\ scan' = "queued"
    /\ steady' = {n \in Nodes : node[n] = "ready"}
    /\ UNCHANGED <<node, id, changes, tableVars, running, dirs, listed,
                   events, nread, want, once, seenVars>>

\* inotify_init1() or inotify_add_watch() fails: no source, and no scan.  (What
\* watch there is by then is never read, and left out.)
StartFails ==
    /\ state = "NOT_STARTED" /\ state' = "STARTED"
    /\ Watched # {}
    /\ UNCHANGED <<kernelVars, tableVars, scanVars, fdVars, want, once, seenVars>>

\* Events that are left in the buffer match no watch any more.
Stop ==
    /\ state # "STOPPED" /\ state' = "STOPPED"
    /\ running = "none" \/ handling
    /\ watch' = {} /\ source' = FALSE /\ events' = <<>> /\ nread' = 0
    /\ devices' = [n \in Nodes |-> 0]
    /\ UNCHANGED <<kernelVars, opened, scanVars, want, once, seenVars>>

-----------------------------------------------------------------------------
(* add_device() and remove_device().                                       *)
\* "Never add a device for a second time".
IsNew(n) == devices[n] = 0

\* The first half, up to open().
OpenDevice(n) ==
    opened' = IF IsNew(n) /\ node[n] = "ready"
              THEN [node |-> n, id |-> id[n]] ELSE NoDevice

Without(n) == [devices EXCEPT ![n] = 0]

\* The second half.  After stop() there is no table.
Announce ==
    /\ opened # NoDevice /\ opened' = NoDevice
    /\ devices' = IF state = "STOPPED" THEN devices
                  ELSE [devices EXCEPT ![opened.node] = opened.id]
    /\ seen' = [seen EXCEPT ![opened.node] = opened.id]
    /\ handling' = TRUE
    /\ UNCHANGED <<kernelVars, scanVars, fdVars, flagVars, announced>>

RemoveDevice(n) ==
    /\ UNCHANGED <<opened, announced>>
    /\ IF devices[n] = 0 THEN /\ handling' = FALSE
                              /\ UNCHANGED <<devices, seen>>
       ELSE /\ devices' = Without(n)
            /\ seen' = [seen EXCEPT ![n] = 0]
            /\ handling' = TRUE

-----------------------------------------------------------------------------
(* enumerate_cb: /dev, then /dev/input, each listed at once and sorted; the *)
(* order of devices of one kind is left open.                              *)
Enumerate ==
    /\ running = "none" /\ scan = "queued"
    /\ running' = "enumerate" /\ scan' = "begun"
    /\ dirs' = want /\ listed' = {} /\ handling' = FALSE
    /\ UNCHANGED <<kernelVars, tableVars, fdVars, flagVars, seen, announced>>

Enumerating == running = "enumerate" /\ opened = NoDevice

ListDirectory(k) ==
    /\ Enumerating /\ listed = {}
    /\ k \in dirs /\ (k = "input" => "hidraw" \notin dirs)
    /\ dirs' = dirs \ {k}
    /\ listed' = {n \in NodesOf(k) : node[n] # "gone"}
    /\ handling' = FALSE
    /\ UNCHANGED <<kernelVars, tableVars, fdVars, flagVars, running, scan,
                   seen, announced>>

AddListed(n) ==
    /\ Enumerating /\ n \in listed
    /\ listed' = listed \ {n}
    /\ OpenDevice(n) /\ handling' = FALSE
    /\ UNCHANGED <<kernelVars, devices, fdVars, flagVars, running, scan, dirs,
                   seen, announced>>

\* Faulty variant: a directory is forgotten.
OneListed == listed = {}
AllListed == listed = {} /\ dirs = {}

AllForNow ==
    /\ Enumerating /\ AllListed
    /\ running' = "none" /\ dirs' = {} /\ announced' = TRUE
    /\ handling' = FALSE
    /\ UNCHANGED <<kernelVars, tableVars, fdVars, flagVars, scan, listed, seen>>

-----------------------------------------------------------------------------
(* srt_direct_input_device_monitor_cb().                                   *)
ReadEvents ==
    /\ running = "none" /\ source /\ events # <<>>
    /\ running' = "monitor"
    /\ nread' = IF Len(events) < BatchSize THEN Len(events) ELSE BatchSize
    /\ handling' = FALSE
    /\ UNCHANGED <<kernelVars, tableVars, watch, source, events, flagVars,
                   scan, dirs, listed, seen, announced>>

NextEvent(what) ==
    /\ running = "monitor" /\ opened = NoDevice
    /\ nread > 0 /\ nread' = nread - 1
    /\ Head(events).what = what /\ events' = Tail(events)
    /\ UNCHANGED <<kernelVars, watch, source, flagVars, scanVars>>

NodeAppears ==
    /\ NextEvent("appear")
    /\ OpenDevice(Head(events).node) /\ handling' = FALSE
    /\ UNCHANGED <<devices, seen, announced>>

NodeVanishes ==
    /\ NextEvent("vanish")
    /\ RemoveDevice(Head(events).node)

\* Faulty variant: G_SOURCE_REMOVE.
SourceRemoved == FALSE
SourceKept    == source

EventsHandled ==
    /\ running = "monitor" /\ opened = NoDevice /\ nread = 0
    /\ running' = "none" /\ source' = SourceKept /\ handling' = FALSE
    /\ UNCHANGED <<kernelVars, tableVars, watch, events, nread, flagVars,
                   scan, dirs, listed, seen, announced>>

-----------------------------------------------------------------------------
Kernel == \E n \in Nodes : Create(n) \/ Chmod(n) \/ Delete(n)

Client == Start \/ StartFails \/ Stop

MainContext ==
    \/ Enumerate \/ AllForNow \/ Announce
    \/ \E k \in Kinds : ListDirectory(k)
    \/ \E n \in Nodes : AddListed(n)
    \/ ReadEvents \/ NodeAppears \/ NodeVanishes \/ EventsHandled

Next == Kernel \/ Client \/ MainContext

Spec     == Init /\ [][Next]_vars
LiveSpec == Spec /\ WF_vars(MainContext)

-----------------------------------------------------------------------------
(* Correctness.                                                            *)
Event == {Appear(n) : n \in Nodes} \cup {Vanish(n) : n \in Nodes}

\* Types; and what the client was told is what the table says (add_device(),
\* remove_device()), until stop() drops the table.
TypeOK ==
    /\ node \in [Nodes -> {"gone", "closed", "ready"}] /\ id \in [Nodes -> Nat]
    /\ changes \in 0..MaxChanges /\ steady \subseteq Nodes
    /\ state \in {"NOT_STARTED", "STARTED", "STOPPED"}
    /\ want \subseteq Kinds /\ once \in BOOLEAN
    /\ watch \subseteq Watched /\ source \in BOOLEAN
    /\ events \in Seq(Event) /\ nread \in 0..Len(events)
    /\ devices \in [Nodes -> Nat]
    /\ running \in {"none", "enumerate", "monitor"}
    /\ scan \in {"none", "queued", "begun"}
    /\ dirs \subseteq Kinds /\ listed \subseteq Nodes
    /\ opened \in [node : Nodes, id : Nat] \cup {NoDevice}
    /\ seen \in [Nodes -> Nat]
    /\ announced \in BOOLEAN /\ handling \in BOOLEAN
    /\ state # "STOPPED" => seen = devices

\* What the client knows is true of a node: it knows no device that has gone,
\* also if another one has the name now, and it knows every usable one.
KnownRight(n) ==
    /\ seen[n] # 0 => node[n] # "gone" /\ seen[n] = id[n]
    /\ node[n] = "ready" => seen[n] = id[n]

Idle == running = "none" /\ scan = "begun" /\ events = <<>>

\* Whenever a monitor has nothing left to do, its client knows exactly the
\* devices that there are, however they came and went during the scan
\* (srt_direct_input_device_monitor_cb and enumerate_cb, which overlap).
InSync ==
    state = "STARTED" /\ ~once /\ Idle =>
        \A n \in OfKinds(want) : KnownRight(n)

\* "all-for-now" comes after every device that was there from the beginning
\* (enumerate_cb; also without inotify).
InitialBatch ==
    announced /\ state = "STARTED" =>
        \A n \in steady \cap OfKinds(want) : seen[n] = id[n]

\* When device nodes no longer change, the client will know them, and that
\* it does (the sources of the main context stay attached).
CatchesUp ==
    <>[](state = "STARTED" /\ ~once /\ scan # "none" =>
            announced /\ \A n \in OfKinds(want) : KnownRight(n))
=============================================================================
