------------------------- MODULE InputMonitorProofs -------------------------
(***************************************************************************)
(* Proofs about InputMonitor, for any device nodes, any number of changes   *)
(* and any size of the buffer: its types, InSync and InitialBatch.          *)
(*                                                                         *)
(* The argument for InSync: what the table says of a node is wrong only     *)
(* while a "vanish" event of that node is queued, and a usable node is      *)
(* missing only while it is still to be scanned, opened but not announced,  *)
(* or has an "appear" event that no "vanish" event follows.                 *)
(***************************************************************************)
EXTENDS InputMonitor, TLAPS

\* A "vanish" event of n is queued.
Leaving(s, n) == \E i \in 1..Len(s) : s[i] = Vanish(n)

\* An "appear" event of n is queued, and no "vanish" event after it.
Coming(s, n) ==
    \E i \in 1..Len(s) :
        /\ s[i] = Appear(n)
        /\ \A j \in i + 1 .. Len(s) : s[j] # Vanish(n)

\* enumerate_cb has not looked at n yet.
ToBeScanned(n) ==
    \/ scan = "queued"
    \/ running = "enumerate" /\ (n \in OfKinds(dirs) \/ n \in listed)

Opened(n) == opened = [node |-> n, id |-> id[n]]

Active == state = "STARTED" /\ ~once /\ scan # "none"

-----------------------------------------------------------------------------
(* The inductive invariant.                                                *)

\* Nothing happens before start().
Fresh ==
    state = "NOT_STARTED" =>
        /\ watch = {} /\ events = <<>> /\ devices = [n \in Nodes |-> 0]
        /\ opened = NoDevice /\ running = "none" /\ scan = "none"
        /\ ~announced

\* How the phases of the monitor follow each other.
Phases ==
    /\ opened # NoDevice => running # "none"
    /\ source \/ running # "none" => scan # "none"
    /\ running = "enumerate" => scan = "begun"
    /\ announced => scan = "begun" /\ running # "enumerate"
    /\ scan = "none" => steady = {}
    /\ Active => watch = want
    /\ \A n \in Nodes : node[n] # "gone" => id[n] # 0

\* What is told or opened is true, or a "vanish" event will correct it.
Truthful(n) ==
    /\ devices[n] # 0 /\ (node[n] = "gone" \/ devices[n] # id[n])
          => Leaving(events, n)
    /\ opened.node = n /\ (node[n] = "gone" \/ opened.id # id[n])
          => Leaving(events, n)

\* What is usable is known, or will be.
Complete(n) ==
    /\ node[n] = "ready" /\ devices[n] # id[n]
          => Coming(events, n) \/ ToBeScanned(n) \/ Opened(n)
    /\ node[n] = "ready" /\ Leaving(events, n) => Coming(events, n)

Accurate == Active => \A n \in OfKinds(want) : Truthful(n) /\ Complete(n)

\* The nodes that have not changed since start().
SteadyOK(n) ==
    /\ node[n] = "ready" /\ devices[n] \in {0, id[n]} /\ ~Leaving(events, n)
    /\ opened.node = n => opened.id = id[n]
    /\ \/ devices[n] = id[n] \/ ToBeScanned(n)
       \/ running = "enumerate" /\ Opened(n)

Steady == state = "STARTED" => \A n \in steady \cap OfKinds(want) : SteadyOK(n)

IInv == TypeOK /\ Fresh /\ Phases /\ Accurate /\ Steady

-----------------------------------------------------------------------------
(* The queue of events.                                                    *)

\* The two kinds of events are different, and each is about one node.
LEMMA Events ==
  ASSUME NEW m, NEW n
  PROVE  /\ Appear(m) # Vanish(n)
         /\ Appear(m) = Appear(n) => m = n
         /\ Vanish(m) = Vanish(n) => m = n
BY DEF Appear, Vanish

\* An event is queued after the others.
LEMMA QueueEvent ==
  ASSUME NEW s \in Seq(Event), NEW e \in Event, NEW n
  PROVE  /\ Leaving(s, n) => Leaving(Append(s, e), n)
         /\ e = Vanish(n) => Leaving(Append(s, e), n)
         /\ Leaving(Append(s, e), n) => Leaving(s, n) \/ e = Vanish(n)
         /\ e = Appear(n) => Coming(Append(s, e), n)
         /\ e # Vanish(n) /\ Coming(s, n) => Coming(Append(s, e), n)
<1> DEFINE t == Append(s, e)
<1>1. /\ Len(s) \in Nat /\ Len(t) = Len(s) + 1
      /\ t[Len(s) + 1] = e
      /\ \A i \in 1..Len(s) : t[i] = s[i]
  OBVIOUS
<1> HIDE DEF t
<1>2. Leaving(s, n) => Leaving(t, n)
  BY <1>1 DEF Leaving
<1>3. e = Vanish(n) => Leaving(t, n)
  BY <1>1 DEF Leaving
<1>4. Leaving(t, n) => Leaving(s, n) \/ e = Vanish(n)
  BY <1>1 DEF Leaving
<1>5. e = Appear(n) => Coming(t, n)
  BY <1>1 DEF Coming
<1>6. ASSUME e # Vanish(n), Coming(s, n) PROVE Coming(t, n)
  <2>1. PICK i \in 1..Len(s) : s[i] = Appear(n) /\ \A j \in i + 1 .. Len(s) : s[j] # Vanish(n)
    BY <1>6 DEF Coming
  <2>2. t[i] = Appear(n) /\ i \in 1..Len(t) /\ \A j \in i + 1 .. Len(t) : t[j] # Vanish(n)
    BY <1>1, <1>6, <2>1
  <2> QED
    BY <2>2 DEF Coming
<1> QED
  BY <1>2, <1>3, <1>4, <1>5, <1>6 DEF t

\* The first event is taken from the queue.
LEMMA TakeEvent ==
  ASSUME NEW s \in Seq(Event), s # <<>>, NEW n
  PROVE  /\ Leaving(Tail(s), n) => Leaving(s, n)
         /\ Leaving(s, n) => Leaving(Tail(s), n) \/ Head(s) = Vanish(n)
         /\ Coming(s, n) => Coming(Tail(s), n)
                            \/ (Head(s) = Appear(n) /\ ~Leaving(Tail(s), n))
<1> DEFINE t == Tail(s)
<1>1. /\ Len(s) \in Nat /\ Len(t) \in Nat /\ Len(t) = Len(s) - 1
      /\ Head(s) = s[1]
      /\ \A i \in 1..Len(t) : t[i] = s[i + 1]
  OBVIOUS
<1> HIDE DEF t
<1>2. Leaving(t, n) => Leaving(s, n)
  <2> SUFFICES ASSUME Leaving(t, n) PROVE Leaving(s, n)
    OBVIOUS
  <2>1. PICK i \in 1..Len(t) : t[i] = Vanish(n)
    BY DEF Leaving
  <2>2. i + 1 \in 1..Len(s) /\ s[i + 1] = Vanish(n)
    BY <1>1, <2>1
  <2> QED
    BY <2>2 DEF Leaving
<1>3. Leaving(s, n) => Leaving(t, n) \/ Head(s) = Vanish(n)
  <2> SUFFICES ASSUME Leaving(s, n), Head(s) # Vanish(n) PROVE Leaving(t, n)
    OBVIOUS
  <2>1. PICK i \in 1..Len(s) : s[i] = Vanish(n)
    BY DEF Leaving
  <2>2. i # 1
    BY <1>1, <2>1
  <2>3. i - 1 \in 1..Len(t) /\ t[i - 1] = s[(i - 1) + 1] /\ (i - 1) + 1 = i
    BY <1>1, <2>2
  <2>4. t[i - 1] = Vanish(n)
    BY <2>1, <2>3
  <2> QED
    BY <2>3, <2>4 DEF Leaving
<1>4. Coming(s, n) => Coming(t, n) \/ (Head(s) = Appear(n) /\ ~Leaving(t, n))
  <2> SUFFICES ASSUME Coming(s, n)
               PROVE  Coming(t, n) \/ (Head(s) = Appear(n) /\ ~Leaving(t, n))
    OBVIOUS
  <2>1. PICK i \in 1..Len(s) : s[i] = Appear(n) /\ \A j \in i + 1 .. Len(s) : s[j] # Vanish(n)
    BY DEF Coming
  <2>2. \A j \in 1..Len(t) : j >= i => t[j] # Vanish(n)
    <3> SUFFICES ASSUME NEW j \in 1..Len(t), j >= i PROVE t[j] # Vanish(n)
      OBVIOUS
    <3>1. j + 1 \in i + 1 .. Len(s) /\ t[j] = s[j + 1]
      BY <1>1
    <3> QED
      BY <2>1, <3>1
  <2>3. CASE i = 1
    BY <1>1, <2>1, <2>2, <2>3 DEF Leaving
  <2>4. CASE i # 1
    <3>1. i - 1 \in 1..Len(t) /\ t[i - 1] = s[(i - 1) + 1] /\ (i - 1) + 1 = i
      BY <1>1, <2>4
    <3>2. t[i - 1] = Appear(n)
      BY <2>1, <3>1
    <3>3. \A j \in (i - 1) + 1 .. Len(t) : t[j] # Vanish(n)
      BY <2>2, <3>1
    <3> QED
      BY <3>1, <3>2, <3>3 DEF Coming
  <2> QED
    BY <2>3, <2>4
<1> QED
  BY <1>2, <1>3, <1>4 DEF t

-----------------------------------------------------------------------------
(* Types.                                                                  *)

\* Every event is about a node.
LEMMA EventOf ==
  ASSUME NEW n \in Nodes
  PROVE  Appear(n) \in Event /\ Vanish(n) \in Event
BY DEF Event

\* A device node changes: the event is queued, if it is.
LEMMA ChangeTypes ==
  ASSUME TypeOK, NEW n \in Nodes, NEW mask, NEW what \in Event,
         Change(n, mask, what)
  PROVE  /\ changes' \in 0..MaxChanges /\ steady' \subseteq Nodes
         /\ events' \in Seq(Event) /\ nread' \in 0..Len(events')
<1>1. changes' \in 0..MaxChanges /\ steady' \subseteq Nodes
  BY SizesAssumption DEF TypeOK, Change
<1>2. events' \in Seq(Event) /\ Len(events') >= Len(events) /\ Len(events') \in Nat
  BY DEF TypeOK, Change
<1>3. nread' = nread /\ nread \in 0..Len(events)
  BY DEF TypeOK, Change
<1> QED
  BY <1>1, <1>2, <1>3 DEF TypeOK

\* The first event is taken: those in the buffer are still queued.
LEMMA NextEventTypes ==
  ASSUME TypeOK, NEW what, NextEvent(what)
  PROVE  /\ events # <<>> /\ Head(events) \in Event
         /\ events' \in Seq(Event) /\ nread' \in 0..Len(events')
<1>1. nread \in 0..Len(events) /\ nread > 0 /\ Len(events) \in Nat /\ events \in Seq(Event)
  BY DEF TypeOK, NextEvent
<1>2. events # <<>>
  BY <1>1
<1>3. events' = Tail(events) /\ nread' = nread - 1
  BY DEF NextEvent
<1> QED
  BY <1>1, <1>2, <1>3

\* An event of the queue is that of its node.
LEMMA EventFields ==
  ASSUME NEW e \in Event
  PROVE  /\ e.node \in Nodes
         /\ e.what = "appear" => e = Appear(e.node)
         /\ e.what = "vanish" => e = Vanish(e.node)
BY DEF Event, Appear, Vanish

\* NoDevice is not a device.
LEMMA NoDeviceNode ==
  NoDevice.node \notin Nodes
BY NodesAssumption DEF NoDevice, Nodes

\* add_device() opens a device of that node, or none.
LEMMA OpenTypes ==
  ASSUME TypeOK, NEW n \in Nodes, OpenDevice(n)
  PROVE  opened' \in [node : Nodes, id : Nat] \cup {NoDevice}
BY DEF TypeOK, OpenDevice

\* Device nodes change.
LEMMA KernelTypes ==
  ASSUME TypeOK, Kernel
  PROVE  TypeOK'
<1>1. PICK n \in Nodes : Create(n) \/ Chmod(n) \/ Delete(n)
  BY DEF Kernel
<1>2. Appear(n) \in Event /\ Vanish(n) \in Event
  BY EventOf
<1>3. /\ changes' \in 0..MaxChanges /\ steady' \subseteq Nodes
      /\ events' \in Seq(Event) /\ nread' \in 0..Len(events')
  <2>1. CASE Create(n)
    BY <1>2, <2>1, ChangeTypes DEF Create
  <2>2. CASE Chmod(n)
    BY <1>2, <2>2, ChangeTypes DEF Chmod
  <2>3. CASE Delete(n)
    BY <1>2, <2>3, ChangeTypes DEF Delete
  <2> QED
    BY <1>1, <2>1, <2>2, <2>3
<1>4. node' \in [Nodes -> {"gone", "closed", "ready"}]
  BY <1>1 DEF TypeOK, Create, Chmod, Delete
<1>5. id' \in [Nodes -> Nat]
  BY <1>1 DEF TypeOK, Create, Chmod, Delete
<1>6. UNCHANGED <<watch, source, tableVars, scanVars, flagVars, seenVars>>
  BY <1>1 DEF Create, Chmod, Delete, Change
<1> QED
  BY <1>3, <1>4, <1>5, <1>6
  DEF TypeOK, tableVars, scanVars, flagVars, seenVars, Watched

\* start() and stop().
LEMMA ClientTypes ==
  ASSUME TypeOK, Client
  PROVE  TypeOK'
<1> USE DEF TypeOK, kernelVars, tableVars, scanVars, fdVars, flagVars, seenVars, Watched
<1>1. CASE Start
  BY <1>1 DEF Start
<1>2. CASE StartFails
  BY <1>2 DEF StartFails
<1>3. CASE Stop
  <2>1. /\ watch' = {} /\ events' = <<>> /\ nread' = 0 /\ state' = "STOPPED"
        /\ source' = FALSE /\ devices' = [n \in Nodes |-> 0]
    BY <1>3 DEF Stop
  <2>2. events' \in Seq(Event) /\ nread' \in 0..Len(events')
    BY <2>1
  <2>3. UNCHANGED <<kernelVars, opened, scanVars, want, once, seenVars>>
    BY <1>3 DEF Stop
  <2> QED
    BY <2>1, <2>2, <2>3
<1> QED
  BY <1>1, <1>2, <1>3 DEF Client

\* enumerate_cb, and what it shares with the other callback.
LEMMA EnumerateTypes ==
  ASSUME TypeOK,
         \/ Enumerate \/ AllForNow \/ Announce
         \/ \E k \in Kinds : ListDirectory(k)
         \/ \E n \in Nodes : AddListed(n)
  PROVE  TypeOK'
<1> USE DEF TypeOK, kernelVars, tableVars, scanVars, fdVars, flagVars, seenVars, Watched
<1>1. CASE Enumerate
  BY <1>1 DEF Enumerate
<1>2. CASE AllForNow
  BY <1>2 DEF AllForNow
<1>3. CASE Announce
  <2>1. opened.node \in Nodes /\ opened.id \in Nat
    BY <1>3 DEF Announce
  <2>2. devices' \in [Nodes -> Nat] /\ seen' \in [Nodes -> Nat]
    BY <1>3, <2>1 DEF Announce
  <2>3. state' # "STOPPED" => seen' = devices'
    BY <1>3 DEF Announce
  <2> QED
    BY <1>3, <2>2, <2>3 DEF Announce
<1>4. ASSUME NEW k \in Kinds, ListDirectory(k) PROVE TypeOK'
  BY <1>4 DEF ListDirectory, NodesOf, Nodes
<1>5. ASSUME NEW n \in Nodes, AddListed(n) PROVE TypeOK'
  <2>1. opened' \in [node : Nodes, id : Nat] \cup {NoDevice}
    BY <1>5, OpenTypes DEF AddListed
  <2> QED
    BY <1>5, <2>1 DEF AddListed
<1> QED
  BY <1>1, <1>2, <1>3, <1>4, <1>5

\* srt_direct_input_device_monitor_cb().
LEMMA MonitorTypes ==
  ASSUME TypeOK, ReadEvents \/ NodeAppears \/ NodeVanishes \/ EventsHandled
  PROVE  TypeOK'
<1>1. CASE ReadEvents
  <2>1. nread' \in 0..Len(events)
    BY <1>1, SizesAssumption DEF ReadEvents, TypeOK
  <2> QED
    BY <1>1, <2>1
    DEF ReadEvents, TypeOK, kernelVars, tableVars, flagVars, Watched
<1>2. CASE NodeAppears
  <2>1. NextEvent("appear") /\ OpenDevice(Head(events).node)
    BY <1>2 DEF NodeAppears
  <2>2. /\ Head(events) \in Event
        /\ events' \in Seq(Event) /\ nread' \in 0..Len(events')
    BY <2>1, NextEventTypes
  <2>3. opened' \in [node : Nodes, id : Nat] \cup {NoDevice}
    BY <2>1, <2>2, EventFields, OpenTypes
  <2>4. UNCHANGED <<kernelVars, watch, source, flagVars, scanVars>>
    BY <2>1 DEF NextEvent
  <2>5. handling' = FALSE /\ UNCHANGED <<devices, seen, announced>>
    BY <1>2 DEF NodeAppears
  <2> QED
    BY <2>2, <2>3, <2>4, <2>5
    DEF TypeOK, kernelVars, flagVars, scanVars, Watched
<1>3. CASE NodeVanishes
  <2> DEFINE n == Head(events).node
  <2>1. NextEvent("vanish") /\ RemoveDevice(n)
    BY <1>3 DEF NodeVanishes
  <2>2. /\ Head(events) \in Event
        /\ events' \in Seq(Event) /\ nread' \in 0..Len(events')
    BY <2>1, NextEventTypes
  <2>3. n \in Nodes
    BY <2>2, EventFields
  <2> HIDE DEF n
  <2>4. devices' \in [Nodes -> Nat] /\ seen' \in [Nodes -> Nat]
    <3>1. CASE devices[n] = 0
      BY <2>1, <3>1 DEF RemoveDevice, TypeOK
    <3>2. CASE devices[n] # 0
      <4>1. /\ devices' = [devices EXCEPT ![n] = 0]
            /\ seen' = [seen EXCEPT ![n] = 0]
        BY <2>1, <3>2 DEF RemoveDevice, Without
      <4>2. devices \in [Nodes -> Nat] /\ seen \in [Nodes -> Nat]
        BY DEF TypeOK
      <4> QED
        BY <2>3, <4>1, <4>2
    <3> QED
      BY <3>1, <3>2
  <2>5. state # "STOPPED" => seen' = devices'
    BY <2>1, <2>3 DEF RemoveDevice, Without, TypeOK
  <2>6. handling' \in BOOLEAN /\ UNCHANGED <<opened, announced>>
    BY <2>1 DEF RemoveDevice, TypeOK
  <2>7. UNCHANGED <<kernelVars, watch, source, flagVars, scanVars>>
    BY <2>1 DEF NextEvent
  <2> QED
    BY <2>2, <2>4, <2>5, <2>6, <2>7
    DEF TypeOK, kernelVars, flagVars, scanVars, Watched
<1>4. CASE EventsHandled
  BY <1>4
  DEF EventsHandled, SourceKept, TypeOK, kernelVars, tableVars, flagVars, Watched
<1> QED
  BY <1>1, <1>2, <1>3, <1>4

\* A step that changes nothing.
LEMMA StutterTypes ==
  ASSUME TypeOK, UNCHANGED vars
  PROVE  TypeOK'
BY DEF TypeOK, vars, kernelVars, tableVars, scanVars, fdVars, flagVars, seenVars, Watched

LEMMA TypeStep ==
  TypeOK /\ [Next]_vars => TypeOK'
BY KernelTypes, ClientTypes, EnumerateTypes, MonitorTypes, StutterTypes
DEF Next, MainContext

-----------------------------------------------------------------------------
(* The phases of the monitor.                                              *)

\* Before start() the main context has nothing to do.
LEMMA FreshStep ==
  TypeOK /\ Fresh /\ [Next]_vars => Fresh'
<1> SUFFICES ASSUME TypeOK, Fresh, [Next]_vars, state' = "NOT_STARTED"
             PROVE  Fresh'
  BY DEF Fresh
<1>1. CASE Kernel
  <2>1. state # "NOT_STARTED" /\ state' = state
    BY <1>1 DEF Kernel, Create, Chmod, Delete, Change, flagVars
  <2> QED
    BY <2>1
<1>2. CASE Client
  BY <1>2 DEF Client, Start, StartFails, Stop
<1>3. CASE MainContext
  <2>1. state = "NOT_STARTED"
    BY <1>3 DEF MainContext, Enumerate, AllForNow, Announce, ListDirectory,
       AddListed, ReadEvents, NodeAppears, NodeVanishes, EventsHandled, NextEvent, flagVars
  <2>2. opened = NoDevice /\ running = "none" /\ scan = "none" /\ events = <<>>
    BY <2>1 DEF Fresh
  <2> QED
    BY <1>3, <2>2 DEF MainContext, Enumerate, AllForNow, Announce, ListDirectory,
       AddListed, ReadEvents, NodeAppears, NodeVanishes, EventsHandled, NextEvent,
       Enumerating
<1>4. CASE UNCHANGED vars
  BY <1>4 DEF vars, kernelVars, tableVars, scanVars, fdVars, flagVars, seenVars, Fresh
<1> QED
  BY <1>1, <1>2, <1>3, <1>4 DEF Next

\* A device that has a node has an identity.
LEMMA IdStep ==
  ASSUME TypeOK, Phases, [Next]_vars
  PROVE  \A n \in Nodes : node'[n] # "gone" => id'[n] # 0
<1>1. CASE Kernel
  <2>1. PICK m \in Nodes : Create(m) \/ Chmod(m) \/ Delete(m)
    BY <1>1 DEF Kernel
  <2>2. CASE Create(m)
    <3>1. id' = [id EXCEPT ![m] = @ + 1] /\ \A n \in Nodes \ {m} : node'[n] = node[n]
      BY <2>2 DEF Create, TypeOK
    <3>2. id'[m] = id[m] + 1 /\ id[m] \in Nat /\ \A n \in Nodes \ {m} : id'[n] = id[n]
      BY <3>1 DEF TypeOK
    <3> QED
      BY <3>1, <3>2 DEF Phases
  <2>3. CASE Chmod(m) \/ Delete(m)
    <3>1. id' = id /\ \A n \in Nodes : node'[n] # "gone" => node[n] # "gone"
      BY <2>3 DEF Chmod, Delete, TypeOK
    <3> QED
      BY <3>1 DEF Phases
  <2> QED
    BY <2>1, <2>2, <2>3
<1>2. CASE Client \/ MainContext \/ UNCHANGED vars
  <2>1. node' = node /\ id' = id
    BY <1>2 DEF Client, Start, StartFails, Stop, MainContext, Enumerate, AllForNow,
       Announce, ListDirectory, AddListed, ReadEvents, NodeAppears, NodeVanishes,
       EventsHandled, NextEvent, vars, kernelVars
  <2> QED
    BY <2>1 DEF Phases
<1> QED
  BY <1>1, <1>2 DEF Next

LEMMA PhasesStep ==
  TypeOK /\ Fresh /\ Phases /\ [Next]_vars => Phases'
<1> SUFFICES ASSUME TypeOK, Fresh, Phases, [Next]_vars PROVE Phases'
  OBVIOUS
<1> USE DEF Phases, Active, kernelVars, tableVars, scanVars, fdVars, flagVars, seenVars
<1>0. \A n \in Nodes : node'[n] # "gone" => id'[n] # 0
  BY IdStep
<1>1. CASE Kernel
  <2>1. /\ state # "NOT_STARTED" /\ steady' \subseteq steady
        /\ UNCHANGED <<watch, source, tableVars, scanVars, flagVars, seenVars>>
    BY <1>1 DEF Kernel, Create, Chmod, Delete, Change
  <2> QED
    BY <1>0, <2>1
<1>2. CASE Start
  BY <1>0, <1>2 DEF Start, Fresh, Watched
<1>3. CASE StartFails
  BY <1>0, <1>3 DEF StartFails, Fresh
<1>4. CASE Stop
  BY <1>0, <1>4 DEF Stop
<1>5. CASE Enumerate
  BY <1>0, <1>5 DEF Enumerate
<1>6. CASE AllForNow
  BY <1>0, <1>6 DEF AllForNow, Enumerating
<1>7. CASE Announce
  BY <1>0, <1>7 DEF Announce
<1>8. ASSUME NEW k \in Kinds, ListDirectory(k) PROVE Phases'
  BY <1>0, <1>8 DEF ListDirectory, Enumerating
<1>9. ASSUME NEW n \in Nodes, AddListed(n) PROVE Phases'
  BY <1>0, <1>9 DEF AddListed, Enumerating
<1>10. CASE ReadEvents
  BY <1>0, <1>10 DEF ReadEvents
<1>11. CASE NodeAppears
  BY <1>0, <1>11 DEF NodeAppears, NextEvent
<1>12. CASE NodeVanishes
  <2>1. UNCHANGED <<opened, announced>>
    BY <1>12 DEF NodeVanishes, RemoveDevice
  <2> QED
    BY <1>0, <1>12, <2>1 DEF NodeVanishes, NextEvent
<1>13. CASE EventsHandled
  BY <1>0, <1>13 DEF EventsHandled, SourceKept
<1>14. CASE UNCHANGED vars
  BY <1>0, <1>14 DEF vars
<1> QED
  BY <1>1, <1>2, <1>3, <1>4, <1>5, <1>6, <1>7, <1>8, <1>9, <1>10, <1>11, <1>12,
     <1>13, <1>14 DEF Next, Client, MainContext

-----------------------------------------------------------------------------
(* What the client is told is true, and nothing is left out.               *)

\* The devices of a kind are device nodes, and what is not listed yet is
\* either of the kind that is listed now, or of another one.
LEMMA KindsOfNodes ==
  ASSUME NEW ks \in SUBSET Kinds, NEW k \in Kinds, NEW n \in OfKinds(ks)
  PROVE  n \in Nodes /\ (n \in NodesOf(k) \/ n \in OfKinds(ks \ {k}))
BY DEF OfKinds, NodesOf, Nodes, Kinds

\* Another node changes.
LEMMA OtherChange ==
  ASSUME TypeOK, NEW m \in Nodes, NEW n \in Nodes, m # n, NEW mask,
         NEW what \in {Appear(m), Vanish(m)}, Change(m, mask, what)
  PROVE  /\ Leaving(events, n) <=> Leaving(events', n)
         /\ Coming(events, n) => Coming(events', n)
<1>1. what \in Event /\ what # Vanish(n)
  BY EventOf, Events
<1>2. events \in Seq(Event) /\ (events' = events \/ events' = Append(events, what))
  BY DEF Change, TypeOK
<1>3. CASE events' = events
  BY <1>3
<1>4. CASE events' = Append(events, what)
  BY <1>1, <1>2, <1>4, QueueEvent
<1> QED
  BY <1>2, <1>3, <1>4

\* What a node, its identity and its events are after a change of device nodes.
LEMMA KernelStep ==
  ASSUME TypeOK, NEW n \in OfKinds(watch), n \in Nodes, Kernel
  PROVE  /\ Leaving(events, n) => Leaving(events', n)
         /\ \/ /\ node'[n] = node[n] /\ id'[n] = id[n]
               /\ Leaving(events', n) => Leaving(events, n)
               /\ Coming(events, n) => Coming(events', n)
            \/ node'[n] = "gone" /\ Leaving(events', n)
            \/ /\ node'[n] # "gone" /\ Coming(events', n)
               /\ node[n] = "gone" \/ id'[n] = id[n]
<1>1. PICK m \in Nodes : Create(m) \/ Chmod(m) \/ Delete(m)
  BY DEF Kernel
<1>2. CASE m # n
  <2>1. node'[n] = node[n] /\ id'[n] = id[n]
    BY <1>1, <1>2 DEF Create, Chmod, Delete, TypeOK
  <2>2. CASE Create(m) \/ Chmod(m)
    BY <1>2, <2>1, <2>2, OtherChange DEF Create, Chmod
  <2>3. CASE Delete(m)
    BY <1>2, <2>1, <2>3, OtherChange DEF Delete
  <2> QED
    BY <1>1, <2>2, <2>3
<1>3. CASE m = n
  <2>1. events \in Seq(Event) /\ Appear(n) \in Event /\ Vanish(n) \in Event
    BY EventOf DEF TypeOK
  <2>2. Appear(n) # Vanish(n)
    BY Events
  <2>3. CASE Create(n) \/ Chmod(n)
    <3>1. events' = Append(events, Appear(n))
      BY <2>3 DEF Create, Chmod, Change, Mask
    <3>2. node'[n] # "gone" /\ (node[n] = "gone" \/ id'[n] = id[n])
      BY <2>3 DEF Create, Chmod, TypeOK
    <3> QED
      BY <2>1, <2>2, <3>1, <3>2, QueueEvent
  <2>4. CASE Delete(n)
    <3>1. events' = Append(events, Vanish(n))
      BY <2>4 DEF Delete, Change, Mask
    <3>2. node'[n] = "gone"
      BY <2>4 DEF Delete, TypeOK
    <3> QED
      BY <2>1, <3>1, <3>2, QueueEvent
  <2> QED
    BY <1>1, <1>3, <2>3, <2>4
<1> QED
  BY <1>2, <1>3

\* One node stays accounted for, in a step of the main context.
LEMMA AddListedOne ==
  ASSUME TypeOK, Phases, NEW m \in Nodes, NEW n \in Nodes,
         Truthful(n), Complete(n), AddListed(m)
  PROVE  (Truthful(n) /\ Complete(n))'
<1>1. UNCHANGED <<node, id, devices, events, running, scan, dirs>>
      /\ listed' = listed \ {m} /\ OpenDevice(m) /\ opened = NoDevice
  BY DEF AddListed, Enumerating, kernelVars, fdVars
<1>2. Truthful(n)'
  <2>1. opened' = NoDevice \/ (opened' = [node |-> m, id |-> id[m]] /\ node[m] = "ready")
    BY <1>1 DEF OpenDevice
  <2>2. opened'.node = n /\ (node[n] = "gone" \/ opened'.id # id[n]) => FALSE
    BY <2>1, NoDeviceNode
  <2> QED
    BY <1>1, <2>2 DEF Truthful
<1>3. Complete(n)'
  <2>1. CASE m # n
    <3>1. ToBeScanned(n) => ToBeScanned(n)'
      BY <1>1, <2>1 DEF ToBeScanned
    <3>2. ~Opened(n)
      BY <1>1, NoDeviceNode DEF Opened
    <3> QED
      BY <1>1, <3>1, <3>2 DEF Complete
  <2>2. CASE m = n
    <3>1. CASE devices[n] = 0 /\ node[n] = "ready"
      <4>1. Opened(n)'
        BY <1>1, <2>2, <3>1 DEF OpenDevice, IsNew, Opened
      <4> QED
        BY <1>1, <4>1 DEF Complete
    <3>2. CASE devices[n] # 0 \/ node[n] # "ready"
      BY <1>1, <3>2 DEF Complete, Truthful
    <3> QED
      BY <3>1, <3>2
  <2> QED
    BY <2>1, <2>2
<1> QED
  BY <1>2, <1>3

LEMMA AnnounceOne ==
  ASSUME TypeOK, NEW n \in Nodes, state # "STOPPED",
         Truthful(n), Complete(n), Announce
  PROVE  (Truthful(n) /\ Complete(n))'
<1>1. UNCHANGED <<node, id, events, running, scan, dirs, listed>> /\ opened' = NoDevice
      /\ devices' = [devices EXCEPT ![opened.node] = opened.id]
      /\ opened.node \in Nodes
  BY DEF Announce, kernelVars, fdVars, scanVars, TypeOK
<1>2. opened'.node # n
  BY <1>1, NoDeviceNode
<1>3. CASE opened.node = n
  <2>1. devices'[n] = opened.id
    BY <1>1, <1>3 DEF TypeOK
  <2> QED
    BY <1>1, <1>2, <1>3, <2>1 DEF Truthful, Complete, ToBeScanned
<1>4. CASE opened.node # n
  <2>1. devices'[n] = devices[n]
    BY <1>1, <1>4 DEF TypeOK
  <2>2. ~Opened(n)
    BY <1>4 DEF Opened
  <2> QED
    BY <1>1, <1>2, <2>1, <2>2 DEF Truthful, Complete, ToBeScanned
<1> QED
  BY <1>3, <1>4

LEMMA NodeAppearsOne ==
  ASSUME TypeOK, NEW n \in Nodes, Truthful(n), Complete(n), NodeAppears
  PROVE  (Truthful(n) /\ Complete(n))'
<1> DEFINE m == Head(events).node
<1>1. NextEvent("appear") /\ OpenDevice(m) /\ devices' = devices
  BY DEF NodeAppears
<1>2. events \in Seq(Event) /\ events # <<>> /\ Head(events) \in Event
      /\ events' = Tail(events) /\ Head(events).what = "appear" /\ opened = NoDevice
      /\ UNCHANGED <<node, id, running, scan, dirs, listed>>
  BY <1>1, NextEventTypes DEF NextEvent, TypeOK, kernelVars, scanVars
<1>3. m \in Nodes /\ Head(events) = Appear(m)
  BY <1>2, EventFields
<1> HIDE DEF m
<1>4. Head(events) # Vanish(n) /\ (Head(events) = Appear(n) => m = n)
  BY <1>3, Events
<1>5. /\ Leaving(events, n) <=> Leaving(events', n)
      /\ Coming(events, n) => Coming(events', n) \/ (m = n /\ ~Leaving(events', n))
  BY <1>2, <1>4, TakeEvent
<1>6. opened' = NoDevice \/ (opened' = [node |-> m, id |-> id[m]] /\ node[m] = "ready")
  BY <1>1 DEF OpenDevice
<1>7. opened'.node = n /\ (node[n] = "gone" \/ opened'.id # id[n]) => FALSE
  BY <1>6, NoDeviceNode
<1>8. Truthful(n)'
  BY <1>1, <1>2, <1>5, <1>7 DEF Truthful
<1>9. ToBeScanned(n) <=> ToBeScanned(n)'
  BY <1>2 DEF ToBeScanned
<1>10. ~Opened(n)
  BY <1>2, NoDeviceNode DEF Opened
<1>11. ASSUME node[n] = "ready", devices[n] # id[n], ~ToBeScanned(n)
       PROVE  Coming(events', n) \/ Opened(n)'
  <2>1. Coming(events, n)
    BY <1>10, <1>11 DEF Complete
  <2>2. CASE devices[n] # 0
    <3>1. Leaving(events', n)
      BY <1>5, <1>11, <2>2 DEF Truthful
    <3> QED
      BY <1>5, <2>1, <3>1
  <2>3. CASE devices[n] = 0 /\ m = n
    BY <1>1, <1>2, <1>11, <2>3 DEF OpenDevice, IsNew, Opened
  <2>4. CASE m # n
    BY <1>5, <2>1, <2>4
  <2> QED
    BY <2>2, <2>3, <2>4
<1>12. Complete(n)'
  BY <1>1, <1>2, <1>5, <1>9, <1>11 DEF Complete
<1> QED
  BY <1>8, <1>12

LEMMA NodeVanishesOne ==
  ASSUME TypeOK, Phases, NEW n \in Nodes, Truthful(n), Complete(n), NodeVanishes
  PROVE  (Truthful(n) /\ Complete(n))'
<1> DEFINE m == Head(events).node
<1>1. NextEvent("vanish") /\ RemoveDevice(m)
  BY DEF NodeVanishes
<1>2. events \in Seq(Event) /\ events # <<>> /\ Head(events) \in Event
      /\ events' = Tail(events) /\ Head(events).what = "vanish" /\ opened = NoDevice
      /\ UNCHANGED <<node, id, running, scan, dirs, listed>>
  BY <1>1, NextEventTypes DEF NextEvent, TypeOK, kernelVars, scanVars
<1>3. m \in Nodes /\ Head(events) = Vanish(m)
  BY <1>2, EventFields
<1> HIDE DEF m
<1>4. Head(events) # Appear(n) /\ (Head(events) = Vanish(n) => m = n)
  BY <1>3, Events
<1>5. /\ Leaving(events', n) => Leaving(events, n)
      /\ Leaving(events, n) => Leaving(events', n) \/ m = n
      /\ Coming(events, n) => Coming(events', n)
  BY <1>2, <1>4, TakeEvent
<1>6. opened' = NoDevice /\ opened'.node # n
  BY <1>1, <1>2, NoDeviceNode DEF RemoveDevice
<1>7. devices'[m] = 0 /\ (m # n => devices'[n] = devices[n])
  BY <1>1, <1>3 DEF RemoveDevice, Without, TypeOK
<1>8. (ToBeScanned(n) <=> ToBeScanned(n)') /\ ~Opened(n)
  BY <1>2, NoDeviceNode DEF ToBeScanned, Opened
<1>9. CASE m # n
  BY <1>2, <1>5, <1>6, <1>7, <1>8, <1>9 DEF Truthful, Complete
<1>10. CASE m = n
  <2>1. Leaving(events, n)
    <3>1. 1 \in 1..Len(events) /\ events[1] = Vanish(n)
      BY <1>2, <1>3, <1>10
    <3> QED
      BY <3>1 DEF Leaving
  <2>2. node[n] = "ready" => Coming(events', n)
    BY <1>5, <2>1 DEF Complete
  <2> QED
    BY <1>2, <1>6, <1>7, <1>10, <2>2 DEF Truthful, Complete
<1> QED
  BY <1>9, <1>10

\* enumerate_cb lists a directory or begins or ends: no node is left out.
LEMMA ScanOne ==
  ASSUME TypeOK, NEW n \in OfKinds(want), n \in Nodes,
         Truthful(n), Complete(n),
         \/ Enumerate \/ AllForNow
         \/ \E k \in Kinds : ListDirectory(k)
  PROVE  (Truthful(n) /\ Complete(n))'
<1>1. UNCHANGED <<node, id, devices, opened, events>>
  BY DEF Enumerate, AllForNow, ListDirectory, kernelVars, tableVars, fdVars
<1>2. node[n] = "ready" /\ ToBeScanned(n) => ToBeScanned(n)'
  <2>1. CASE Enumerate
    BY <2>1 DEF Enumerate, ToBeScanned, OfKinds
  <2>2. CASE AllForNow
    BY <2>2 DEF AllForNow, AllListed, Enumerating, ToBeScanned, OfKinds
  <2>3. ASSUME NEW k \in Kinds, ListDirectory(k), node[n] = "ready", ToBeScanned(n)
        PROVE  ToBeScanned(n)'
    <3>1. /\ running = "enumerate" /\ running' = running /\ scan' = scan
          /\ listed = {} /\ dirs' = dirs \ {k}
          /\ listed' = {x \in NodesOf(k) : node[x] # "gone"}
      BY <2>3 DEF ListDirectory, Enumerating
    <3>2. CASE scan = "queued"
      BY <3>1, <3>2 DEF ToBeScanned
    <3>3. CASE n \in OfKinds(dirs)
      <4>1. n \in NodesOf(k) \/ n \in OfKinds(dirs \ {k})
        BY <3>3, KindsOfNodes DEF TypeOK
      <4> QED
        BY <2>3, <3>1, <4>1 DEF ToBeScanned
    <3> QED
      BY <2>3, <3>1, <3>2, <3>3 DEF ToBeScanned
  <2> QED
    BY <2>1, <2>2, <2>3
<1>3. Opened(n) <=> Opened(n)'
  BY <1>1 DEF Opened
<1> QED
  BY <1>1, <1>2, <1>3 DEF Truthful, Complete

LEMMA AccurateStep ==
  TypeOK /\ Fresh /\ Phases /\ Accurate /\ [Next]_vars => Accurate'
<1> SUFFICES ASSUME TypeOK, Fresh, Phases, Accurate, [Next]_vars, Active',
                    NEW n \in OfKinds(want')
             PROVE  (Truthful(n) /\ Complete(n))'
  BY DEF Accurate
<1>1. CASE Start
  <2>0. n \in OfKinds(want) /\ n \in Nodes
    BY <1>1 DEF Start, OfKinds, NodesOf, Nodes
  <2>1. /\ devices' = [x \in Nodes |-> 0] /\ opened' = NoDevice /\ events' = <<>>
        /\ scan' = "queued" /\ n \in Nodes
    BY <1>1, <2>0 DEF Start, Fresh, tableVars
  <2>2. ~Leaving(events', n) /\ devices'[n] = 0 /\ opened'.node # n /\ ToBeScanned(n)'
    BY <2>1, NoDeviceNode DEF Leaving, ToBeScanned
  <2> QED
    BY <2>2 DEF Truthful, Complete
<1>2. CASE StartFails \/ Stop
  <2>1. ~Active'
    BY <1>2 DEF StartFails, Stop, Fresh, Active, scanVars
  <2> QED
    BY <2>1
<1>3. CASE ~Client
  <2>1. Active /\ want' = want
    <3>1. CASE Kernel \/ UNCHANGED vars
      BY <3>1 DEF Active, Kernel, Create, Chmod, Delete, Change, vars, scanVars, flagVars
    <3>2. CASE Enumerate
      BY <3>2 DEF Active, Enumerate, flagVars
    <3>3. CASE MainContext /\ ~Enumerate
      BY <3>3 DEF Active, MainContext, AllForNow, Announce, ListDirectory, AddListed,
         ReadEvents, NodeAppears, NodeVanishes, EventsHandled, NextEvent, flagVars, scanVars
    <3> QED
      BY <1>3, <3>1, <3>2, <3>3 DEF Next
  <2>2. n \in OfKinds(want) /\ n \in Nodes /\ Truthful(n) /\ Complete(n)
    BY <2>1, KindsOfNodes DEF Accurate, TypeOK, Kinds
  <2>3. CASE Kernel
    <3>1. UNCHANGED <<devices, opened, running, scan, dirs, listed>>
      BY <2>3 DEF Kernel, Create, Chmod, Delete, Change, tableVars, scanVars
    <3>2. watch = want
      BY <2>1 DEF Phases
    <3>3. /\ Leaving(events, n) => Leaving(events', n)
          /\ \/ /\ node'[n] = node[n] /\ id'[n] = id[n]
                /\ Leaving(events', n) => Leaving(events, n)
                /\ Coming(events, n) => Coming(events', n)
             \/ node'[n] = "gone" /\ Leaving(events', n)
             \/ /\ node'[n] # "gone" /\ Coming(events', n)
                /\ node[n] = "gone" \/ id'[n] = id[n]
      BY <2>2, <2>3, <3>2, KernelStep
    <3>4. ToBeScanned(n) <=> ToBeScanned(n)'
      BY <3>1 DEF ToBeScanned
    <3>5. id'[n] = id[n] => (Opened(n) <=> Opened(n)')
      BY <3>1 DEF Opened
    <3>6. Truthful(n)'
      BY <2>2, <3>1, <3>3 DEF Truthful
    <3>7. Complete(n)'
      BY <2>2, <3>1, <3>3, <3>4, <3>5 DEF Complete
    <3> QED
      BY <3>6, <3>7
  <2>4. CASE Enumerate \/ AllForNow \/ \E k \in Kinds : ListDirectory(k)
    BY <2>2, <2>4, ScanOne
  <2>5. CASE Announce
    BY <2>1, <2>2, <2>5, AnnounceOne DEF Active
  <2>6. CASE \E m \in Nodes : AddListed(m)
    BY <2>2, <2>6, AddListedOne
  <2>7. CASE NodeAppears
    BY <2>2, <2>7, NodeAppearsOne
  <2>8. CASE NodeVanishes
    BY <2>2, <2>8, NodeVanishesOne
  <2>9. CASE ReadEvents \/ EventsHandled \/ UNCHANGED vars
    <3>1. UNCHANGED <<node, id, devices, opened, events, scan, dirs, listed>>
      BY <2>9 DEF ReadEvents, EventsHandled, vars, kernelVars, tableVars, scanVars, fdVars
    <3>2. running' = "enumerate" <=> running = "enumerate"
      BY <2>9 DEF ReadEvents, EventsHandled, vars, scanVars
    <3> QED
      BY <2>2, <3>1, <3>2 DEF Truthful, Complete, ToBeScanned, Opened
  <2> QED
    BY <1>3, <2>3, <2>4, <2>5, <2>6, <2>7, <2>8, <2>9 DEF Next, MainContext
<1> QED
  BY <1>1, <1>2, <1>3 DEF Client

-----------------------------------------------------------------------------
(* The initial batch.                                                      *)

\* A node that does not change meets no event that removes it.
LEMMA SteadyStep ==
  TypeOK /\ Fresh /\ Phases /\ Steady /\ [Next]_vars => Steady'
<1> SUFFICES ASSUME TypeOK, Fresh, Phases, Steady, [Next]_vars,
                    state' = "STARTED", NEW n \in steady' \cap OfKinds(want')
             PROVE  SteadyOK(n)'
  BY DEF Steady
<1>1. CASE Start
  <2>1. /\ devices' = [x \in Nodes |-> 0] /\ opened' = NoDevice /\ events' = <<>>
        /\ scan' = "queued" /\ n \in Nodes /\ node'[n] = "ready"
    BY <1>1 DEF Start, Fresh, tableVars
  <2>2. ~Leaving(events', n) /\ devices'[n] = 0 /\ opened'.node # n /\ ToBeScanned(n)'
    BY <2>1, NoDeviceNode DEF Leaving, ToBeScanned
  <2> QED
    BY <2>1, <2>2 DEF SteadyOK
<1>2. CASE StartFails
  <2>1. steady' = {}
    BY <1>2 DEF StartFails, Fresh, Phases, kernelVars
  <2> QED
    BY <2>1
<1>3. CASE Stop
  BY <1>3 DEF Stop
<1>4. CASE ~Client
  <2>1. state = "STARTED" /\ want' = want /\ steady' \subseteq steady
    <3>1. CASE Kernel \/ UNCHANGED vars
      BY <3>1 DEF Kernel, Create, Chmod, Delete, Change, vars, kernelVars, flagVars
    <3>2. CASE MainContext
      BY <3>2 DEF MainContext, Enumerate, AllForNow, Announce, ListDirectory, AddListed,
         ReadEvents, NodeAppears, NodeVanishes, EventsHandled, NextEvent,
         kernelVars, flagVars
    <3> QED
      BY <1>4, <3>1, <3>2 DEF Next
  <2>2. n \in Nodes /\ n \in OfKinds(want) /\ SteadyOK(n)
    BY <2>1 DEF Steady, TypeOK
  <2>3. CASE Kernel
    <3>1. PICK m \in Nodes : Create(m) \/ Chmod(m) \/ Delete(m)
      BY <2>3 DEF Kernel
    <3>2. m # n
      BY <3>1 DEF Create, Chmod, Delete, Change
    <3>3. node'[n] = node[n] /\ id'[n] = id[n]
      <4>1. \/ id' = id
            \/ id' = [id EXCEPT ![m] = @ + 1]
        BY <3>1 DEF Create, Chmod, Delete
      <4>2. \E access : node' = [node EXCEPT ![m] = access]
        BY <3>1 DEF Create, Chmod, Delete
      <4>3. node \in [Nodes -> {"gone", "closed", "ready"}] /\ id \in [Nodes -> Nat]
        BY DEF TypeOK
      <4> QED
        BY <2>2, <3>2, <4>1, <4>2, <4>3
    <3>4. Leaving(events, n) <=> Leaving(events', n)
      <4>1. CASE Create(m) \/ Chmod(m)
        BY <2>2, <3>2, <4>1, OtherChange DEF Create, Chmod
      <4>2. CASE Delete(m)
        BY <2>2, <3>2, <4>2, OtherChange DEF Delete
      <4> QED
        BY <3>1, <4>1, <4>2
    <3>5. UNCHANGED <<devices, opened, running, scan, dirs, listed>>
      BY <2>3 DEF Kernel, Create, Chmod, Delete, Change, tableVars, scanVars
    <3> QED
      BY <2>2, <3>3, <3>4, <3>5 DEF SteadyOK, ToBeScanned, Opened
  <2>4. CASE Enumerate \/ AllForNow \/ \E k \in Kinds : ListDirectory(k)
    <3>1. UNCHANGED <<node, id, devices, opened, events>>
      BY <2>4 DEF Enumerate, AllForNow, ListDirectory, kernelVars, tableVars, fdVars
    <3>2. node[n] = "ready"
      BY <2>2 DEF SteadyOK
    <3>3. CASE Enumerate
      BY <2>2, <3>1, <3>3 DEF Enumerate, SteadyOK, ToBeScanned, OfKinds
    <3>4. CASE AllForNow
      <4>1. ~ToBeScanned(n) /\ ~Opened(n)
        BY <2>2, <3>4, NoDeviceNode
        DEF AllForNow, AllListed, Enumerating, ToBeScanned, OfKinds, Opened, Phases
      <4> QED
        BY <2>2, <3>1, <4>1 DEF SteadyOK
    <3>5. ASSUME NEW k \in Kinds, ListDirectory(k) PROVE SteadyOK(n)'
      <4>1. /\ running = "enumerate" /\ running' = running /\ scan' = scan
            /\ opened = NoDevice /\ listed = {} /\ dirs' = dirs \ {k}
            /\ listed' = {x \in NodesOf(k) : node[x] # "gone"}
        BY <3>5 DEF ListDirectory, Enumerating
      <4>2. ~Opened(n)
        BY <4>1, NoDeviceNode, <2>2 DEF Opened
      <4>3. ToBeScanned(n) => ToBeScanned(n)'
        <5>1. n \in OfKinds(dirs) => n \in NodesOf(k) \/ n \in OfKinds(dirs \ {k})
          BY KindsOfNodes DEF TypeOK
        <5> QED
          BY <3>2, <4>1, <5>1 DEF ToBeScanned
      <4> QED
        BY <2>2, <3>1, <4>2, <4>3 DEF SteadyOK
    <3> QED
      BY <2>4, <3>3, <3>4, <3>5
  <2>5. CASE Announce
    <3>1. UNCHANGED <<node, id, events, running, scan, dirs, listed>> /\ opened' = NoDevice
          /\ devices' = [devices EXCEPT ![opened.node] = opened.id]
          /\ opened.node \in Nodes
      BY <2>1, <2>5 DEF Announce, kernelVars, fdVars, scanVars, TypeOK
    <3>2. opened'.node # n
      BY <2>2, <3>1, NoDeviceNode
    <3>3. CASE opened.node = n
      <4>1. devices'[n] = id[n]
        BY <2>2, <3>1, <3>3 DEF TypeOK, SteadyOK
      <4> QED
        BY <2>2, <3>1, <3>2, <4>1 DEF SteadyOK
    <3>4. CASE opened.node # n
      <4>1. devices'[n] = devices[n] /\ ~Opened(n)
        BY <2>2, <3>1, <3>4 DEF TypeOK, Opened
      <4> QED
        BY <2>2, <3>1, <3>2, <4>1 DEF SteadyOK, ToBeScanned
    <3> QED
      BY <3>3, <3>4
  <2>6. ASSUME NEW m \in Nodes, AddListed(m) PROVE SteadyOK(n)'
    <3>1. UNCHANGED <<node, id, devices, events, running, scan, dirs>>
          /\ listed' = listed \ {m} /\ OpenDevice(m) /\ opened = NoDevice
          /\ running = "enumerate"
      BY <2>6 DEF AddListed, Enumerating, kernelVars, fdVars
    <3>2. opened' = NoDevice \/ opened' = [node |-> m, id |-> id[m]]
      BY <3>1 DEF OpenDevice
    <3>3. opened'.node = n => opened'.id = id[n]
      BY <2>2, <3>2, NoDeviceNode
    <3>4. ~Opened(n)
      BY <2>2, <3>1, NoDeviceNode DEF Opened
    <3>5. CASE m # n \/ devices[n] = id[n]
      <4>1. m # n => (ToBeScanned(n) => ToBeScanned(n)')
        BY <3>1 DEF ToBeScanned
      <4> QED
        BY <2>2, <3>1, <3>3, <3>4, <3>5, <4>1 DEF SteadyOK
    <3>6. CASE m = n /\ devices[n] # id[n]
      <4>1. Opened(n)'
        BY <2>2, <3>1, <3>6 DEF SteadyOK, OpenDevice, IsNew, Opened
      <4> QED
        BY <2>2, <3>1, <3>3, <4>1 DEF SteadyOK
    <3> QED
      BY <3>5, <3>6
  <2>7. CASE NodeAppears
    <3>1. NextEvent("appear") /\ OpenDevice(Head(events).node) /\ devices' = devices
      BY <2>7 DEF NodeAppears
    <3>2. events \in Seq(Event) /\ events # <<>> /\ events' = Tail(events)
          /\ running = "monitor" /\ opened = NoDevice
          /\ UNCHANGED <<node, id, running, scan, dirs, listed>>
      BY <3>1, NextEventTypes DEF NextEvent, TypeOK, kernelVars, scanVars
    <3>3. ~Leaving(events', n)
      BY <2>2, <3>2, TakeEvent DEF SteadyOK
    <3>4. \/ opened' = NoDevice
          \/ opened' = [node |-> Head(events).node, id |-> id[Head(events).node]]
      BY <3>1 DEF OpenDevice
    <3>5. opened'.node = n => opened'.id = id[n]
      BY <2>2, <3>4, NoDeviceNode
    <3> QED
      BY <2>2, <3>1, <3>2, <3>3, <3>5 DEF SteadyOK, ToBeScanned
  <2>8. CASE NodeVanishes
    <3> DEFINE m == Head(events).node
    <3>1. NextEvent("vanish") /\ RemoveDevice(m)
      BY <2>8 DEF NodeVanishes
    <3>2. events \in Seq(Event) /\ events # <<>> /\ Head(events) \in Event
          /\ events' = Tail(events) /\ Head(events).what = "vanish"
          /\ opened = NoDevice /\ running = "monitor"
          /\ UNCHANGED <<node, id, running, scan, dirs, listed>>
      BY <3>1, NextEventTypes DEF NextEvent, TypeOK, kernelVars, scanVars
    <3>3. m \in Nodes /\ Head(events) = Vanish(m)
      BY <3>2, EventFields
    <3> HIDE DEF m
    <3>4. m # n
      <4>1. m = n => 1 \in 1..Len(events) /\ events[1] = Vanish(n)
        BY <3>2, <3>3
      <4> QED
        BY <2>2, <4>1 DEF SteadyOK, Leaving
    <3>5. ~Leaving(events', n)
      BY <2>2, <3>2, TakeEvent DEF SteadyOK
    <3>6. devices'[n] = devices[n] /\ opened' = opened
      <4>1. devices' = devices \/ devices' = [devices EXCEPT ![m] = 0]
        BY <3>1 DEF RemoveDevice, Without
      <4>2. opened' = opened /\ devices \in [Nodes -> Nat]
        BY <3>1 DEF RemoveDevice, TypeOK
      <4> QED
        BY <2>2, <3>4, <4>1, <4>2
    <3> QED
      BY <2>2, <3>2, <3>5, <3>6 DEF SteadyOK, ToBeScanned
  <2>9. CASE ReadEvents \/ EventsHandled \/ UNCHANGED vars
    <3>1. UNCHANGED <<node, id, devices, opened, events, scan, dirs, listed>>
      BY <2>9 DEF ReadEvents, EventsHandled, vars, kernelVars, tableVars, scanVars, fdVars
    <3>2. running' = "enumerate" <=> running = "enumerate"
      BY <2>9 DEF ReadEvents, EventsHandled, vars, scanVars
    <3> QED
      BY <2>2, <3>1, <3>2 DEF SteadyOK, ToBeScanned, Opened
  <2> QED
    BY <1>4, <2>3, <2>4, <2>5, <2>6, <2>7, <2>8, <2>9 DEF Next, MainContext
<1> QED
  BY <1>1, <1>2, <1>3, <1>4 DEF Client

-----------------------------------------------------------------------------
(* The theorems.                                                           *)

LEMMA InitHolds ==
  Init => IInv
<1> SUFFICES ASSUME Init PROVE IInv
  OBVIOUS
<1>1. TypeOK
  <2>1. id \in [Nodes -> Nat] /\ devices \in [Nodes -> Nat] /\ seen = devices
    BY DEF Init
  <2>2. changes \in 0..MaxChanges /\ events \in Seq(Event) /\ nread \in 0..Len(events)
    BY SizesAssumption DEF Init
  <2>3. node \in [Nodes -> {"gone", "closed", "ready"}] /\ steady \subseteq Nodes
    BY DEF Init
  <2>4. want \subseteq Kinds /\ once \in BOOLEAN /\ watch \subseteq Watched
    BY DEF Init
  <2> QED
    BY <2>1, <2>2, <2>3, <2>4 DEF Init, TypeOK
<1>2. Fresh /\ Phases /\ Accurate /\ Steady
  BY DEF Init, Fresh, Phases, Accurate, Steady, Active
<1> QED
  BY <1>1, <1>2 DEF IInv

LEMMA InvHolds ==
  Spec => []IInv
<1>1. IInv /\ [Next]_vars => IInv'
  BY TypeStep, FreshStep, PhasesStep, AccurateStep, SteadyStep DEF IInv
<1> QED
  BY InitHolds, <1>1, PTL DEF Spec

\* The variables of a monitor have their types; and what its client was told
\* is what its table says (add_device(), remove_device()).
THEOREM TypeCorrect == Spec => []TypeOK
<1>1. IInv => TypeOK
  BY DEF IInv
<1> QED
  BY InvHolds, <1>1, PTL

\* Whenever nothing is left to do, the client knows exactly the usable devices
\* and none that has gone, whatever happened during the scan (enumerate_cb,
\* srt_direct_input_device_monitor_cb).
THEOREM StaysInSync == Spec => []InSync
<1>1. IInv => InSync
  <2> SUFFICES ASSUME IInv, state = "STARTED", ~once, Idle, NEW n \in OfKinds(want)
               PROVE  KnownRight(n)
    BY DEF InSync
  <2>1. Truthful(n) /\ Complete(n)
    BY DEF IInv, Accurate, Active, Idle
  <2>2. ~Leaving(events, n) /\ ~Coming(events, n) /\ ~ToBeScanned(n)
    BY DEF Idle, Leaving, Coming, ToBeScanned
  <2>3. n \in Nodes
    BY DEF OfKinds, NodesOf, Nodes
  <2>4. ~Opened(n)
    BY <2>3, NoDeviceNode DEF IInv, Phases, Idle, Opened
  <2>5. seen = devices
    BY DEF IInv, TypeOK
  <2> QED
    BY <2>1, <2>2, <2>4, <2>5 DEF Truthful, Complete, KnownRight
<1> QED
  BY InvHolds, <1>1, PTL

\* "all-for-now" comes after every device that was usable when start() was
\* called and has not changed (enumerate_cb), with inotify or without.
THEOREM BatchIsComplete == Spec => []InitialBatch
<1>1. IInv => InitialBatch
  <2> SUFFICES ASSUME IInv, announced, state = "STARTED",
                      NEW n \in steady \cap OfKinds(want)
               PROVE  seen[n] = id[n]
    BY DEF InitialBatch
  <2>1. SteadyOK(n)
    BY DEF IInv, Steady
  <2>2. ~ToBeScanned(n) /\ running # "enumerate"
    BY DEF IInv, Phases, ToBeScanned
  <2> QED
    BY <2>1, <2>2 DEF SteadyOK, IInv, TypeOK
<1> QED
  BY InvHolds, <1>1, PTL

=============================================================================
