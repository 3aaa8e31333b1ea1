------------------------ MODULE LauncherServiceProofs ------------------------
(***************************************************************************)
(* What LauncherService promises, for any number of clients, bus names,    *)
(* process IDs and command lines: the service outlives its children,       *)
(* signals only them, stays stopped, and every client sees its command as  *)
(* a RemoteCommand.                                                        *)
(*                                                                         *)
(* The argument is about what may be true of a message while it is on its  *)
(* way (Allowed), and about the history of a command and the process that  *)
(* runs it (RanOK).                                                        *)
(***************************************************************************)
EXTENDS LauncherService, SequenceTheorems, TLAPS

\* What a message says is true of the client that it is for, and remains so.
MsgOK(c, m) ==
    /\ m.kind = "reply"  => ran[c] # "no"
    /\ m.kind = "exited" => ran[c] = "exited"
    /\ m.kind = "error"  => ran[c] # "running" /\ call[c] = "none"
Allowed(c) == { m \in Messages : MsgOK(c, m) }

\* The service and its children.
ChildrenOK ==
    /\ alive \subseteq DOMAIN children
    /\ pc = "start" => DOMAIN children = {} /\ main_pid = NoPid
    /\ started => ready

\* Each client has at most one process, whose history is that of its command.
RanOK ==
    /\ \A p \in Pids : owner[p] \in Clients =>
         ran[owner[p]] = IF p \in alive THEN "running" ELSE "exited"
    /\ \A p, q \in Pids : owner[p] \in Clients /\ owner[q] = owner[p] => p = q
    /\ \A c \in Clients : ran[c] = "running" => \E p \in alive : owner[p] = c

\* A client and what has happened to its command.
ClientOK(c) ==
    /\ client[c] = "done" <=> status[c] # "none"
    /\ call[c] # "none" => /\ ran[c] = "no" /\ client[c] # "idle"
                           /\ status[c] \in {"none", "died"}
    /\ client[c] = "idle" => ran[c] = "no" /\ inbox[c] = <<>> /\ via[c] = Unique
    /\ client[c] = "waiting" => ran[c] # "no"
    /\ inbox[c] \in Seq(Allowed(c))

IInv ==
    /\ TypeOK /\ ChildrenOK /\ OutlivesChildren /\ MainPidIsTrue /\ SignalsOwnChildren
    /\ RanOK /\ \A c \in Clients : ClientOK(c)

\* What the service may become in one callback, as far as others are concerned.
ToldOK(s) == \A p \in Pids : /\ owner[p] = "nobody" => s.told[p] = {}
                             /\ s.told[p] \cap Clients \subseteq {owner[p]}
BoxesOK(s) == \A c \in Clients : /\ s.inbox[c] \in Seq(Allowed(c))
                                 /\ client[c] = "idle" => s.inbox[c] = <<>>
Services ==
    [export_state : {"starting", "listening", "exported", "gone"}, unref_timer : BOOLEAN,
     listening : BOOLEAN, names : [Names -> {"waiting", "owned", "lost", "released"}],
     told : [Pids -> SUBSET (Clients \cup {"service"})], inbox : [Clients -> Seq(Messages)]]
ServiceOK(s) == s \in Services /\ ToldOK(s) /\ BoxesOK(s)

-----------------------------------------------------------------------------
(* Sequences of messages.                                                  *)

\* A message may be added to those that are on their way.
LEMMA AppendOne == ASSUME NEW S, NEW b \in Seq(S), NEW m \in S PROVE Append(b, m) \in Seq(S)
BY AppendProperties

\* What may be said of a message in one state may be said in another.
LEMMA AllowedSeq == ASSUME NEW S, NEW T, S \subseteq T, NEW b \in Seq(S) PROVE b \in Seq(T)
BY SeqMonotonic

\* NameOwnerChanged says nothing about a command.
LEMMA GoneAllowed == ASSUME NEW c PROVE Gone \in Messages /\ Gone \in Allowed(c)
BY DEF Gone, Allowed, MsgOK, Messages

-----------------------------------------------------------------------------
(* Stopping.                                                               *)

\* The invariant, in terms of the service's part of the state.
LEMMA ServiceIsOK == ASSUME IInv PROVE ServiceOK(Service)
<1>1. Service \in Services
  BY DEF IInv, TypeOK, Service, Services
<1>2. ToldOK(Service)
  BY DEF IInv, SignalsOwnChildren, ToldOK, Service
<1>3. BoxesOK(Service)
  BY DEF IInv, ClientOK, BoxesOK, Service
<1> QED BY <1>1, <1>2, <1>3 DEF ServiceOK

\* A signal from the service to its children is no signal to others.
LEMMA SignalledIsOK ==
    ASSUME IInv, NEW s, ServiceOK(s), NEW pids, pids \subseteq DOMAIN children
    PROVE  /\ ServiceOK(Signalled(s, pids, "service"))
           /\ Signalled(s, pids, "service").listening = s.listening
           /\ Signalled(s, pids, "service").export_state = s.export_state
<1> DEFINE t == Signalled(s, pids, "service")
<1>1. s \in Services /\ ToldOK(s) /\ BoxesOK(s)
  BY DEF ServiceOK
<1>2. /\ t \in Services /\ t.listening = s.listening /\ t.export_state = s.export_state
      /\ t.inbox = s.inbox
      /\ \A p \in Pids : t.told[p] = s.told[p] \cup (IF p \in pids THEN {"service"} ELSE {})
  BY <1>1 DEF Signalled, Services
<1>3. \A p \in DOMAIN children : p \in Pids /\ owner[p] # "nobody"
  BY NamesAssumption DEF IInv, TypeOK
<1>4. ToldOK(t)
  BY <1>1, <1>2, <1>3, NamesAssumption DEF ToldOK
<1>5. BoxesOK(t)
  BY <1>1, <1>2 DEF BoxesOK
<1> QED BY <1>2, <1>4, <1>5 DEF ServiceOK

\* Releasing names tells clients of the service that they have lost it.
LEMMA StoppedIsOK ==
    ASSUME IInv, NEW s, ServiceOK(s)
    PROVE  ServiceOK(Stopped(s)) /\ Stopped(s).listening = FALSE
<1> DEFINE lost == { n \in Names : s.names[n] = "owned" }
           box  == SentGone(s.inbox, lost)
           t    == StopListening(s)
<1>1. s \in Services /\ ToldOK(s) /\ BoxesOK(s)
  BY DEF ServiceOK
<1>2. s.inbox \in [Clients -> Seq(Messages)]
  BY <1>1 DEF Services
<1>3. ASSUME NEW c \in Clients
      PROVE  /\ box[c] \in Seq(Messages) /\ box[c] \in Seq(Allowed(c))
             /\ client[c] = "idle" => box[c] = <<>>
  <2>1. box[c] \in {s.inbox[c], Append(s.inbox[c], Gone)}
        /\ (client[c] = "idle" /\ via[c] \notin lost => box[c] = s.inbox[c])
    BY DEF SentGone
  <2>2. s.inbox[c] \in Seq(Messages) /\ s.inbox[c] \in Seq(Allowed(c))
        /\ (client[c] = "idle" => s.inbox[c] = <<>>)
    BY <1>1, <1>2 DEF BoxesOK
  <2>3. Append(s.inbox[c], Gone) \in Seq(Messages) /\ Append(s.inbox[c], Gone) \in Seq(Allowed(c))
    BY <2>2, GoneAllowed, AppendOne
  <2>4. client[c] = "idle" => via[c] \notin lost
    BY NamesAssumption DEF IInv, ClientOK
  <2> QED BY <2>1, <2>2, <2>3, <2>4
<1>4. box \in [Clients -> Seq(Messages)]
  <2>1. \A c \in Clients : box[c] \in Seq(Messages)
    BY <1>3
  <2> QED BY <2>1 DEF SentGone
<1>5. /\ t \in Services /\ t.listening = FALSE /\ t.inbox = box /\ t.told = s.told
  BY <1>1, <1>4 DEF StopListening, Services
<1>6. /\ Ends(t) \in Services /\ Ends(t).listening = FALSE /\ Ends(t).inbox = box
      /\ Ends(t).told = s.told
  BY <1>5 DEF Ends, Services
<1>7. ToldOK(Ends(t)) /\ BoxesOK(Ends(t))
  BY <1>1, <1>3, <1>6 DEF ToldOK, BoxesOK
<1> QED BY <1>6, <1>7 DEF ServiceOK, Stopped

-----------------------------------------------------------------------------
(* Starting.                                                               *)

\* What CheckReady() makes of a service like s.
NothingStarts == UNCHANGED <<children, owner, alive, main_pid, main_alive>>
MainStarts    == \E p \in Pids : /\ NewChild(p, "main", opts.stop_on_exit)
                                 /\ main_pid' = p /\ main_alive' = TRUE
Outcome(s, t) ==
    /\ ServiceOK(t) /\ Becomes(t)
    /\ NothingStarts \/ MainStarts
    /\ ~NothingStarts => ~ready /\ s.export_state # "gone" /\ t.listening = s.listening
    /\ ready' \in BOOLEAN /\ started' \in BOOLEAN /\ exit_status' \in {"unavailable", "ok"}
    /\ started' => ready'

\* The service starts its command at most once, and only if it is not about to end.
LEMMA CheckReadyStep ==
    ASSUME IInv, NEW s, ServiceOK(s), CheckReady(s)
    PROVE  \E t : Outcome(s, t)
<1>1. /\ started \in BOOLEAN /\ ready \in BOOLEAN /\ exit_status \in {"unavailable", "ok"}
      /\ started => ready
  BY DEF IInv, TypeOK, ChildrenOK
<1>2. CASE Becomes(s) /\ (ready' = ready \/ ready' = TRUE) /\ UNCHANGED <<started, exit_status>>
           /\ UNCHANGED <<children, owner, alive, mainVars>>
  <2>1. ready' \in BOOLEAN /\ started' \in BOOLEAN /\ (started' => ready')
    <3>1. CASE ready' = ready
      BY <1>1, <1>2, <3>1, Zenon
    <3>2. CASE ready' = TRUE
      BY <1>1, <1>2, <3>2, Zenon
    <3> QED BY <1>2, <3>1, <3>2
  <2>2. NothingStarts
    BY <1>2 DEF NothingStarts, mainVars
  <2>3. Outcome(s, s)
    BY <1>1, <1>2, <2>1, <2>2 DEF Outcome
  <2> QED BY <2>3
<1>3. CASE ~ready /\ ready' = TRUE /\ s.export_state # "gone" /\ Starts(s)
  <2>0. started' = TRUE
    BY <1>3 DEF Starts
  <2>1. CASE Becomes(Stopped(Signalled(s, DOMAIN children, "service")))
             /\ UNCHANGED <<children, owner, alive, mainVars, exit_status>>
    <3>1. ServiceOK(Signalled(s, DOMAIN children, "service"))
      BY SignalledIsOK
    <3>2. ServiceOK(Stopped(Signalled(s, DOMAIN children, "service")))
      BY <3>1, StoppedIsOK
    <3>3. Outcome(s, Stopped(Signalled(s, DOMAIN children, "service")))
      BY <1>1, <1>3, <2>0, <2>1, <3>2 DEF Outcome, NothingStarts, mainVars
    <3> QED BY <3>3
  <2>2. CASE /\ IF opts.wrapped THEN MainStarts
                ELSE UNCHANGED <<children, owner, alive, mainVars>>
             /\ exit_status' = "ok"
             /\ Becomes(IF s.export_state = "starting"
                        THEN [s EXCEPT !.export_state = "listening"] ELSE s)
    <3> DEFINE t == IF s.export_state = "starting"
                    THEN [s EXCEPT !.export_state = "listening"] ELSE s
    <3>1. t \in Services /\ t.listening = s.listening /\ t.told = s.told /\ t.inbox = s.inbox
      BY DEF ServiceOK, Services
    <3>2. ServiceOK(t)
      BY <3>1 DEF ServiceOK, ToldOK, BoxesOK
    <3>3. NothingStarts \/ MainStarts
      BY <2>2 DEF NothingStarts, mainVars
    <3>4. Becomes(t)
      BY <2>2
    <3> HIDE DEF t
    <3>5. Outcome(s, t)
      BY <1>1, <1>3, <2>0, <2>2, <3>1, <3>2, <3>3, <3>4 DEF Outcome
    <3> QED BY <3>5
  <2> QED BY <1>3, <2>1, <2>2 DEF Starts, MainStarts
<1> QED BY <1>1, <1>2, <1>3 DEF CheckReady

\* What is said of the others remains true when the service becomes t.
Others ==
    /\ UNCHANGED <<ran, call, client, via, status>>
    /\ pc' = pc \/ (pc = "start" /\ pc' = "loop")
    /\ started' => ready'
Rest ==
    /\ ChildrenOK /\ OutlivesChildren /\ MainPidIsTrue /\ SignalsOwnChildren
    /\ RanOK /\ \A c \in Clients : ClientOK(c)

\* What is said of the others remains true if no process is started...
LEMMA SameProcesses ==
    ASSUME IInv, NEW t, ServiceOK(t), Becomes(t), NothingStarts, Others
    PROVE  Rest'
<1> USE DEF NothingStarts, Others
<1>1. ChildrenOK' /\ OutlivesChildren' /\ MainPidIsTrue' /\ RanOK'
  BY DEF IInv, ChildrenOK, OutlivesChildren, MainPidIsTrue, RanOK
<1>2. SignalsOwnChildren'
  BY DEF ServiceOK, ToldOK, Becomes, SignalsOwnChildren
<1>3. ASSUME NEW c \in Clients PROVE ClientOK(c)'
  <2>1. Allowed(c)' = Allowed(c)
    BY DEF Allowed, MsgOK
  <2>2. inbox'[c] \in Seq(Allowed(c)) /\ (client[c] = "idle" => inbox'[c] = <<>>)
    BY DEF ServiceOK, BoxesOK, Becomes
  <2>3. inbox'[c] \in Seq(Allowed(c)')
    BY <2>1, <2>2
  <2> QED BY <2>2, <2>3 DEF IInv, ClientOK
<1> QED BY <1>1, <1>2, <1>3 DEF Rest

\* ... and if the service's own command is.
LEMMA NewMain ==
    ASSUME IInv, NEW t, ServiceOK(t), Becomes(t), MainStarts, Others, pc' = "loop"
    PROVE  Rest'
<1> USE DEF Others
<1>0. PICK p \in Pids : /\ NewChild(p, "main", opts.stop_on_exit)
                        /\ main_pid' = p /\ main_alive' = TRUE
  BY DEF MainStarts
<1>1. /\ owner[p] = "nobody" /\ owner' = [owner EXCEPT ![p] = "main"]
      /\ alive' = alive \cup {p} /\ DOMAIN children' = DOMAIN children \cup {p}
      /\ owner \in [Pids -> Owners]
  BY <1>0 DEF NewChild, Spawned, Free, IInv, TypeOK
<1>2. ChildrenOK' /\ OutlivesChildren'
  BY <1>1 DEF IInv, ChildrenOK, OutlivesChildren
<1>3. MainPidIsTrue'
  BY <1>0, <1>1 DEF MainPidIsTrue
<1>4. RanOK'
  <2>1. /\ \A q \in Pids : owner'[q] \in Clients => owner[q] = owner'[q] /\ q # p
        /\ \A q \in Pids : owner[q] \in Clients => owner[q] = owner'[q] /\ q # p
    BY <1>1, NamesAssumption
  <2>2. alive \subseteq Pids /\ RanOK
    BY DEF IInv, TypeOK
  <2>3. \A q, r \in Pids : owner'[q] \in Clients /\ owner'[r] = owner'[q] => q = r
    BY <2>1, <2>2 DEF RanOK
  <2>4. \A q \in Pids : owner'[q] \in Clients =>
          ran'[owner'[q]] = IF q \in alive' THEN "running" ELSE "exited"
    BY <1>1, <2>1, <2>2 DEF RanOK
  <2>5. \A c \in Clients : ran'[c] = "running" => \E q \in alive' : owner'[q] = c
    BY <1>1, <2>1, <2>2 DEF RanOK
  <2> QED BY <2>3, <2>4, <2>5 DEF RanOK
<1>5. SignalsOwnChildren'
  BY <1>1 DEF ServiceOK, ToldOK, Becomes, SignalsOwnChildren
<1>6. ASSUME NEW c \in Clients PROVE ClientOK(c)'
  <2>1. Allowed(c)' = Allowed(c)
    BY DEF Allowed, MsgOK
  <2>2. inbox'[c] \in Seq(Allowed(c)) /\ (client[c] = "idle" => inbox'[c] = <<>>)
    BY DEF ServiceOK, BoxesOK, Becomes
  <2>3. inbox'[c] \in Seq(Allowed(c)')
    BY <2>1, <2>2
  <2> QED BY <2>2, <2>3 DEF IInv, ClientOK
<1> QED BY <1>2, <1>3, <1>4, <1>5, <1>6 DEF Rest

-----------------------------------------------------------------------------
(* Steps of the service in which its listener may become ready.            *)

\* Types of the variables that CheckReady() and its callers may change.
LEMMA CheckedTypes ==
    ASSUME IInv, NEW s, NEW t, Outcome(s, t), pc' = "loop",
           launcher' \in {"none", "live", "dead"},
           UNCHANGED <<opts, peers, client, via, call, sig, child_pid, dropped, ran, status>>
    PROVE  TypeOK'
<1>1. /\ export_state' \in {"starting", "listening", "exported", "gone"}
      /\ unref_timer' \in BOOLEAN /\ listening' \in BOOLEAN
      /\ names' \in [Names -> {"waiting", "owned", "lost", "released"}]
      /\ told' \in [Pids -> SUBSET (Clients \cup {"service"})]
      /\ inbox' \in [Clients -> Seq(Messages)]
  BY DEF Outcome, ServiceOK, Services, Becomes
<1>2. TypeOK
  BY DEF IInv
<1>3. /\ main_pid' \in Pids \cup {NoPid} /\ main_alive' \in BOOLEAN
      /\ DOMAIN children' \subseteq Pids
      /\ \A q \in DOMAIN children' :
           /\ children'[q] \in [client : Clients \cup {"main"}, terminate_after : BOOLEAN]
           /\ owner'[q] = children'[q].client
      /\ owner' \in [Pids -> Owners] /\ alive' \subseteq Pids
  <2>1. CASE NothingStarts
    BY <1>2, <2>1 DEF NothingStarts, TypeOK
  <2>2. CASE MainStarts
    <3>0. PICK q \in Pids : /\ NewChild(q, "main", opts.stop_on_exit)
                            /\ main_pid' = q /\ main_alive' = TRUE
      BY <2>2 DEF MainStarts
    <3>1. opts.stop_on_exit \in BOOLEAN
      BY <1>2, OptionsAssumption DEF TypeOK
    <3>2. /\ owner' = [owner EXCEPT ![q] = "main"] /\ alive' = alive \cup {q}
          /\ DOMAIN children' = DOMAIN children \cup {q}
          /\ children'[q] = [client |-> "main", terminate_after |-> opts.stop_on_exit]
          /\ \A r \in DOMAIN children \ {q} : children'[r] = children[r]
      BY <3>0 DEF NewChild, Spawned, PidData
    <3>3. /\ DOMAIN children \subseteq Pids /\ owner \in [Pids -> Owners] /\ alive \subseteq Pids
          /\ \A r \in DOMAIN children :
               /\ children[r] \in [client : Clients \cup {"main"}, terminate_after : BOOLEAN]
               /\ owner[r] = children[r].client
      BY <1>2 DEF TypeOK
    <3>4. owner' \in [Pids -> Owners] /\ alive' \subseteq Pids /\ DOMAIN children' \subseteq Pids
      BY <3>2, <3>3 DEF Owners
    <3>5. children'[q] \in [client : Clients \cup {"main"}, terminate_after : BOOLEAN]
          /\ owner'[q] = children'[q].client
      BY <3>1, <3>2, <3>3
    <3>6. \A r \in DOMAIN children \ {q} : owner'[r] = owner[r]
      BY <3>2, <3>3
    <3> QED BY <3>0, <3>2, <3>3, <3>4, <3>5, <3>6
  <2> QED BY <2>1, <2>2 DEF Outcome
<1>4. ready' \in BOOLEAN /\ started' \in BOOLEAN /\ exit_status' \in {"unavailable", "ok"}
  BY DEF Outcome
<1> QED BY <1>1, <1>2, <1>3, <1>4 DEF TypeOK

\* The invariant survives them.
LEMMA CheckedOK ==
    ASSUME IInv, NEW s, ServiceOK(s), CheckReady(s), pc \in {"start", "loop"}, pc' = "loop",
           launcher' \in {"none", "live", "dead"},
           UNCHANGED <<opts, peers, client, via, call, sig, child_pid, dropped, ran, status>>
    PROVE  IInv'
<1>1. PICK t : Outcome(s, t)
  BY CheckReadyStep
<1>2. TypeOK'
  BY <1>1, CheckedTypes
<1>3. ServiceOK(t) /\ Becomes(t) /\ Others /\ (NothingStarts \/ MainStarts)
  BY <1>1 DEF Outcome, Others
<1>4. Rest'
  BY <1>3, SameProcesses, NewMain
<1> QED BY <1>2, <1>4 DEF IInv, Rest

\* Listening on the session bus, or on a socket.
LEMMA ListenStep == ASSUME IInv, Listen PROVE IInv'
<1> DEFINE s == [Service EXCEPT !.listening = TRUE,
                                !.export_state = IF opts.bus THEN "exported" ELSE @]
<1>1. Service \in Services /\ ToldOK(Service) /\ BoxesOK(Service)
  BY ServiceIsOK DEF ServiceOK
<1>2. s \in Services /\ s.told = Service.told /\ s.inbox = Service.inbox
  BY <1>1 DEF Service, Services
<1>3. ServiceOK(s)
  BY <1>1, <1>2 DEF ServiceOK, ToldOK, BoxesOK
<1>4. CheckReady(s)
  BY DEF Listen
<1> HIDE DEF s
<1> QED BY <1>3, <1>4, CheckedOK DEF Listen

\* A name is acquired.
LEMMA NameAcquiredStep == ASSUME IInv, NEW n \in Names, NameAcquired(n) PROVE IInv'
<1> DEFINE s == [Service EXCEPT !.names[n] = "owned"]
<1>1. Service \in Services /\ ToldOK(Service) /\ BoxesOK(Service)
  BY ServiceIsOK DEF ServiceOK
<1>2. s \in Services /\ s.told = Service.told /\ s.inbox = Service.inbox
  BY <1>1 DEF Service, Services
<1>3. ServiceOK(s)
  BY <1>1, <1>2 DEF ServiceOK, ToldOK, BoxesOK
<1>4. CheckReady(s) /\ launcher \in {"none", "live", "dead"}
  BY DEF NameAcquired, IInv, TypeOK
<1> HIDE DEF s
<1> QED BY <1>3, <1>4, CheckedOK DEF NameAcquired, Loop

\* What a service that has lost a name passes to CheckReady().
LEMMA LostIsOK ==
    ASSUME IInv, NEW n \in Names
    PROVE  LET s == [Service EXCEPT !.names[n] = "lost"]
           IN  /\ ServiceOK(s) /\ s.listening = listening
               /\ ServiceOK(StopsBeforeStart(Stopped(s)))
               /\ ~started => StopsBeforeStart(Stopped(s)).export_state = "gone"
<1> DEFINE s == [Service EXCEPT !.names[n] = "lost"]
           t == StopsBeforeStart(Stopped(s))
<1>1. Service \in Services /\ ToldOK(Service) /\ BoxesOK(Service)
  BY ServiceIsOK DEF ServiceOK
<1>2. /\ s \in Services /\ s.told = Service.told /\ s.inbox = Service.inbox
      /\ s.listening = listening
  BY <1>1 DEF Service, Services
<1>3. ServiceOK(s)
  BY <1>1, <1>2 DEF ServiceOK, ToldOK, BoxesOK
<1> HIDE DEF s
<1>4. ServiceOK(Stopped(s))
  BY <1>3, StoppedIsOK
<1> DEFINE u == Stopped(s)
<1>5. u \in Services /\ ToldOK(u) /\ BoxesOK(u)
  BY <1>4 DEF ServiceOK
<1> HIDE DEF u
<1>6. /\ StopsBeforeStart(u) \in Services
      /\ StopsBeforeStart(u).told = u.told /\ StopsBeforeStart(u).inbox = u.inbox
      /\ ~started => StopsBeforeStart(u).export_state = "gone"
  BY <1>5 DEF StopsBeforeStart, Services
<1>7. ServiceOK(StopsBeforeStart(u))
  BY <1>5, <1>6 DEF ServiceOK, ToldOK, BoxesOK
<1>8. /\ ServiceOK(t)
      /\ ~started => t.export_state = "gone"
  BY <1>6, <1>7 DEF u
<1> QED BY <1>2, <1>3, <1>8 DEF s

\* A name is lost.
LEMMA NameLostStep == ASSUME IInv, NEW n \in Names, NameLost(n) PROVE IInv'
<1> DEFINE s == [Service EXCEPT !.names[n] = "lost"]
           t == IF opts.stop_on_name_loss THEN StopsBeforeStart(Stopped(s)) ELSE s
<1>1. ServiceOK(t)
  BY LostIsOK
<1>2. CheckReady(t) /\ launcher \in {"none", "live", "dead"}
  BY DEF NameLost, IInv, TypeOK
<1> HIDE DEF t
<1> QED BY <1>1, <1>2, CheckedOK DEF NameLost, Loop

-----------------------------------------------------------------------------
(* Other steps of the service.                                             *)

\* Nothing about processes or clients changes: only what the service may become.
LEMMA StopOK ==
    ASSUME IInv, NEW t, ServiceOK(t), Becomes(t), pc = "loop", pc' = "loop",
           launcher' \in {"none", "live", "dead"}, dropped' \subseteq Clients,
           UNCHANGED <<opts, exit_status, started, ready, peers, mainVars, children,
                       owner, alive, client, via, call, sig, child_pid, ran, status>>
    PROVE  IInv'
<1>1. /\ export_state' \in {"starting", "listening", "exported", "gone"}
      /\ unref_timer' \in BOOLEAN /\ listening' \in BOOLEAN
      /\ names' \in [Names -> {"waiting", "owned", "lost", "released"}]
      /\ told' \in [Pids -> SUBSET (Clients \cup {"service"})]
      /\ inbox' \in [Clients -> Seq(Messages)]
  BY DEF ServiceOK, Services, Becomes
<1>2. TypeOK'
  BY <1>1 DEF IInv, TypeOK, mainVars
<1>3. NothingStarts /\ Others
  BY DEF NothingStarts, Others, mainVars, IInv, ChildrenOK
<1>4. Rest'
  BY <1>3, SameProcesses
<1> QED BY <1>2, <1>4 DEF IInv, Rest

\* Somebody asks the service to stop.
LEMMA AskedStep == ASSUME IInv, Asked PROVE IInv'
<1> DEFINE t == Stopped(Signalled(Service, DOMAIN children, "service"))
<1>1. ServiceOK(t)
  BY ServiceIsOK, SignalledIsOK, StoppedIsOK
<1>2. Becomes(t) /\ launcher' \in {"none", "live", "dead"} /\ dropped' \subseteq Clients
  BY DEF Asked, IInv, TypeOK
<1> HIDE DEF t
<1> QED BY <1>1, <1>2, StopOK DEF Asked, Loop

\* A client has left the bus.
LEMMA HandleDroppedStep == ASSUME IInv, NEW c \in Clients, HandleDropped(c) PROVE IInv'
<1> DEFINE t == Signalled(Service, { p \in DOMAIN children : children[p].client = c }, "service")
<1>1. ServiceOK(t)
  BY ServiceIsOK, SignalledIsOK
<1>2. /\ t.export_state = export_state /\ t.unref_timer = unref_timer
      /\ t.listening = listening /\ t.names = names /\ t.inbox = inbox
  BY DEF Signalled, Service
<1> HIDE DEF t
<1>3. Becomes(t)
  BY <1>2 DEF HandleDropped, Becomes, exportVars, t
<1>4. launcher' \in {"none", "live", "dead"} /\ dropped' \subseteq Clients
  BY DEF HandleDropped, IInv, TypeOK, exportVars
<1> QED BY <1>1, <1>3, <1>4, StopOK DEF HandleDropped, Loop, startVars

\* The skeleton is destroyed, 500 ms after the service was stopped.
LEMMA UnrefSkeletonStep == ASSUME IInv, UnrefSkeleton PROVE IInv'
<1> DEFINE t == [Service EXCEPT !.unref_timer = FALSE, !.export_state = "gone"]
<1>1. Service \in Services /\ ToldOK(Service) /\ BoxesOK(Service)
  BY ServiceIsOK DEF ServiceOK
<1>2. /\ t \in Services /\ t.told = Service.told /\ t.inbox = Service.inbox
  BY <1>1 DEF Service, Services
<1>3. ServiceOK(t)
  BY <1>1, <1>2 DEF ServiceOK, ToldOK, BoxesOK
<1>4. Becomes(t)
  BY DEF UnrefSkeleton, Becomes, Service, procVars, clientVars
<1>5. dropped' \subseteq Clients
  BY DEF UnrefSkeleton, IInv, TypeOK, clientVars
<1> HIDE DEF t
<1> QED BY <1>3, <1>4, <1>5, StopOK
        DEF UnrefSkeleton, Loop, startVars, procVars, clientVars

\* A client connects to the socket.
LEMMA NewConnectionStep == ASSUME IInv, NEW c \in Clients, NewConnection(c) PROVE IInv'
<1> USE DEF NewConnection, Loop, mainVars, procVars, clientVars
<1>1. TypeOK'
  BY DEF IInv, TypeOK
<1>2. ChildrenOK' /\ OutlivesChildren' /\ MainPidIsTrue' /\ RanOK' /\ SignalsOwnChildren'
  BY DEF IInv, ChildrenOK, OutlivesChildren, MainPidIsTrue, RanOK, SignalsOwnChildren
<1>3. ASSUME NEW d \in Clients PROVE ClientOK(d)'
  <2>1. Allowed(d)' = Allowed(d)
    BY DEF Allowed, MsgOK
  <2> QED BY <2>1 DEF IInv, ClientOK
<1> QED BY <1>1, <1>2, <1>3 DEF IInv

\* The service cannot listen.
LEMMA ListenFailsStep == ASSUME IInv, ListenFails PROVE IInv'
<1> USE DEF ListenFails, mainVars, exportVars, procVars, clientVars
<1>1. TypeOK'
  BY DEF IInv, TypeOK, Fallback
<1>2. alive = {} /\ main_pid = NoPid
  BY DEF IInv, ChildrenOK
<1>3. ChildrenOK' /\ OutlivesChildren' /\ MainPidIsTrue' /\ RanOK' /\ SignalsOwnChildren'
  BY <1>2 DEF IInv, ChildrenOK, OutlivesChildren, MainPidIsTrue, RanOK, SignalsOwnChildren,
              Fallback
<1>4. ASSUME NEW d \in Clients PROVE ClientOK(d)'
  <2>1. Allowed(d)' = Allowed(d)
    BY DEF Allowed, MsgOK
  <2> QED BY <2>1 DEF IInv, ClientOK
<1> QED BY <1>1, <1>3, <1>4 DEF IInv

\* A client's signal goes to a child of that client.
LEMMA HandleSendSignalStep == ASSUME IInv, NEW c \in Clients, HandleSendSignal(c) PROVE IInv'
<1> USE DEF HandleSendSignal, mainVars, exportVars, startVars
<1>1. /\ told' = told
      \/ /\ sig[c] \in DOMAIN children /\ owner[sig[c]] = c
         /\ told' = [told EXCEPT ![sig[c]] = @ \cup {c}]
  BY DEF OwnChild, IInv, TypeOK
<1>2. TypeOK'
  BY <1>1 DEF IInv, TypeOK
<1>3. SignalsOwnChildren'
  BY <1>1, NamesAssumption DEF IInv, TypeOK, SignalsOwnChildren
<1>4. ChildrenOK' /\ OutlivesChildren' /\ MainPidIsTrue' /\ RanOK'
  BY DEF IInv, ChildrenOK, OutlivesChildren, MainPidIsTrue, RanOK
<1>5. ASSUME NEW d \in Clients PROVE ClientOK(d)'
  <2>1. Allowed(d)' = Allowed(d)
    BY DEF Allowed, MsgOK
  <2> QED BY <2>1 DEF IInv, ClientOK
<1> QED BY <1>2, <1>3, <1>4, <1>5 DEF IInv

-----------------------------------------------------------------------------
(* Steps that tell clients something, or change what has become of commands. *)

\* A message that is true may be added to others that remain true.
LEMMA Delivered ==
    ASSUME NEW d \in Clients, inbox[d] \in Seq(Allowed(d)), Allowed(d) \subseteq Allowed(d)',
           inbox'[d] = inbox[d]
           \/ \E m \in Allowed(d)' : inbox'[d] = Append(inbox[d], m)
    PROVE  inbox'[d] \in Seq(Allowed(d)')
<1>1. inbox[d] \in Seq(Allowed(d)')
  BY AllowedSeq
<1> QED BY <1>1, AppendOne

\* The type of the messages for one client that are sent another.
LEMMA SentType ==
    ASSUME TypeOK, NEW c \in Clients, NEW m \in Messages
    PROVE  /\ Sent(inbox, c, m) \in [Clients -> Seq(Messages)]
           /\ Sent(inbox, c, m)[c] \in {inbox[c], Append(inbox[c], m)}
           /\ \A d \in Clients \ {c} : Sent(inbox, c, m)[d] = inbox[d]
<1>1. inbox \in [Clients -> Seq(Messages)]
  BY DEF TypeOK
<1>2. inbox[c] \in Seq(Messages)
  BY <1>1
<1>3. Append(inbox[c], m) \in Seq(Messages)
  BY <1>2, AppendOne
<1> QED BY <1>1, <1>3 DEF Sent

\* A call to Launch() fails.
LEMMA RefusedOK ==
    ASSUME IInv, NEW c \in Clients, call[c] # "none",
           call' = [call EXCEPT ![c] = "none"], inbox' = Sent(inbox, c, Error),
           UNCHANGED <<startVars, mainVars, exportVars, told, children, owner, alive, client,
                       via, sig, child_pid, dropped, ran, status>>
    PROVE  IInv'
<1> USE DEF mainVars, exportVars, startVars
<1>0. Error \in Messages /\ call \in [Clients -> {"none", "launch", "launch_terminate"}]
  BY DEF Error, Messages, IInv, TypeOK
<1>1. /\ inbox' \in [Clients -> Seq(Messages)]
      /\ inbox'[c] \in {inbox[c], Append(inbox[c], Error)}
      /\ \A d \in Clients \ {c} : inbox'[d] = inbox[d]
  BY <1>0, SentType DEF IInv
<1>2. TypeOK'
  BY <1>1 DEF IInv, TypeOK
<1>3. ChildrenOK' /\ OutlivesChildren' /\ MainPidIsTrue' /\ RanOK' /\ SignalsOwnChildren'
  BY DEF IInv, ChildrenOK, OutlivesChildren, MainPidIsTrue, RanOK, SignalsOwnChildren
<1>4. ASSUME NEW d \in Clients PROVE ClientOK(d)'
  <2>1. ClientOK(d)
    BY DEF IInv
  <2>2. Allowed(d) \subseteq Allowed(d)'
    BY <1>0 DEF Allowed, MsgOK
  <2>3. d = c => Error \in Allowed(d)'
    BY <1>0, <2>1 DEF Allowed, MsgOK, ClientOK, Error
  <2>4. inbox'[d] \in Seq(Allowed(d)')
    BY <1>1, <2>1, <2>2, <2>3, Delivered DEF ClientOK
  <2>5. client[d] = "idle" => d # c
    BY DEF IInv, ClientOK
  <2> QED BY <1>0, <1>1, <2>1, <2>4, <2>5 DEF ClientOK
<1> QED BY <1>2, <1>3, <1>4 DEF IInv

\* There is nobody to handle the call.
LEMMA RefuseLaunchStep == ASSUME IInv, NEW c \in Clients, RefuseLaunch(c) PROVE IInv'
BY RefusedOK DEF RefuseLaunch, procVars

\* A call to Launch() succeeds.
LEMMA LaunchedOK ==
    ASSUME IInv, NEW c \in Clients, NEW p \in Pids, HandleLaunch(c),
           NewChild(p, c, call[c] = "launch_terminate"),
           inbox' = Sent(inbox, c, Reply(p)), ran' = [ran EXCEPT ![c] = "running"]
    PROVE  IInv'
<1> USE DEF mainVars, exportVars, startVars
<1>0. /\ pc = "loop" /\ call[c] # "none" /\ call' = [call EXCEPT ![c] = "none"]
      /\ UNCHANGED <<startVars, mainVars, exportVars, told, client, via, sig, child_pid,
                     dropped, status>>
      /\ TypeOK /\ ran[c] = "no"
  BY DEF HandleLaunch, Reaches, Loop, IInv, ClientOK
<1>1. /\ owner' = [owner EXCEPT ![p] = c] /\ alive' = alive \cup {p} /\ owner[p] = "nobody"
      /\ DOMAIN children' = DOMAIN children \cup {p}
      /\ children'[p] = PidData(c, call[c] = "launch_terminate")
      /\ \A r \in DOMAIN children \ {p} : children'[r] = children[r]
  BY DEF NewChild, Spawned, Free
<1>2. Reply(p) \in Messages
  BY DEF Reply, Messages
<1>3. /\ inbox' \in [Clients -> Seq(Messages)]
      /\ inbox'[c] \in {inbox[c], Append(inbox[c], Reply(p))}
      /\ \A d \in Clients \ {c} : inbox'[d] = inbox[d]
  BY <1>0, <1>2, SentType
<1>4. TypeOK'
  <2>1. owner' \in [Pids -> Owners] /\ alive' \subseteq Pids /\ DOMAIN children' \subseteq Pids
    BY <1>0, <1>1 DEF TypeOK, Owners
  <2>2. \A r \in DOMAIN children' :
           /\ children'[r] \in [client : Clients \cup {"main"}, terminate_after : BOOLEAN]
           /\ owner'[r] = children'[r].client
    <3>1. (call[c] = "launch_terminate") \in BOOLEAN
      OBVIOUS
    <3>2. children'[p] \in [client : Clients \cup {"main"}, terminate_after : BOOLEAN]
          /\ owner'[p] = children'[p].client
      BY <1>0, <1>1, <3>1 DEF PidData, TypeOK
    <3>3. ASSUME NEW r \in DOMAIN children \ {p}
          PROVE  /\ children'[r] \in [client : Clients \cup {"main"}, terminate_after : BOOLEAN]
                 /\ owner'[r] = children'[r].client
      <4>1. /\ children[r] \in [client : Clients \cup {"main"}, terminate_after : BOOLEAN]
            /\ owner[r] = children[r].client /\ owner'[r] = owner[r] /\ children'[r] = children[r]
        BY <1>0, <1>1 DEF TypeOK
      <4> QED BY <4>1
    <3> QED BY <1>1, <3>2, <3>3
  <2>3. call' \in [Clients -> {"none", "launch", "launch_terminate"}]
        /\ ran' \in [Clients -> {"no", "running", "exited"}]
    BY <1>0 DEF TypeOK
  <2> QED BY <1>0, <1>3, <2>1, <2>2, <2>3 DEF TypeOK
<1>5. ChildrenOK' /\ OutlivesChildren' /\ SignalsOwnChildren'
  BY <1>0, <1>1 DEF IInv, ChildrenOK, OutlivesChildren, SignalsOwnChildren, TypeOK
<1>6. MainPidIsTrue'
  BY <1>0, <1>1 DEF IInv, MainPidIsTrue, TypeOK
<1>7. RanOK'
  <2>1. /\ owner \in [Pids -> Owners] /\ alive \subseteq Pids /\ p \notin alive
        /\ \A q \in Pids : owner[q] # c
        /\ ran \in [Clients -> {"no", "running", "exited"}]
    <3>1. p \notin alive
      BY <1>0, <1>1, NamesAssumption DEF IInv, TypeOK, ChildrenOK
    <3>2. \A q \in Pids : owner[q] # c
      BY <1>0 DEF IInv, RanOK
    <3> QED BY <1>0, <3>1, <3>2 DEF TypeOK
  <2>2. \A q \in Pids \ {p} : owner'[q] = owner[q] /\ (q \in alive' <=> q \in alive)
    BY <1>1, <2>1
  <2>3. /\ owner'[p] = c /\ p \in alive' /\ ran'[c] = "running"
        /\ \A d \in Clients \ {c} : ran'[d] = ran[d]
    BY <1>1, <2>1
  <2>4. RanOK
    BY DEF IInv
  <2>5. \A q \in Pids : owner'[q] \in Clients =>
          ran'[owner'[q]] = IF q \in alive' THEN "running" ELSE "exited"
    BY <2>1, <2>2, <2>3, <2>4 DEF RanOK
  <2>6. \A q, r \in Pids : owner'[q] \in Clients /\ owner'[r] = owner'[q] => q = r
    BY <2>1, <2>2, <2>3, <2>4 DEF RanOK
  <2>7. \A d \in Clients : ran'[d] = "running" => \E q \in alive' : owner'[q] = d
    BY <2>1, <2>2, <2>3, <2>4 DEF RanOK
  <2> QED BY <2>5, <2>6, <2>7 DEF RanOK
<1>8. ASSUME NEW d \in Clients PROVE ClientOK(d)'
  <2>1. ClientOK(d)
    BY DEF IInv
  <2>2. Allowed(d) \subseteq Allowed(d)'
    BY <1>0 DEF Allowed, MsgOK, TypeOK
  <2>3. d = c => Reply(p) \in Allowed(d)'
    BY <1>0, <1>2 DEF Allowed, MsgOK, Reply, TypeOK
  <2>4. inbox'[d] \in Seq(Allowed(d)')
    BY <1>3, <2>1, <2>2, <2>3, Delivered DEF ClientOK
  <2>5. client[d] = "idle" => d # c
    BY <1>0 DEF IInv, ClientOK
  <2>6. /\ ran'[c] = "running" /\ call'[c] = "none"
        /\ d # c => ran'[d] = ran[d] /\ call'[d] = call[d] /\ inbox'[d] = inbox[d]
    BY <1>0, <1>3 DEF TypeOK
  <2> QED BY <1>0, <2>1, <2>4, <2>5, <2>6 DEF ClientOK
<1> QED BY <1>4, <1>5, <1>6, <1>7, <1>8 DEF IInv

\* A call to Launch() is handled.
LEMMA HandleLaunchStep == ASSUME IInv, NEW c \in Clients, HandleLaunch(c) PROVE IInv'
<1>1. CASE inbox' = Sent(inbox, c, Error) /\ UNCHANGED <<children, owner, alive, ran>>
  BY <1>1, RefusedOK DEF HandleLaunch
<1>2. CASE \E p \in Pids : /\ NewChild(p, c, call[c] = "launch_terminate")
                           /\ inbox' = Sent(inbox, c, Reply(p))
                           /\ ran' = [ran EXCEPT ![c] = "running"]
  BY <1>2, LaunchedOK
<1> QED BY <1>1, <1>2 DEF HandleLaunch

\* A process exits, and becomes a zombie.
LEMMA ProcessExitsStep == ASSUME IInv, NEW p \in Pids, ProcessExits(p) PROVE IInv'
<1> USE DEF ProcessExits, mainVars, exportVars, startVars
<1>1. TypeOK'
  BY DEF IInv, TypeOK
<1>2. ChildrenOK' /\ OutlivesChildren' /\ MainPidIsTrue' /\ SignalsOwnChildren'
  BY DEF IInv, ChildrenOK, OutlivesChildren, MainPidIsTrue, SignalsOwnChildren
<1>3. RanOK'
  <2>1. /\ alive \subseteq Pids /\ RanOK /\ alive' = alive \ {p} /\ owner' = owner
        /\ \A d \in Clients : ran'[d] = IF d = owner[p] THEN "exited" ELSE ran[d]
    BY DEF IInv, TypeOK
  <2>2. \A q \in Pids : owner[q] \in Clients =>
          ran'[owner[q]] = IF q \in alive' THEN "running" ELSE "exited"
    BY <2>1 DEF RanOK
  <2>3. \A d \in Clients : ran'[d] = "running" => \E q \in alive' : owner[q] = d
    BY <2>1 DEF RanOK
  <2> QED BY <2>1, <2>2, <2>3 DEF RanOK
<1>4. ASSUME NEW d \in Clients PROVE ClientOK(d)'
  <2>1. /\ ran'[d] = ran[d] \/ (ran[d] = "running" /\ ran'[d] = "exited")
    BY DEF IInv, RanOK
  <2>2. ClientOK(d)
    BY DEF IInv
  <2>3. Allowed(d) \subseteq Allowed(d)'
    BY <2>1 DEF Allowed, MsgOK
  <2>4. inbox'[d] \in Seq(Allowed(d)')
    BY <2>2, <2>3, Delivered DEF ClientOK
  <2> QED BY <2>1, <2>2, <2>4 DEF ClientOK
<1> QED BY <1>1, <1>2, <1>3, <1>4 DEF IInv

\* What the service becomes when a child has gone.
LEMMA DiedIsOK ==
    ASSUME IInv, NEW p \in DOMAIN children, p \notin alive,
           NEW s, s = [Service EXCEPT
                   !.told[p] = {},
                   !.inbox = [c \in Clients |-> IF c \in ToClient(p)
                                               THEN Sent(inbox, c, Exited(p))[c] ELSE inbox[c]]]
    PROVE  ServiceOK(s) /\ s.told[p] = {}
<1>0. TypeOK /\ p \in Pids /\ owner[p] = children[p].client /\ Exited(p) \in Messages
  BY DEF IInv, TypeOK, Exited, Messages
<1>1. Service \in Services /\ ToldOK(Service) /\ BoxesOK(Service)
  BY ServiceIsOK DEF ServiceOK
<1> DEFINE box == [c \in Clients |-> IF c \in ToClient(p)
                                     THEN Sent(inbox, c, Exited(p))[c] ELSE inbox[c]]
<1>2. ASSUME NEW c \in Clients
      PROVE  /\ box[c] \in Seq(Messages) /\ box[c] \in Seq(Allowed(c))
             /\ client[c] = "idle" => box[c] = <<>>
  <2>1. inbox[c] \in Seq(Messages) /\ inbox[c] \in Seq(Allowed(c))
        /\ (client[c] = "idle" => inbox[c] = <<>> /\ ran[c] = "no")
    BY <1>0 DEF IInv, ClientOK, TypeOK
  <2>2. CASE c \notin ToClient(p)
    BY <2>1, <2>2
  <2>3. CASE c \in ToClient(p)
    <3>1. ran[c] = "exited"
      BY <1>0, <2>3 DEF ToClient, IInv, RanOK
    <3>2. Exited(p) \in Allowed(c)
      BY <1>0, <3>1 DEF Allowed, MsgOK, Exited
    <3>3. box[c] \in {inbox[c], Append(inbox[c], Exited(p))}
      BY <1>0, <2>3, SentType
    <3>4. /\ Append(inbox[c], Exited(p)) \in Seq(Messages)
          /\ Append(inbox[c], Exited(p)) \in Seq(Allowed(c))
      BY <1>0, <2>1, <3>2, AppendOne
    <3> QED BY <2>1, <3>1, <3>3, <3>4
  <2> QED BY <2>2, <2>3
<1>3. box \in [Clients -> Seq(Messages)]
  <2>1. \A c \in Clients : box[c] \in Seq(Messages)
    BY <1>2
  <2> QED BY <2>1
<1> HIDE DEF box
<1>4. s = [Service EXCEPT !.told[p] = {}, !.inbox = box]
  BY DEF box
<1>5. /\ DOMAIN s = DOMAIN Service /\ s.inbox = box /\ s.told = [told EXCEPT ![p] = {}]
      /\ s.export_state = export_state /\ s.unref_timer = unref_timer
      /\ s.listening = listening /\ s.names = names
      /\ s = [export_state |-> export_state, unref_timer |-> unref_timer, names |-> names,
              listening |-> listening, told |-> [told EXCEPT ![p] = {}], inbox |-> box]
  BY <1>4 DEF Service
<1>6. /\ told \in [Pids -> SUBSET (Clients \cup {"service"})] /\ Service.told = told
      /\ [told EXCEPT ![p] = {}] \in [Pids -> SUBSET (Clients \cup {"service"})]
      /\ s \in Services
  BY <1>0, <1>1, <1>3, <1>5 DEF Services, Service
<1>7. ToldOK(s) /\ s.told[p] = {}
  BY <1>0, <1>1, <1>5, <1>6 DEF ToldOK
<1>8. BoxesOK(s)
  BY <1>2, <1>5 DEF BoxesOK
<1> QED BY <1>6, <1>7, <1>8 DEF ServiceOK

\* Stopping does not send signals by itself, and terminate_children() only to some.
LEMMA StoppedTold ==
    ASSUME NEW s, s \in Services, NEW p \in Pids, NEW pids, p \notin pids
    PROVE  Stopped(Signalled(s, pids, "service")).told[p] = s.told[p]
<1> DEFINE t == Signalled(s, pids, "service")
           u == StopListening(t)
<1>1. t.told[p] = s.told[p] /\ DOMAIN t = DOMAIN s
  BY DEF Signalled, Services
<1>2. u.told = t.told /\ DOMAIN u = DOMAIN t
  BY <1>1 DEF StopListening, Services
<1>3. Ends(u).told = u.told
  BY <1>1, <1>2 DEF Ends, Services
<1> QED BY <1>1, <1>2, <1>3 DEF Stopped

\* The service waits for a child, and its process ID is free again.
LEMMA ChildWatchDiedStep == ASSUME IInv, NEW p \in Pids, ChildWatchDied(p) PROVE IInv'
<1> DEFINE s == [Service EXCEPT
                   !.told[p] = {},
                   !.inbox = [c \in Clients |-> IF c \in ToClient(p)
                                               THEN Sent(inbox, c, Exited(p))[c] ELSE inbox[c]]]
           t == IF children[p].terminate_after
                THEN Stopped(Signalled(s, DOMAIN children \ {p}, "service")) ELSE s
<1>0. /\ pc = "loop" /\ p \in DOMAIN children /\ p \notin alive
      /\ owner' = [owner EXCEPT ![p] = "nobody"] /\ children' = RemovedFrom(p)
      /\ main_alive' = (main_alive /\ p # main_pid)
      /\ UNCHANGED <<startVars, launcher, main_pid, alive, client, via, call, sig, child_pid,
                     dropped, ran, status>>
      /\ Becomes(t)
  BY DEF ChildWatchDied, Loop, MainLives
<1>1. ServiceOK(s) /\ s.told[p] = {}
  BY <1>0, DiedIsOK
<1> HIDE DEF s
<1>2. ServiceOK(t) /\ t.told[p] = {}
  <2>1. CASE ~children[p].terminate_after
    BY <1>1, <2>1
  <2>2. CASE children[p].terminate_after
    <3>1. ServiceOK(Stopped(Signalled(s, DOMAIN children \ {p}, "service")))
      BY <1>1, SignalledIsOK, StoppedIsOK
    <3>2. Stopped(Signalled(s, DOMAIN children \ {p}, "service")).told[p] = {}
      BY <1>1, StoppedTold DEF ServiceOK
    <3> QED BY <2>2, <3>1, <3>2
  <2> QED BY <2>1, <2>2
<1> HIDE DEF t
<1>3. /\ export_state' \in {"starting", "listening", "exported", "gone"}
      /\ unref_timer' \in BOOLEAN /\ listening' \in BOOLEAN
      /\ names' \in [Names -> {"waiting", "owned", "lost", "released"}]
      /\ told' \in [Pids -> SUBSET (Clients \cup {"service"})]
      /\ inbox' \in [Clients -> Seq(Messages)]
  BY <1>0, <1>2 DEF ServiceOK, Services, Becomes
<1>4. /\ DOMAIN children' = DOMAIN children \ {p}
      /\ \A q \in DOMAIN children' : children'[q] = children[q] /\ owner'[q] = owner[q]
      /\ owner' \in [Pids -> Owners]
      /\ owner \in [Pids -> Owners] /\ alive \subseteq Pids
  <2>1. /\ owner \in [Pids -> Owners] /\ alive \subseteq Pids /\ DOMAIN children \subseteq Pids
    BY DEF IInv, TypeOK
  <2> QED BY <1>0, <2>1 DEF RemovedFrom, Owners
<1>5. main_alive' \in BOOLEAN
  BY <1>0
<1>6. TypeOK'
  BY <1>0, <1>3, <1>4, <1>5 DEF IInv, TypeOK, startVars
<1>7. ChildrenOK' /\ OutlivesChildren'
  BY <1>0, <1>4 DEF IInv, ChildrenOK, OutlivesChildren, startVars
<1>8. MainPidIsTrue'
  BY <1>0, <1>4 DEF IInv, MainPidIsTrue
<1>9. SignalsOwnChildren'
  BY <1>0, <1>2, <1>4 DEF ServiceOK, ToldOK, Becomes, SignalsOwnChildren
<1>10. RanOK'
  <2>1. /\ \A q \in Pids : owner'[q] \in Clients => owner[q] = owner'[q] /\ q # p
        /\ \A q \in Pids : q # p => owner'[q] = owner[q]
    BY <1>0, <1>4, NamesAssumption
  <2>2. RanOK /\ alive' = alive /\ ran' = ran
    BY <1>0 DEF IInv
  <2>3. \A d \in Clients : ran[d] = "running" => \E q \in alive : owner'[q] = d
    BY <1>0, <1>4, <2>1, <2>2 DEF RanOK
  <2>4. \A q \in Pids : owner'[q] \in Clients =>
          ran[owner'[q]] = IF q \in alive THEN "running" ELSE "exited"
    BY <2>1, <2>2 DEF RanOK
  <2>5. \A q, r \in Pids : owner'[q] \in Clients /\ owner'[r] = owner'[q] => q = r
    BY <2>1, <2>2 DEF RanOK
  <2> QED BY <2>2, <2>3, <2>4, <2>5 DEF RanOK
<1>11. ASSUME NEW d \in Clients PROVE ClientOK(d)'
  <2>1. Allowed(d)' = Allowed(d)
    BY <1>0 DEF Allowed, MsgOK
  <2>2. inbox'[d] \in Seq(Allowed(d)) /\ (client[d] = "idle" => inbox'[d] = <<>>)
    BY <1>0, <1>2 DEF ServiceOK, BoxesOK, Becomes
  <2>3. inbox'[d] \in Seq(Allowed(d)')
    BY <2>1, <2>2
  <2> QED BY <1>0, <2>2, <2>3 DEF IInv, ClientOK
<1> QED BY <1>6, <1>7, <1>8, <1>9, <1>10, <1>11 DEF IInv

\* What is left for a client when the service ends.
LEMMA ClosingOK ==
    ASSUME NEW S, NEW c, NEW b \in Seq(S), Gone \in S, Error \in S
    PROVE  Closing(c, b) \in Seq(S)
<1> DEFINE Has(kinds) == \E i \in DOMAIN b : b[i].kind \in kinds
           e == IF client[c] = "calling" /\ ~Has({"reply", "error"}) THEN <<Error>> ELSE <<>>
           g == IF ~Has({"gone"}) /\ (via[c] = Unique \/ names[via[c]] # "lost")
                THEN <<Gone>> ELSE <<>>
<1>1. e \in Seq(S) /\ g \in Seq(S)
  OBVIOUS
<1> HIDE DEF e, g
<1>2. b \o e \in Seq(S)
  BY <1>1, ConcatProperties
<1>3. (b \o e) \o g \in Seq(S)
  BY <1>1, <1>2, ConcatProperties
<1> QED BY <1>3 DEF Closing, e, g

\* The service ends, and with it what it has not written.
LEMMA LeaveMainLoopStep == ASSUME IInv, LeaveMainLoop PROVE IInv'
<1> USE DEF mainVars, exportVars, startVars, procVars
<1>1. PICK kept \in [Clients -> UNION { 0..Len(inbox[c]) : c \in Clients }] :
        /\ \A c \in Clients : kept[c] <= Len(inbox[c])
        /\ inbox' = [c \in Clients |->
                       IF client[c] \in {"idle", "done"} THEN inbox[c]
                       ELSE Closing(c, SubSeq(inbox[c], 1, kept[c]))]
  BY DEF LeaveMainLoop
<1>2. /\ pc = "loop" /\ pc' = Fallback /\ DOMAIN children = {} /\ alive = {}
      /\ call' = [c \in Clients |-> "none"] /\ sig' = [c \in Clients |-> NoPid]
      /\ UNCHANGED <<opts, exit_status, started, ready, peers, mainVars, exportVars,
                     children, procVars, client, via, child_pid, dropped, ran, status>>
  BY DEF LeaveMainLoop, Loop, StillAlive, IInv, ChildrenOK
<1>3. ASSUME NEW c \in Clients
      PROVE  /\ inbox'[c] \in Seq(Messages) /\ inbox'[c] \in Seq(Allowed(c)')
             /\ client[c] = "idle" => inbox'[c] = <<>>
  <2>1. ClientOK(c) /\ inbox[c] \in Seq(Messages) /\ ran[c] # "running"
    BY <1>2 DEF IInv, TypeOK, RanOK
  <2>2. Allowed(c) \subseteq Allowed(c)'
    BY <1>2 DEF Allowed, MsgOK
  <2>3. inbox[c] \in Seq(Allowed(c)')
    BY <2>1, <2>2, AllowedSeq DEF ClientOK
  <2>4. Gone \in Messages /\ Error \in Messages /\ Gone \in Allowed(c)' /\ Error \in Allowed(c)'
    BY <1>2, <2>1 DEF Gone, Error, Messages, Allowed, MsgOK
  <2>5. CASE client[c] \in {"idle", "done"}
    BY <1>1, <2>1, <2>3, <2>5 DEF ClientOK
  <2>6. CASE client[c] \notin {"idle", "done"}
    <3> DEFINE b == SubSeq(inbox[c], 1, kept[c])
    <3>1. kept[c] \in Nat /\ kept[c] <= Len(inbox[c])
      <4>1. \A d \in Clients : 0..Len(inbox[d]) \subseteq Nat
        BY LenProperties DEF IInv, TypeOK
      <4> QED BY <1>1, <4>1
    <3>2. b \in Seq(Messages) /\ b \in Seq(Allowed(c)')
      BY <2>1, <2>3, <3>1, SubSeqProperties
    <3> HIDE DEF b
    <3>3. Closing(c, b) \in Seq(Messages) /\ Closing(c, b) \in Seq(Allowed(c)')
      BY <2>4, <3>2, ClosingOK
    <3> QED BY <1>1, <2>6, <3>3 DEF b
  <2> QED BY <2>5, <2>6
<1>4. inbox' \in [Clients -> Seq(Messages)]
  <2>1. \A c \in Clients : inbox'[c] \in Seq(Messages)
    BY <1>3
  <2> QED BY <1>1, <2>1
<1>5. TypeOK'
  BY <1>2, <1>4 DEF IInv, TypeOK, Fallback
<1>6. ChildrenOK' /\ OutlivesChildren' /\ MainPidIsTrue' /\ RanOK' /\ SignalsOwnChildren'
  BY <1>2 DEF IInv, ChildrenOK, OutlivesChildren, MainPidIsTrue, RanOK, SignalsOwnChildren,
              Fallback
<1>7. ASSUME NEW d \in Clients PROVE ClientOK(d)'
  BY <1>2, <1>3 DEF IInv, ClientOK
<1> QED BY <1>5, <1>6, <1>7 DEF IInv

-----------------------------------------------------------------------------
(* Steps of clients.                                                       *)

\* They change nothing of the service.
\* They leave what is said of the service and of processes as it was.
LEMMA ClientFrame ==
    ASSUME IInv, UNCHANGED <<serviceVars, ran>>
    PROVE  ChildrenOK' /\ OutlivesChildren' /\ MainPidIsTrue' /\ RanOK' /\ SignalsOwnChildren'
BY DEF IInv, serviceVars, startVars, mainVars, exportVars, procVars,
       ChildrenOK, OutlivesChildren, MainPidIsTrue, RanOK, SignalsOwnChildren

\* A client calls Launch().
LEMMA ClientCallsStep == ASSUME IInv, NEW c \in Clients, ClientCalls(c) PROVE IInv'
<1> USE DEF ClientCalls
<1>0. PICK n \in Available, kind \in {"launch", "launch_terminate"} :
        via' = [via EXCEPT ![c] = n] /\ call' = [call EXCEPT ![c] = kind]
  OBVIOUS
<1>1. TypeOK'
  BY <1>0 DEF IInv, TypeOK, Available, serviceVars, startVars, mainVars, exportVars, procVars
<1>2. ASSUME NEW d \in Clients PROVE ClientOK(d)'
  <2>1. ClientOK(d)
    BY DEF IInv
  <2>2. CASE d = c
    <3>1. inbox'[d] = <<>> /\ inbox'[d] \in Seq(Allowed(d)')
      BY <2>1, <2>2 DEF ClientOK
    <3>2. client'[d] = "calling" /\ ran'[d] = "no" /\ status'[d] = "none"
      BY <2>1, <2>2 DEF ClientOK, IInv, TypeOK
    <3> QED BY <3>1, <3>2 DEF ClientOK
  <2>3. CASE d # c
    <3>1. /\ client'[d] = client[d] /\ call'[d] = call[d] /\ via'[d] = via[d]
      BY <1>0, <2>3 DEF IInv, TypeOK
    <3>2. Allowed(d)' = Allowed(d)
      BY <3>1 DEF Allowed, MsgOK
    <3>3. inbox'[d] \in Seq(Allowed(d)')
      BY <2>1, <3>2 DEF ClientOK
    <3> QED BY <2>1, <3>1, <3>3 DEF ClientOK
  <2> QED BY <2>2, <2>3
<1> QED BY <1>1, <1>2, ClientFrame DEF IInv

\* A client that has finished; the others have not changed.
LEMMA DoneOK ==
    ASSUME IInv, NEW c \in Clients, NEW s \in {"command", "failed", "unknown", "died"},
           Done(c, s), UNCHANGED <<serviceVars, call, sig, ran>>, dropped' \subseteq Clients,
           call[c] # "none" => s = "died"
    PROVE  IInv'
<1> USE DEF Done
<1>1. TypeOK'
  <2>1. <<>> \in Seq(Messages)
    OBVIOUS
  <2>2. inbox' \in [Clients -> Seq(Messages)]
    BY <2>1 DEF IInv, TypeOK
  <2> QED BY <2>2 DEF IInv, TypeOK, serviceVars, startVars, mainVars, exportVars, procVars
<1>2. ASSUME NEW d \in Clients PROVE ClientOK(d)'
  <2>1. ClientOK(d)
    BY DEF IInv
  <2>2. Allowed(d)' = Allowed(d)
    BY DEF Allowed, MsgOK
  <2>3. CASE d = c
    <3>1. inbox'[d] = <<>> /\ inbox'[d] \in Seq(Allowed(d)')
      BY <2>3 DEF IInv, TypeOK
    <3>2. client'[d] = "done" /\ status'[d] = s
      BY <2>3 DEF IInv, TypeOK
    <3> QED BY <2>1, <2>3, <3>1, <3>2 DEF ClientOK
  <2>4. CASE d # c
    <3>1. /\ client'[d] = client[d] /\ status'[d] = status[d] /\ via'[d] = via[d]
          /\ inbox'[d] = inbox[d]
      BY <2>4 DEF IInv, TypeOK
    <3>3. inbox'[d] \in Seq(Allowed(d)')
      BY <2>1, <2>2, <3>1 DEF ClientOK
    <3> QED BY <2>1, <3>1, <3>3 DEF ClientOK
  <2> QED BY <2>3, <2>4
<1> QED BY <1>1, <1>2, ClientFrame DEF IInv

\* What a client has learnt from the first message of one kind, or from any.
LEMMA MessageIsTrue ==
    ASSUME IInv, NEW c \in Clients, NEW i \in DOMAIN inbox[c]
    PROVE  inbox[c][i] \in Allowed(c)
<1>1. inbox[c] \in Seq(Allowed(c))
  BY DEF IInv, ClientOK
<1> QED BY <1>1

\* A client that has read one message and goes on.
LEMMA ReadOK ==
    ASSUME IInv, NEW c \in Clients, NEW b, inbox' = [inbox EXCEPT ![c] = b],
           b \in Seq(Messages), b \in Seq(Allowed(c)),
           client' \in {client, [client EXCEPT ![c] = "waiting"]},
           client[c] \in {"calling", "waiting"}, ran[c] # "no",
           child_pid' \in [Clients -> Pids \cup {NoPid}],
           UNCHANGED <<serviceVars, via, call, sig, dropped, ran, status>>
    PROVE  IInv'
<1>1. TypeOK'
  <2>1. inbox' \in [Clients -> Seq(Messages)]
    BY DEF IInv, TypeOK
  <2>2. client' \in [Clients -> {"idle", "calling", "waiting", "done"}]
    <3>1. client \in [Clients -> {"idle", "calling", "waiting", "done"}]
      BY DEF IInv, TypeOK
    <3>2. [client EXCEPT ![c] = "waiting"] \in [Clients -> {"idle", "calling", "waiting", "done"}]
      BY <3>1
    <3> QED BY <3>1, <3>2
  <2> QED BY <2>1, <2>2 DEF IInv, TypeOK, serviceVars, startVars, mainVars, exportVars, procVars
<1>2. ASSUME NEW d \in Clients PROVE ClientOK(d)'
  <2>1. ClientOK(d)
    BY DEF IInv
  <2>2. Allowed(d)' = Allowed(d)
    BY DEF Allowed, MsgOK
  <2>3. CASE d = c
    <3>1. inbox'[d] \in Seq(Allowed(d)')
      BY <2>2, <2>3 DEF IInv, TypeOK
    <3>2. client'[d] \in {"calling", "waiting"}
      BY <2>3 DEF IInv, TypeOK
    <3> QED BY <2>1, <2>3, <3>1, <3>2 DEF ClientOK
  <2>4. CASE d # c
    <3>1. client'[d] = client[d] /\ inbox'[d] = inbox[d]
      BY <2>4 DEF IInv, TypeOK
    <3>3. inbox'[d] \in Seq(Allowed(d)')
      BY <2>1, <2>2, <3>1 DEF ClientOK
    <3> QED BY <2>1, <3>1, <3>3 DEF ClientOK
  <2> QED BY <2>3, <2>4
<1> QED BY <1>1, <1>2, ClientFrame DEF IInv

\* All messages but one.
LEMMA WithoutOne ==
    ASSUME NEW S, NEW b \in Seq(S), NEW i \in DOMAIN b
    PROVE  SubSeq(b, 1, i - 1) \o SubSeq(b, i + 1, Len(b)) \in Seq(S)
<1>1. i \in 1..Len(b) /\ Len(b) \in Nat
  BY LenProperties
<1>2. SubSeq(b, 1, i - 1) \in Seq(S) /\ SubSeq(b, i + 1, Len(b)) \in Seq(S)
  BY <1>1, SubSeqProperties
<1> QED BY <1>2, ConcatProperties

\* The call returns.
LEMMA ClientReturnsStep == ASSUME IInv, NEW c \in Clients, ClientReturns(c) PROVE IInv'
<1>1. PICK i \in DOMAIN inbox[c] :
        /\ inbox[c][i].kind \in {"reply", "error"}
        /\ IF inbox[c][i].kind = "reply"
           THEN /\ client' = [client EXCEPT ![c] = "waiting"]
                /\ child_pid' = [child_pid EXCEPT ![c] = inbox[c][i].pid]
                /\ inbox' = [inbox EXCEPT ![c] = SubSeq(@, 1, i - 1)
                                               \o SubSeq(@, i + 1, Len(@))]
                /\ UNCHANGED <<status, via>>
           ELSE Done(c, "failed")
  BY DEF ClientReturns
<1>2. /\ inbox[c][i] \in Messages /\ MsgOK(c, inbox[c][i])
  BY MessageIsTrue DEF Allowed
<1>3. /\ client[c] = "calling" /\ UNCHANGED <<serviceVars, call, sig, dropped, ran>>
      /\ dropped' \subseteq Clients
  BY DEF ClientReturns, IInv, TypeOK
<1>4. CASE inbox[c][i].kind = "reply"
  <2> DEFINE b == SubSeq(inbox[c], 1, i - 1) \o SubSeq(inbox[c], i + 1, Len(inbox[c]))
  <2>1. inbox[c] \in Seq(Messages) /\ inbox[c] \in Seq(Allowed(c))
    BY DEF IInv, TypeOK, ClientOK
  <2>2. b \in Seq(Messages) /\ b \in Seq(Allowed(c))
    BY <2>1, WithoutOne
  <2>3. inbox' = [inbox EXCEPT ![c] = b]
    BY <1>1, <1>4
  <2>4. inbox[c][i].pid \in Pids /\ ran[c] # "no"
    BY <1>2, <1>4 DEF Messages, MsgOK
  <2>5. child_pid' \in [Clients -> Pids \cup {NoPid}]
    BY <1>1, <1>4, <2>4 DEF IInv, TypeOK
  <2> HIDE DEF b
  <2> QED BY <1>1, <1>3, <1>4, <2>2, <2>3, <2>4, <2>5, ReadOK
<1>5. CASE inbox[c][i].kind # "reply"
  <2>1. Done(c, "failed") /\ call[c] = "none"
    BY <1>1, <1>2, <1>5 DEF MsgOK
  <2> QED BY <1>3, <2>1, DoneOK
<1> QED BY <1>4, <1>5

\* A client handles ProcessExited, NameOwnerChanged or the end of its connection.
LEMMA ClientHearsStep == ASSUME IInv, NEW c \in Clients, ClientHears(c) PROVE IInv'
<1>1. /\ client[c] = "waiting" /\ inbox[c] # <<>>
      /\ UNCHANGED <<serviceVars, call, sig, dropped, ran>>
      /\ dropped' \subseteq Clients /\ ran[c] # "no" /\ call[c] = "none"
  BY DEF ClientHears, IInv, TypeOK, ClientOK
<1>2. CASE Done(c, "unknown") \/ Done(c, "command")
  BY <1>1, <1>2, DoneOK
<1>3. CASE inbox' = [inbox EXCEPT ![c] = Tail(@)] /\ UNCHANGED <<client, status, via, child_pid>>
  <2> DEFINE b == Tail(inbox[c])
  <2>1. inbox[c] \in Seq(Messages) /\ inbox[c] \in Seq(Allowed(c))
    BY DEF IInv, TypeOK, ClientOK
  <2>2. b \in Seq(Messages) /\ b \in Seq(Allowed(c))
    BY <1>1, <2>1, HeadTailProperties
  <2>3. child_pid' \in [Clients -> Pids \cup {NoPid}] /\ inbox' = [inbox EXCEPT ![c] = b]
    BY <1>3 DEF IInv, TypeOK
  <2> HIDE DEF b
  <2> QED BY <1>1, <1>3, <2>2, <2>3, ReadOK
<1> QED BY <1>2, <1>3 DEF ClientHears

\* A client forwards a signal.
LEMMA ForwardSignalStep == ASSUME IInv, NEW c \in Clients, ForwardSignal(c) PROVE IInv'
<1> USE DEF ForwardSignal
<1>1. TypeOK'
  BY DEF IInv, TypeOK, serviceVars, startVars, mainVars, exportVars, procVars
<1>2. ASSUME NEW d \in Clients PROVE ClientOK(d)'
  <2>1. Allowed(d)' = Allowed(d)
    BY DEF Allowed, MsgOK
  <2> QED BY <2>1 DEF IInv, ClientOK
<1> QED BY <1>1, <1>2, ClientFrame DEF IInv

\* A client is killed.
LEMMA ClientDiesStep == ASSUME IInv, NEW c \in Clients, ClientDies(c) PROVE IInv'
<1>1. /\ Done(c, "died") /\ dropped' \subseteq Clients
      /\ UNCHANGED <<serviceVars, call, sig, ran>>
  BY DEF ClientDies, IInv, TypeOK
<1> QED BY <1>1, DoneOK

-----------------------------------------------------------------------------
(* The invariant.                                                          *)

\* The invariant holds at first.
LEMMA InitOK == Init => IInv
<1> SUFFICES ASSUME Init PROVE IInv
  OBVIOUS
<1>1. TypeOK
  <2>1. <<>> \in Seq(Messages) /\ DOMAIN children = {}
    BY DEF Init
  <2> QED BY <2>1 DEF Init, TypeOK, Owners
<1>2. ChildrenOK /\ OutlivesChildren /\ MainPidIsTrue
  BY DEF Init, ChildrenOK, OutlivesChildren, MainPidIsTrue
<1>3. SignalsOwnChildren /\ RanOK
  BY NamesAssumption DEF Init, SignalsOwnChildren, RanOK
<1>4. ASSUME NEW c \in Clients PROVE ClientOK(c)
  <2>1. inbox[c] = <<>> /\ <<>> \in Seq(Allowed(c))
    BY DEF Init
  <2> QED BY <2>1 DEF Init, ClientOK
<1> QED BY <1>1, <1>2, <1>3, <1>4 DEF IInv

\* Nothing happens.
LEMMA StutterOK == ASSUME IInv, UNCHANGED vars PROVE IInv'
<1> USE DEF vars, startVars, mainVars, exportVars, procVars, clientVars
<1>1. TypeOK'
  BY DEF IInv, TypeOK
<1>2. ChildrenOK' /\ OutlivesChildren' /\ MainPidIsTrue' /\ RanOK' /\ SignalsOwnChildren'
  BY DEF IInv, ChildrenOK, OutlivesChildren, MainPidIsTrue, RanOK, SignalsOwnChildren
<1>3. ASSUME NEW d \in Clients PROVE ClientOK(d)'
  <2>1. Allowed(d)' = Allowed(d)
    BY DEF Allowed, MsgOK
  <2> QED BY <2>1 DEF IInv, ClientOK
<1> QED BY <1>1, <1>2, <1>3 DEF IInv

\* Every step preserves the invariant.
LEMMA StepOK == IInv /\ [Next]_vars => IInv'
<1> SUFFICES ASSUME IInv, [Next]_vars PROVE IInv'
  OBVIOUS
<1>1. CASE NameStep
  BY <1>1, NameAcquiredStep, NameLostStep DEF NameStep
<1>2. CASE CallStep
  BY <1>2, NewConnectionStep, HandleLaunchStep, RefuseLaunchStep, HandleSendSignalStep,
     HandleDroppedStep DEF CallStep
<1>3. CASE ChildStep
  BY <1>3, ChildWatchDiedStep DEF ChildStep
<1>4. CASE MainStep
  BY <1>4, ListenStep, ListenFailsStep, AskedStep, UnrefSkeletonStep, LeaveMainLoopStep
  DEF MainStep
<1>5. CASE ProcStep
  BY <1>5, ProcessExitsStep DEF ProcStep
<1>6. CASE ClientStep
  BY <1>6, ClientCallsStep, ClientReturnsStep, ClientHearsStep, ForwardSignalStep,
     ClientDiesStep DEF ClientStep
<1>7. CASE UNCHANGED vars
  BY <1>7, StutterOK
<1> QED BY <1>1, <1>2, <1>3, <1>4, <1>5, <1>6, <1>7 DEF Next

\* The invariant always holds.
LEMMA Invariance == Spec => []IInv
<1>1. Init => IInv
  BY InitOK
<1>2. IInv /\ [Next]_vars => IInv'
  BY StepOK
<1> QED BY <1>1, <1>2, PTL DEF Spec

\* The variables have their types, and a PidData is that of the process whose ID it has.
THEOREM Types == Spec => []TypeOK
<1>1. IInv => TypeOK
  BY DEF IInv
<1> QED BY <1>1, Invariance, PTL

\* pv_launcher_server_still_alive(): the service does not end, nor become its own
\* command, while a child of it exists; and its command does not run twice.
THEOREM Outlives == Spec => []OutlivesChildren
<1>1. IInv => OutlivesChildren
  BY DEF IInv
<1> QED BY <1>1, Invariance, PTL

\* handle_send_signal(), name_owner_changed() and terminate_children(): signals reach
\* nobody but the process they are meant for, although process IDs are used again.
THEOREM Signals == Spec => []SignalsOwnChildren
<1>1. IInv => SignalsOwnChildren
  BY DEF IInv
<1> QED BY <1>1, Invariance, PTL

\* child_watch_died(): MAINPID is not given to children once its process has gone.
THEOREM MainPid == Spec => []MainPidIsTrue
<1>1. IInv => MainPidIsTrue
  BY DEF IInv
<1> QED BY <1>1, Invariance, PTL

-----------------------------------------------------------------------------
(* What steps never do.                                                    *)

\* The service does not start its command in a step after which it does not listen.
LEMMA StaysStoppedStep ==
    ASSUME IInv, Next, Loop, ~listening' PROVE main_pid' = main_pid
<1>1. ASSUME NEW n \in Names, NameAcquired(n) PROVE main_pid' = main_pid
  <2> DEFINE s == [Service EXCEPT !.names[n] = "owned"]
  <2>1. Service \in Services /\ ToldOK(Service) /\ BoxesOK(Service)
    BY ServiceIsOK DEF ServiceOK
  <2>2. /\ s \in Services /\ s.told = Service.told /\ s.inbox = Service.inbox
        /\ s.listening = listening
    BY <2>1 DEF Service, Services
  <2>3. ServiceOK(s)
    BY <2>1, <2>2 DEF ServiceOK, ToldOK, BoxesOK
  <2>4. CheckReady(s) /\ s.listening
    BY <1>1, <2>2 DEF NameAcquired
  <2> HIDE DEF s
  <2>5. PICK t : Outcome(s, t)
    BY <2>3, <2>4, CheckReadyStep
  <2>6. NothingStarts
    BY <2>4, <2>5 DEF Outcome, Becomes
  <2> QED BY <2>6 DEF NothingStarts
<1>2. ASSUME NEW n \in Names, NameLost(n) PROVE main_pid' = main_pid
  <2> DEFINE s == [Service EXCEPT !.names[n] = "lost"]
             u == StopsBeforeStart(Stopped(s))
             v == IF opts.stop_on_name_loss THEN u ELSE s
  <2>1. /\ ServiceOK(s) /\ s.listening = listening /\ ServiceOK(u)
        /\ ~started => u.export_state = "gone"
    BY LostIsOK
  <2>2. CheckReady(v) /\ listening
    BY <1>2 DEF NameLost
  <2> HIDE DEF s, u
  <2>3. ServiceOK(v)
    BY <2>1
  <2>4. started => ready
    BY DEF IInv, ChildrenOK
  <2>5. ready \/ v.export_state = "gone" \/ v.listening = listening
    BY <2>1, <2>4
  <2> HIDE DEF v
  <2>6. PICK t : Outcome(v, t)
    BY <2>2, <2>3, CheckReadyStep
  <2>7. NothingStarts
    BY <2>2, <2>5, <2>6 DEF Outcome, Becomes
  <2> QED BY <2>7 DEF NothingStarts
<1>3. CASE CallStep
  BY <1>3 DEF CallStep, NewConnection, HandleLaunch, RefuseLaunch, HandleSendSignal,
              HandleDropped, mainVars
<1>4. CASE ChildStep
  BY <1>4 DEF ChildStep, ChildWatchDied
<1>5. CASE MainStep
  BY <1>5 DEF MainStep, Loop, Listen, ListenFails, Asked, UnrefSkeleton, LeaveMainLoop, mainVars
<1>6. CASE ProcStep
  BY <1>6 DEF ProcStep, ProcessExits, mainVars
<1>7. CASE ClientStep
  BY <1>7 DEF ClientStep, ClientCalls, ClientReturns, ClientHears, ForwardSignal, ClientDies,
              serviceVars, mainVars
<1> QED BY <1>1, <1>2, <1>3, <1>4, <1>5, <1>6, <1>7 DEF Next, NameStep

\* portal_listener_ready_cb(): a service that has been asked to stop does not start its
\* command, whatever becomes of the names that it was waiting for.
THEOREM StaysStopped == Spec => StoppedStaysStopped
<1>1. IInv /\ [Next]_vars => [Loop /\ ~listening' => main_pid' = main_pid]_vars
  BY StaysStoppedStep
<1> QED BY <1>1, Invariance, PTL DEF Spec, StoppedStaysStopped

-----------------------------------------------------------------------------
(* Every command is a RemoteCommand.                                       *)

\* No command has run.
LEMMA RemoteInit == Init => Remote!Init
BY DEF Init, Remote!Init

\* A client that finishes reports what it may.
LEMMA DoneRemote ==
    ASSUME IInv, NEW c \in Clients, NEW s \in {"command", "failed", "unknown", "died"},
           Done(c, s), UNCHANGED ran, client[c] # "done",
           s = "command" => ran[c] = "exited",
           s = "failed"  => ran[c] # "running",
           s = "unknown" => ran[c] # "no"
    PROVE  Remote!Next
<1>1. status[c] = "none" /\ status' = [status EXCEPT ![c] = s]
  BY DEF IInv, ClientOK, Done
<1>2. Remote!Report(c)
  BY <1>1 DEF Remote!Report
<1> QED BY <1>2 DEF Remote!Next

\* Every step is one of a command, or changes nothing of any.
LEMMA RemoteStep == IInv /\ [Next]_vars => [Remote!Next]_(Remote!vars)
<1> SUFFICES ASSUME IInv, Next PROVE Remote!Next \/ UNCHANGED <<ran, status>>
  BY DEF vars, clientVars, Remote!vars
<1>1. CASE NameStep
  BY <1>1 DEF NameStep, NameAcquired, NameLost
<1>2. ASSUME NEW c \in Clients, HandleLaunch(c)
      PROVE  Remote!Next \/ UNCHANGED <<ran, status>>
  <2>1. UNCHANGED status /\ ran[c] = "no" /\ status[c] \in {"none", "died"}
    BY <1>2 DEF HandleLaunch, IInv, ClientOK
  <2>2. CASE ran' = [ran EXCEPT ![c] = "running"]
    <3>1. Remote!Start(c)
      BY <2>1, <2>2 DEF Remote!Start
    <3> QED BY <3>1 DEF Remote!Next
  <2>3. CASE ran' = ran
    BY <2>1, <2>3
  <2> QED BY <1>2, <2>2, <2>3 DEF HandleLaunch
<1>3. CASE CallStep
  BY <1>2, <1>3 DEF CallStep, NewConnection, RefuseLaunch, HandleSendSignal, HandleDropped,
                    clientVars
<1>4. CASE ChildStep
  BY <1>4 DEF ChildStep, ChildWatchDied
<1>5. CASE MainStep
  BY <1>5 DEF MainStep, Listen, ListenFails, Asked, UnrefSkeleton, LeaveMainLoop, clientVars
<1>6. ASSUME NEW p \in Pids, ProcessExits(p)
      PROVE  Remote!Next \/ UNCHANGED <<ran, status>>
  <2>0. /\ p \in alive /\ UNCHANGED status
        /\ ran' = [c \in Clients |-> IF c = owner[p] THEN "exited" ELSE ran[c]]
        /\ ran \in [Clients -> {"no", "running", "exited"}]
    BY <1>6 DEF ProcessExits, IInv, TypeOK
  <2>1. CASE owner[p] \in Clients
    <3>1. ran[owner[p]] = "running"
      BY <2>0, <2>1 DEF IInv, RanOK
    <3>2. ran' = [ran EXCEPT ![owner[p]] = "exited"]
      BY <2>0, <2>1
    <3>3. Remote!End(owner[p])
      BY <2>0, <3>1, <3>2 DEF Remote!End
    <3> QED BY <2>1, <3>3 DEF Remote!Next
  <2>2. CASE owner[p] \notin Clients
    BY <2>0, <2>2
  <2> QED BY <2>1, <2>2
<1>7. ASSUME NEW c \in Clients, ClientReturns(c)
      PROVE  Remote!Next \/ UNCHANGED <<ran, status>>
  <2>1. PICK i \in DOMAIN inbox[c] :
          /\ inbox[c][i].kind \in {"reply", "error"}
          /\ \/ UNCHANGED status
             \/ Done(c, "failed") /\ inbox[c][i].kind # "reply"
    BY <1>7 DEF ClientReturns
  <2>2. MsgOK(c, inbox[c][i])
    BY MessageIsTrue DEF Allowed
  <2>3. UNCHANGED ran /\ client[c] # "done"
    BY <1>7 DEF ClientReturns
  <2> QED BY <2>1, <2>2, <2>3, DoneRemote DEF MsgOK
<1>8. ASSUME NEW c \in Clients, ClientHears(c)
      PROVE  Remote!Next \/ UNCHANGED <<ran, status>>
  <2>1. /\ UNCHANGED ran /\ client[c] = "waiting" /\ inbox[c] # <<>>
        /\ \/ Done(c, "unknown")
           \/ Done(c, "command") /\ Head(inbox[c]).kind = "exited"
           \/ UNCHANGED status
    BY <1>8 DEF ClientHears
  <2>2. ran[c] # "no" /\ inbox[c] \in Seq(Allowed(c))
    BY <2>1 DEF IInv, ClientOK
  <2>3. MsgOK(c, Head(inbox[c]))
    BY <2>1, <2>2, HeadTailProperties DEF Allowed
  <2> QED BY <2>1, <2>2, <2>3, DoneRemote DEF MsgOK
<1>9. ASSUME NEW c \in Clients, ClientDies(c)
      PROVE  Remote!Next
  BY <1>9, DoneRemote DEF ClientDies
<1>10. CASE ClientStep
  BY <1>7, <1>8, <1>9, <1>10 DEF ClientStep, ClientCalls, ForwardSignal
<1>11. CASE ProcStep
  BY <1>6, <1>11 DEF ProcStep
<1> QED BY <1>1, <1>3, <1>4, <1>5, <1>10, <1>11 DEF Next

\* steam-runtime-launch-client and its service together: to each client its command is
\* a RemoteCommand, which runs once and whose exit status is the one that is reported.
THEOREM CommandsAreRemote == Spec => CommandIsRemote
<1>1. Init => Remote!Init
  BY RemoteInit
<1>2. IInv /\ [Next]_vars => [Remote!Next]_(Remote!vars)
  BY RemoteStep
<1> QED BY <1>1, <1>2, Invariance, PTL DEF Spec, CommandIsRemote, Remote!Spec

=============================================================================
