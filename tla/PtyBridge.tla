------------------------------ MODULE PtyBridge ------------------------------
(***************************************************************************)
(* steam-runtime-tools/pty-bridge.c: what is typed at a terminal is copied *)
(* to a pseudo-terminal, and what a child process prints there is copied   *)
(* to the terminal, by callbacks of one main loop and two small buffers.   *)
(* bin/launch-client.c owns the bridge, passes signals to it, and ends     *)
(* when it hears that the child has exited.                                *)
(*                                                                         *)
(* A byte is its number in the order in which it was sent.  The kernel's   *)
(* queues are bounded: a write takes as much as there is room for, or      *)
(* fails with EAGAIN.  A callback is one action: nothing but the kernel's  *)
(* queues can change while it runs, and how much it could read or write is *)
(* a choice anyway.                                                        *)
(***************************************************************************)
EXTENDS Naturals, Sequences

CONSTANTS
    BufferSize,    \* LINE_MAX
    TtySize,       \* room in the kernel for what is written to ptmx, or printed
    DestSize,      \* room in the kernel for output that nobody has read yet
    MaxTyped, MaxPrinted, MaxSignals,   \* bounds
    Faults         \* what may fail: some of FaultNames

FaultNames == {"init", "input", "ptmx", "dest"}

ASSUME SizesAssumption ==
    /\ BufferSize \in Nat \ {0} /\ TtySize \in Nat \ {0} /\ DestSize \in Nat \ {0}
    /\ MaxTyped \in Nat /\ MaxPrinted \in Nat /\ MaxSignals \in Nat

ASSUME FaultsAssumption == Faults \subseteq FaultNames

VARIABLES
    (* the user, and whoever sends signals *)
    typed,         \* history: what was typed
    source,        \* what was typed and not read yet
    eof,           \* nothing will be typed any more
    signalled,     \* history: signals that have to be forwarded
    pending,       \* the signalfd has the last of them
    (* the child, and the kernel's part of the pseudo-terminal *)
    child,         \* "running", "exited"
    unread,        \* number of bytes that were written to ptmx and not read
    printed,       \* history: what was printed
    tty_out,       \* what was printed and not read from ptmx yet
    (* the destination *)
    dest_used,     \* number of bytes that were written to it and not read
    broken,        \* nobody can read it any more
    (* the bridge *)
    client,        \* its owner: "new", "running", "finished", "failed"
    ptmx,          \* ptmx_fd is open
    input_fd,      \* input_source.fd is open
    input_buffer,
    input_read,    \* input_source.read_source exists
    input_write,   \* input_source.write_source: "none", "ptmx", or "dead": fd -1
    oob_buffer,
    output_fd,     \* output_dest.fd is open
    output_buffer,
    output_read,   \* output_dest.read_source exists
    output_write,  \* output_dest.write_source: "none", "dest", or "dead": fd -1
    text_received, oob_received,   \* history: what was written to ptmx
    out_received,  \* history: what was written to the destination
    (* terminal attributes *)
    same,          \* the input source and the destination are the same terminal
    attrs,         \* of the two terminals
    saved_attrs    \* in input_source and output_dest

userVars   == <<typed, source, eof>>
signalVars == <<signalled, pending>>
childVars  == <<child, unread, printed, tty_out>>
destVars   == <<dest_used, broken>>
inVars     == <<input_fd, input_buffer, input_read, input_write, oob_buffer>>
outVars    == <<output_fd, output_buffer, output_read, output_write>>
gotVars    == <<text_received, oob_received, out_received>>
attrVars   == <<same, attrs, saved_attrs>>
bridgeVars == <<client, ptmx, inVars, outVars, gotVars, attrVars>>
vars       == <<userVars, signalVars, childVars, destVars, bridgeVars>>

\* Faulty variants: the wrong end is written; the buffer is emptied.
TakeEnd(s, n) == SubSeq(s, Len(s) - n + 1, Len(s))
DropAll(s, n) == <<>>

\* What write() takes, and what memmove() keeps.
Take(s, n) == SubSeq(s, 1, n)
Drop(s, n) == SubSeq(s, n + 1, Len(s))

\* The space that read() may fill; faulty variant: the size of the buffer.
WholeBuffer(buffer) == BufferSize
Room(buffer)        == BufferSize - Len(buffer)

Running == client = "running"

-----------------------------------------------------------------------------
(* Terminal attributes: `i` stands for the input and local flags, `o` for  *)
(* the output flags.                                                       *)
Ends     == {"input", "output"}
Cooked   == [i |-> "cooked", o |-> "cooked"]
Modes    == [i : {"cooked", "raw"}, o : {"cooked", "raw"}]

\* The terminal at one end of the bridge.
TerminalOf(end) == IF same THEN "input" ELSE end

Raw(end, mode) == IF end = "input" THEN [mode EXCEPT !.i = "raw"]
                                   ELSE [mode EXCEPT !.o = "raw"]

\* bridge_fd_set_attributes(): first one end, then the other.
AttrsSet(end, a)  == [a EXCEPT ![TerminalOf(end)] = Raw(end, @)]
SavedAttrs(a)     == [end \in Ends |->
                        IF end = "input" THEN a[TerminalOf("input")]
                        ELSE AttrsSet("input", a)[TerminalOf("output")]]

\* bridge_fd_close(), which does nothing if the fd has been closed.
Restored(end, is_open, saved, a) ==
    IF is_open THEN [a EXCEPT ![TerminalOf(end)] = saved[end]] ELSE a

\* Faulty variant: in the order of initialization.
FinalizedInOrder(saved, a) ==
    Restored("output", output_fd, saved, Restored("input", input_fd, saved, a))

\* srt_pty_bridge_finalize()
Finalized(saved, a) ==
    Restored("input", input_fd, saved, Restored("output", output_fd, saved, a))

-----------------------------------------------------------------------------
Init ==
    /\ client = "new" /\ child = "running"
    /\ typed = <<>> /\ source = <<>> /\ eof = FALSE
    /\ input_fd = TRUE /\ input_buffer = <<>>
    /\ input_read = FALSE /\ input_write = "none" /\ text_received = <<>>
    /\ signalled = <<>> /\ pending = FALSE
    /\ oob_buffer = <<>> /\ oob_received = <<>>
    /\ ptmx = FALSE /\ unread = 0
    /\ printed = <<>> /\ tty_out = <<>>
    /\ output_fd = TRUE /\ output_buffer = <<>>
    /\ output_read = FALSE /\ output_write = "none"
    /\ dest_used = 0 /\ broken = FALSE /\ out_received = <<>>
    /\ same \in BOOLEAN
    /\ attrs = [end \in Ends |-> Cooked]
    /\ saved_attrs = [end \in Ends |-> Cooked]

-----------------------------------------------------------------------------
(* The kernel, the user, the child, and whoever reads the destination.     *)

UserTypes ==
    /\ ~eof /\ Len(typed) < MaxTyped
    /\ typed'  = Append(typed, Len(typed) + 1)
    /\ source' = Append(source, Len(typed) + 1)
    /\ UNCHANGED <<eof, signalVars, childVars, destVars, bridgeVars>>

\* The bridge cannot tell a hangup before all has been read from a later one.
UserHangsUp ==
    /\ ~eof /\ source = <<>>
    /\ eof' = TRUE
    /\ UNCHANGED <<typed, source, signalVars, childVars, destVars, bridgeVars>>

\* A signal that is pending already is not queued once more.
SignalArrives ==
    /\ ~pending /\ Len(signalled) < MaxSignals
    /\ signalled' = Append(signalled, Len(signalled) + 1)
    /\ pending'   = TRUE
    /\ UNCHANGED <<userVars, childVars, destVars, bridgeVars>>

ChildReads ==
    /\ child = "running"
    /\ \E n \in 1..unread : unread' = unread - n
    /\ UNCHANGED <<userVars, signalVars, child, printed, tty_out, destVars, bridgeVars>>

ChildPrints ==
    /\ Running /\ child = "running"
    /\ Len(tty_out) < TtySize /\ Len(printed) < MaxPrinted
    /\ printed' = Append(printed, Len(printed) + 1)
    /\ tty_out' = Append(tty_out, Len(printed) + 1)
    /\ UNCHANGED <<userVars, signalVars, child, unread, destVars, bridgeVars>>

ChildExits ==
    /\ Running /\ child = "running"
    /\ child' = "exited"
    /\ UNCHANGED <<userVars, signalVars, unread, printed, tty_out, destVars, bridgeVars>>

DestReads ==
    /\ ~broken
    /\ \E n \in 1..dest_used : dest_used' = dest_used - n
    /\ UNCHANGED <<userVars, signalVars, childVars, broken, bridgeVars>>

DestBreaks ==
    /\ "dest" \in Faults /\ ~broken
    /\ broken' = TRUE
    /\ UNCHANGED <<userVars, signalVars, childVars, dest_used, bridgeVars>>

-----------------------------------------------------------------------------
(* Start and end.                                                          *)

\* _srt_pty_bridge_initable_init(), which ends with enable_input().
Initable ==
    /\ client = "new" /\ client' = "running"
    /\ saved_attrs' = SavedAttrs(attrs)
    /\ attrs' = AttrsSet("output", AttrsSet("input", attrs))
    /\ ptmx' = TRUE /\ input_read' = TRUE /\ output_read' = TRUE
    /\ UNCHANGED <<userVars, signalVars, childVars, destVars, same, gotVars,
                   input_fd, input_buffer, input_write, oob_buffer,
                   output_fd, output_buffer, output_write>>

\* It fails after it has set the attributes, and the object is finalized.
InitableFails ==
    /\ client = "new" /\ "init" \in Faults /\ client' = "failed"
    /\ saved_attrs' = SavedAttrs(attrs)
    /\ attrs' = Finalized(SavedAttrs(attrs), AttrsSet("output", AttrsSet("input", attrs)))
    /\ input_fd' = FALSE /\ output_fd' = FALSE
    /\ UNCHANGED <<userVars, signalVars, childVars, destVars, same, gotVars, ptmx,
                   input_buffer, input_read, input_write, oob_buffer,
                   output_buffer, output_read, output_write>>

\* process_exited_cb() quits the main loop; dispose and finalize follow.
ClientFinishes ==
    /\ Running /\ child = "exited"
    /\ client' = "finished" /\ ptmx' = FALSE
    /\ input_fd' = FALSE /\ input_read' = FALSE /\ input_write' = "none"
    /\ output_fd' = FALSE /\ output_read' = FALSE /\ output_write' = "none"
    /\ attrs' = Finalized(saved_attrs, attrs)
    /\ UNCHANGED <<userVars, signalVars, childVars, destVars, same, saved_attrs,
                   gotVars, input_buffer, oob_buffer, output_buffer>>

-----------------------------------------------------------------------------
(* Input: writing to ptmx.                                                 *)

HasRoom(buffer) == Len(buffer) < BufferSize

\* Faulty variants: what was paused remains paused.
InputStays(buffer)  == input_read
OutputStays(buffer) == output_read

\* _srt_pty_bridge_enable_input(), for each of the two directions.
InputEnabled(buffer)  == input_read \/ (input_fd /\ HasRoom(buffer))
OutputEnabled(buffer) == output_read \/ (ptmx /\ HasRoom(buffer))

\* Faulty variants: as many bytes of text are erased as interrupts are written;
\* the interrupts are not erased.
EraseText(text, oob, n) ==
    /\ n \in 0..Len(oob) + Len(text)
    /\ oob_buffer'    = Drop(oob, n)
    /\ oob_received'  = oob_received \o Take(oob, IF n < Len(oob) THEN n ELSE Len(oob))
    /\ input_buffer'  = Drop(text, n)
    /\ text_received' = IF oob # <<>> \/ n > Len(text) THEN text_received
                        ELSE text_received \o Take(text, n)
InterruptsRepeat(text, oob, n) ==
    /\ n \in 0..Len(oob)
    /\ oob_received' = oob_received \o Take(oob, n) /\ oob_buffer' = oob
    /\ input_buffer' = text /\ UNCHANGED text_received

\* write() to ptmx takes n bytes: interrupts first.
TextOrInterrupts(text, oob, n) ==
    IF oob # <<>>
    THEN /\ n \in 0..Len(oob)
         /\ oob_buffer'   = Drop(oob, n)
         /\ oob_received' = oob_received \o Take(oob, n)
         /\ input_buffer' = text /\ UNCHANGED text_received
    ELSE /\ n \in 0..Len(text)
         /\ input_buffer'  = Drop(text, n)
         /\ text_received' = text_received \o Take(text, n)
         /\ oob_buffer' = oob /\ UNCHANGED oob_received

NothingTaken(text, oob) ==
    /\ input_buffer' = text /\ oob_buffer' = oob
    /\ UNCHANGED <<unread, text_received, oob_received>>

\* The outcomes of _srt_pty_bridge_write_ptmx().  "taken": what there is room
\* for is written, or there is nothing to be written.  "busy": EAGAIN, or EIO
\* when nobody has the terminal open.  "failed": any other error.
Outcomes == {"taken", "busy", "failed"}

WritePtmx(outcome, text, oob) ==
    /\ ptmx
    /\ outcome # "taken" => (text # <<>> \/ oob # <<>>)
    /\ \/ /\ outcome = "taken"
          /\ \E n \in 0..TtySize - unread :
                /\ n = 0 => text = <<>> /\ oob = <<>>
                /\ TextOrInterrupts(text, oob, n)
                /\ unread' = unread + n
          /\ ptmx' = TRUE /\ output_read' = OutputEnabled(output_buffer)
       \/ /\ outcome = "busy"
          /\ unread = TtySize \/ child = "exited"
          /\ NothingTaken(text, oob) /\ UNCHANGED <<ptmx, output_read>>
       \/ /\ outcome = "failed" /\ "ptmx" \in Faults
          /\ NothingTaken(text, oob)
          /\ ptmx' = FALSE /\ output_read' = FALSE

\* _srt_pty_bridge_try_write_ptmx(): unless a write is pending, write now, and
\* watch ptmx, or fd -1 if it has just been closed, if something is left.
TryWritePtmx(outcome, text, oob) ==
    IF input_write # "none"
    THEN /\ outcome = "pending" /\ NothingTaken(text, oob)
         /\ UNCHANGED <<ptmx, input_write, output_read>>
    ELSE /\ outcome \in Outcomes /\ WritePtmx(outcome, text, oob)
         /\ input_write' = IF input_buffer' = <<>> /\ oob_buffer' = <<>> THEN "none"
                           ELSE IF ptmx' THEN "ptmx" ELSE "dead"

\* Only a write that has succeeded calls _srt_pty_bridge_enable_input().
InputAfter(outcome) ==
    input_read' = IF outcome = "taken" THEN InputEnabled(input_buffer') ELSE input_read

inputOnly == <<child, printed, tty_out, destVars, client, input_fd, output_fd,
               output_buffer, output_write, out_received, attrVars>>

\* _srt_pty_bridge_ptmx_out_cb()
PtmxOutCb ==
    /\ input_write = "ptmx"
    /\ \E outcome \in Outcomes :
          /\ WritePtmx(outcome, input_buffer, oob_buffer)
          /\ input_write' = IF \/ outcome = "failed"
                               \/ input_buffer' = <<>> /\ oob_buffer' = <<>>
                            THEN "none" ELSE "ptmx"
          /\ InputAfter(outcome)
    /\ UNCHANGED <<userVars, signalVars, inputOnly>>

\* _srt_pty_bridge_handle_signal(), called when the signalfd is readable.
HandleSignal ==
    /\ Running /\ pending /\ pending' = FALSE
    /\ \/ /\ ptmx
          /\ \E outcome \in Outcomes \cup {"pending"} :
                /\ TryWritePtmx(outcome, input_buffer, Append(oob_buffer, Len(signalled)))
                /\ InputAfter(outcome)
       \/ /\ ~ptmx
          /\ UNCHANGED <<ptmx, input_buffer, input_read, input_write, oob_buffer,
                         output_read, unread, text_received, oob_received>>
    /\ UNCHANGED <<userVars, signalled, inputOnly>>

-----------------------------------------------------------------------------
(* Reading input: _srt_pty_bridge_input_in_cb().                           *)

CloseInput ==
    /\ input_fd' = FALSE /\ input_read' = FALSE
    /\ attrs' = Restored("input", input_fd, saved_attrs, attrs)
    /\ UNCHANGED <<userVars, signalVars, childVars, destVars, client, ptmx,
                   input_buffer, input_write, oob_buffer, outVars, gotVars,
                   same, saved_attrs>>

\* There is nowhere to write to, or reading fails.
InputCloses ==
    /\ input_read
    /\ \/ ~ptmx /\ (source # <<>> \/ eof)
       \/ ptmx /\ "input" \in Faults
    /\ CloseInput

\* At the end of the input n is 0, and the source stays as it is.
InputReads ==
    /\ input_read /\ ptmx /\ HasRoom(input_buffer)
    /\ \E n \in 0..Len(source), outcome \in Outcomes \cup {"pending"} :
          /\ n = 0 => source = <<>> /\ eof
          /\ n <= Room(input_buffer)
          /\ source' = Drop(source, n)
          /\ TryWritePtmx(outcome, input_buffer \o Take(source, n), oob_buffer)
    /\ input_read' = HasRoom(input_buffer')
    /\ UNCHANGED <<typed, eof, signalVars, inputOnly>>

-----------------------------------------------------------------------------
(* Output.                                                                 *)

\* The outcomes of _srt_pty_bridge_write_output().
WriteOutput(outcome, buffer) ==
    \/ /\ outcome = "taken"
       /\ \E n \in 0..Len(buffer) :
             /\ n <= DestSize - dest_used
             /\ IF n = 0 THEN buffer = <<>> ELSE output_fd /\ ~broken
             /\ output_buffer' = Drop(buffer, n)
             /\ out_received' = out_received \o Take(buffer, n)
             /\ dest_used' = dest_used + n
       /\ UNCHANGED <<output_fd, attrs>>
    \/ /\ buffer # <<>> /\ output_buffer' = buffer
       /\ UNCHANGED <<out_received, dest_used>>
       /\ \/ /\ outcome = "busy"
             /\ output_fd /\ ~broken /\ dest_used = DestSize
             /\ UNCHANGED <<output_fd, attrs>>
          \/ /\ outcome = "failed"
             /\ broken \/ ~output_fd
             /\ output_fd' = FALSE
             /\ attrs' = Restored("output", output_fd, saved_attrs, attrs)

\* _srt_pty_bridge_try_write_output().  BRIDGE_FD_HANGUP is never set, so the
\* branch that discards the output is never taken.
TryWriteOutput(outcome, buffer) ==
    IF output_write # "none"
    THEN /\ outcome = "pending" /\ output_buffer' = buffer
         /\ UNCHANGED <<out_received, dest_used, output_fd, output_write, attrs>>
    ELSE /\ outcome \in Outcomes /\ WriteOutput(outcome, buffer)
         /\ output_write' = IF output_buffer' = <<>> THEN "none"
                            ELSE IF output_fd' THEN "dest" ELSE "dead"

outputOnly == <<userVars, signalVars, child, unread, printed, broken, client, input_fd,
                input_buffer, oob_buffer, text_received, oob_received, same, saved_attrs>>

\* _srt_pty_bridge_output_out_cb()
OutputOutCb ==
    /\ output_write = "dest"
    /\ \E outcome \in Outcomes :
          /\ WriteOutput(outcome, output_buffer)
          /\ output_write' = IF outcome = "failed" \/ output_buffer' = <<>>
                             THEN "none" ELSE "dest"
          /\ input_read'  = IF outcome = "taken" THEN InputEnabled(input_buffer) ELSE input_read
          /\ output_read' = IF outcome = "taken" THEN OutputEnabled(output_buffer')
                                                ELSE output_read
    /\ UNCHANGED <<outputOnly, tty_out, ptmx, input_write>>

\* _srt_pty_bridge_ptmx_in_cb()
PtmxInCb ==
    /\ output_read /\ ptmx /\ HasRoom(output_buffer)
    /\ \E n \in 1..Len(tty_out), outcome \in Outcomes \cup {"pending"} :
          /\ n <= Room(output_buffer)
          /\ tty_out' = Drop(tty_out, n)
          /\ TryWriteOutput(outcome, output_buffer \o Take(tty_out, n))
          /\ input_read' = IF outcome = "taken" THEN InputEnabled(input_buffer)
                                              ELSE input_read
    /\ output_read' = HasRoom(output_buffer')
    /\ UNCHANGED <<outputOnly, ptmx, input_write>>

\* Reading from ptmx fails with an error other than EAGAIN and EIO.
PtmxReadFails ==
    /\ output_read /\ ptmx /\ "ptmx" \in Faults
    /\ ptmx' = FALSE /\ output_read' = FALSE /\ input_write' = "none"
    /\ UNCHANGED <<userVars, signalVars, childVars, destVars, client, input_fd,
                   input_buffer, input_read, oob_buffer, output_fd, output_buffer,
                   output_write, gotVars, attrVars>>

-----------------------------------------------------------------------------
EnvStep ==
    \/ UserTypes \/ UserHangsUp \/ SignalArrives \/ ChildReads \/ ChildPrints
    \/ ChildExits \/ DestReads \/ DestBreaks

OwnerStep == Initable \/ InitableFails \/ ClientFinishes

InputStep  == PtmxOutCb \/ HandleSignal \/ InputCloses \/ InputReads
OutputStep == OutputOutCb \/ PtmxInCb \/ PtmxReadFails

Next == EnvStep \/ OwnerStep \/ InputStep \/ OutputStep

Spec == Init /\ [][Next]_vars

-----------------------------------------------------------------------------
(* Fairness: the main loop dispatches every source that is ready.          *)
LiveSpec ==
    /\ Spec
    /\ WF_vars(Initable) /\ WF_vars(PtmxOutCb) /\ WF_vars(HandleSignal)
    /\ WF_vars(InputReads) /\ WF_vars(OutputOutCb) /\ WF_vars(PtmxInCb)

-----------------------------------------------------------------------------
(* Properties.                                                             *)

Bytes(max) == Seq(1..max)

TypeOK ==
    /\ typed \in Bytes(MaxTyped) /\ source \in Bytes(MaxTyped) /\ eof \in BOOLEAN
    /\ signalled \in Bytes(MaxSignals) /\ pending \in BOOLEAN
    /\ child \in {"running", "exited"} /\ unread \in 0..TtySize
    /\ printed \in Bytes(MaxPrinted) /\ tty_out \in Bytes(MaxPrinted)
    /\ Len(tty_out) <= TtySize
    /\ dest_used \in 0..DestSize /\ broken \in BOOLEAN
    /\ client \in {"new", "running", "finished", "failed"}
    /\ ptmx \in BOOLEAN /\ input_fd \in BOOLEAN /\ output_fd \in BOOLEAN
    /\ input_buffer \in Bytes(MaxTyped) /\ Len(input_buffer) <= BufferSize
    /\ output_buffer \in Bytes(MaxPrinted) /\ Len(output_buffer) <= BufferSize
    /\ oob_buffer \in Bytes(MaxSignals)
    /\ input_read \in BOOLEAN /\ output_read \in BOOLEAN
    /\ input_write \in {"none", "ptmx", "dead"}
    /\ output_write \in {"none", "dest", "dead"}
    /\ text_received \in Bytes(MaxTyped) /\ oob_received \in Bytes(MaxSignals)
    /\ out_received \in Bytes(MaxPrinted)
    /\ same \in BOOLEAN
    /\ attrs \in [Ends -> Modes] /\ saved_attrs \in [Ends -> Modes]

\* Between two callbacks nothing has been forgotten: what is buffered is going to
\* be written as soon as its reader makes room, and where there is room, reading
\* is not paused.  Each of the four sources is destroyed in one callback and has
\* to be created again by another (enable_input(), try_write_...()).
NothingForgotten ==
    Running =>
      /\ ptmx /\ (input_buffer # <<>> \/ oob_buffer # <<>>) => input_write = "ptmx"
      /\ output_fd /\ output_buffer # <<>> => output_write = "dest"
      /\ ptmx /\ input_fd /\ HasRoom(input_buffer) => input_read
      /\ ptmx /\ HasRoom(output_buffer) => output_read

Linked  == client = "new" \/ (Running /\ ptmx)
Pending == IF pending THEN <<Len(signalled)>> ELSE <<>>

\* Every byte is in one place: read by nobody yet, in a buffer, or written, in the
\* order in which it was sent, whatever part of it each read() and write() took.
\* (What is in a buffer when an fd is closed remains there.)
NothingLost ==
    /\ typed   = text_received \o input_buffer \o source
    /\ printed = out_received \o output_buffer \o tty_out
    /\ Linked => signalled = oob_received \o oob_buffer \o Pending

\* The three channels that the bridge implements.
Text == INSTANCE Channel WITH MaxSent <- MaxTyped,
    sent <- typed, received <- text_received,
    open <- Linked
Interrupts == INSTANCE Channel WITH MaxSent <- MaxSignals,
    sent <- signalled, received <- oob_received,
    open <- Linked
Output == INSTANCE Channel WITH MaxSent <- MaxPrinted,
    sent <- printed, received <- out_received,
    open <- client = "new" \/ (Running /\ output_fd)

TextIsAChannel        == Text!Spec
InterruptsAreAChannel == Interrupts!Spec
OutputIsAChannel      == Output!Spec

\* What the child reads is what was typed; Ctrl+C and the like come in between
\* but never replace or reorder it; and what it prints arrives.
ImplementsChannels ==
    TextIsAChannel /\ InterruptsAreAChannel /\ OutputIsAChannel

\* Whatever the child prints (it stops in the end, MaxPrinted) is passed on as long
\* as the destination takes it, although the child may never read its input.
OutputFlows ==
    []<>(dest_used < DestSize) =>
        []<>(out_received = printed \/ ~Running \/ ~ptmx \/ broken)

\* Whatever is typed reaches a child that reads, although nobody may read what
\* it prints.
InputFlows ==
    []<>(unread < TtySize) =>
        []<>(text_received = typed \/ ~Running \/ ~ptmx \/ ~input_fd)

\* Unless the input source had to be closed before the destination, the terminal
\* has its own attributes again when the bridge has gone, although each end saved
\* what the other may have changed already.
AttrsRestored ==
    [][(client' # client /\ client' \in {"finished", "failed"} /\ (same => input_fd))
          => attrs' = [end \in Ends |-> Cooked]]_vars
=============================================================================
