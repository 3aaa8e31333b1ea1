--------------------------- MODULE PtyBridgeProofs ---------------------------
(***************************************************************************)
(* What PtyBridge promises, for every size of its buffers: callbacks never *)
(* forget each other's sources, no byte is lost, and each direction is a   *)
(* Channel.                                                                *)
(*                                                                         *)
(* All of it rests on one fact about a write of n bytes: what was received *)
(* before, followed by what was to be written, is what is received after,  *)
(* followed by what is left (Flow).                                        *)
(***************************************************************************)
EXTENDS PtyBridge, SequenceTheorems, TLAPS

\* What a write does to the bytes `got` by the receiver and `buffered` here.
Flow(got, buffered, got2, buffered2) ==
    /\ got2 \o buffered2 = got \o buffered
    /\ Len(got) <= Len(got2) /\ Len(buffered2) <= Len(buffered)

\* What a read does to the bytes `buffered` here and `queued` there.
Moved(got, buffered, queued, buffered2, queued2) ==
    (got \o buffered2) \o queued2 = (got \o buffered) \o queued

\* Which sources can exist, and what the fds of the others are.
SourcesOK ==
    /\ ~Running => /\ ~input_read /\ ~output_read
                   /\ input_write = "none" /\ output_write = "none"
    /\ client = "new" => /\ input_fd /\ output_fd
                         /\ input_buffer = <<>> /\ output_buffer = <<>>
                         /\ oob_buffer = <<>>
    /\ input_read => input_fd
    /\ output_read => ptmx
    /\ ptmx => Running
    /\ input_write = "ptmx" => ptmx
    /\ input_write = "dead" => ~ptmx
    /\ output_write = "dest" => output_fd
    /\ output_write = "dead" => ~output_fd
    /\ pending => Len(signalled) \in 1..MaxSignals

\* The attributes of the terminals, and those that were saved.
RawIn    == [i |-> "raw", o |-> "cooked"]
RawOut   == [i |-> "cooked", o |-> "raw"]
RawBoth  == [i |-> "raw", o |-> "raw"]
AttrsOK ==
    /\ client = "new" => attrs = [end \in Ends |-> Cooked]
    /\ Running /\ ~same =>
         /\ saved_attrs["input"] = Cooked /\ saved_attrs["output"] = Cooked
         /\ attrs["input"]  = IF input_fd THEN RawIn ELSE Cooked
         /\ attrs["output"] = IF output_fd THEN RawOut ELSE Cooked
    /\ Running /\ same =>
         /\ saved_attrs["input"] = Cooked /\ saved_attrs["output"] = RawIn
         /\ attrs["output"] = Cooked
         /\ input_fd => attrs["input"] = IF output_fd THEN RawBoth ELSE RawIn

\* The type invariant in three parts.
SequenceTypes ==
    /\ typed \in Bytes(MaxTyped) /\ source \in Bytes(MaxTyped)
    /\ signalled \in Bytes(MaxSignals) /\ printed \in Bytes(MaxPrinted)
    /\ tty_out \in Bytes(MaxPrinted) /\ Len(tty_out) <= TtySize
    /\ input_buffer \in Bytes(MaxTyped) /\ Len(input_buffer) <= BufferSize
    /\ output_buffer \in Bytes(MaxPrinted) /\ Len(output_buffer) <= BufferSize
    /\ oob_buffer \in Bytes(MaxSignals)
    /\ text_received \in Bytes(MaxTyped) /\ oob_received \in Bytes(MaxSignals)
    /\ out_received \in Bytes(MaxPrinted)
OtherTypes ==
    /\ eof \in BOOLEAN /\ pending \in BOOLEAN
    /\ child \in {"running", "exited"} /\ unread \in 0..TtySize
    /\ dest_used \in 0..DestSize /\ broken \in BOOLEAN
    /\ same \in BOOLEAN
    /\ attrs \in [Ends -> Modes] /\ saved_attrs \in [Ends -> Modes]
SourceTypes ==
    /\ client \in {"new", "running", "finished", "failed"}
    /\ ptmx \in BOOLEAN /\ input_fd \in BOOLEAN /\ output_fd \in BOOLEAN
    /\ input_read \in BOOLEAN /\ output_read \in BOOLEAN
    /\ input_write \in {"none", "ptmx", "dead"}
    /\ output_write \in {"none", "dest", "dead"}

IInv == TypeOK /\ SourcesOK /\ NothingForgotten /\ NothingLost

-----------------------------------------------------------------------------
(* Sequences.                                                              *)

\* Splitting a sequence.
LEMMA Split ==
  ASSUME NEW S, NEW s \in Seq(S), NEW n \in 0..Len(s)
  PROVE  /\ Take(s, n) \in Seq(S) /\ Drop(s, n) \in Seq(S)
         /\ Take(s, n) \o Drop(s, n) = s
         /\ Len(Take(s, n)) = n /\ Len(Drop(s, n)) = Len(s) - n
<1>1. Len(s) \in Nat /\ n \in Int /\ n + 1 \in Int
  BY LenProperties
<1>2. \A i \in 1..Len(s) : s[i] \in S
  BY ElementOfSeq
<1>3. \A i \in 1..n : s[i] \in S
  BY <1>1, <1>2
<1>4. \A i \in n + 1 .. Len(s) : s[i] \in S
  BY <1>1, <1>2
<1>5. Take(s, n) \in Seq(S) /\ Len(Take(s, n)) = n
  BY <1>1, <1>3, SubSeqProperties DEF Take
<1>6. Drop(s, n) \in Seq(S) /\ Len(Drop(s, n)) = Len(s) - n
  BY <1>1, <1>4, SubSeqProperties DEF Drop
<1>7. SubSeq(s, 1, n) \o SubSeq(s, n + 1, Len(s)) = SubSeq(s, 1, Len(s))
  <2>1. /\ 1 \in 1 .. Len(s) + 1 /\ n \in 1 - 1 .. Len(s)
        /\ Len(s) \in n .. Len(s)
    BY <1>1
  <2> QED
    BY <2>1, ConcatAdjacentSubSeq, Zenon
<1>8. SubSeq(s, 1, Len(s)) = s
  BY SubSeqFull, Zenon
<1> QED
  BY <1>5, <1>6, <1>7, <1>8, Zenon DEF Take, Drop

\* A write of n bytes.
LEMMA WriteFlow ==
  ASSUME NEW S, NEW g \in Seq(S), NEW s \in Seq(S), NEW n \in 0..Len(s)
  PROVE  /\ g \o Take(s, n) \in Seq(S) /\ Drop(s, n) \in Seq(S)
         /\ Len(Drop(s, n)) <= Len(s)
         /\ Flow(g, s, g \o Take(s, n), Drop(s, n))
<1>1. /\ Take(s, n) \in Seq(S) /\ Drop(s, n) \in Seq(S)
      /\ Take(s, n) \o Drop(s, n) = s
      /\ Len(Take(s, n)) = n /\ Len(Drop(s, n)) = Len(s) - n
  BY Split, Zenon
<1>0. ASSUME NEW u \in Seq(S), NEW v \in Seq(S), NEW w \in Seq(S)
      PROVE  (u \o v) \o w = u \o (v \o w)
  BY ONLY ConcatAssociative
<1>2. (g \o Take(s, n)) \o Drop(s, n) = g \o (Take(s, n) \o Drop(s, n))
  BY <1>0, <1>1, Zenon
<1>3. g \o Take(s, n) \in Seq(S) /\ Len(g \o Take(s, n)) = Len(g) + n
  BY <1>1, ConcatProperties
<1>4. Len(g) \in Nat /\ Len(s) \in Nat
  BY LenProperties
<1>5. Len(g) <= Len(g \o Take(s, n)) /\ Len(Drop(s, n)) <= Len(s)
  BY <1>1, <1>3, <1>4
<1> QED
  BY <1>1, <1>2, <1>3, <1>5, Zenon DEF Flow

\* Writing nothing.
LEMMA NoFlow ==
  ASSUME NEW S, NEW g \in Seq(S), NEW s \in Seq(S)
  PROVE  Flow(g, s, g, s)
BY LenProperties DEF Flow

\* The order of concatenation does not matter.
Assoc(T) == \A u, v, w \in T : (u \o v) \o w = u \o (v \o w)

\* Concatenation is associative.
LEMMA Associative == \A S : Assoc(Seq(S))
<1> SUFFICES ASSUME NEW S
             PROVE  \A u, v, w \in Seq(S) : (u \o v) \o w = u \o (v \o w)
  BY DEF Assoc
<1> QED
  BY ConcatAssociative

\* Bytes go from a queue q to a buffer b, and the receiver has g.
Read(max, got, buffered, queued, buffered2, queued2, n) ==
    /\ buffered2 \in Bytes(max) /\ queued2 \in Bytes(max)
    /\ Len(buffered2) = Len(buffered) + n /\ Len(queued2) = Len(queued) - n
    /\ Moved(got, buffered, queued, buffered2, queued2)

\* A read that is followed by a write of a part of the buffer.
LEMMA ReadFlow ==
  ASSUME NEW m, NEW g \in Bytes(m), NEW b \in Bytes(m), NEW q \in Bytes(m),
         NEW n \in 0..Len(q)
  PROVE  Read(m, g, b, q, b \o Take(q, n), Drop(q, n), n)
<1> DEFINE S == 1..m
<1>0. g \in Seq(S) /\ b \in Seq(S) /\ q \in Seq(S)
  BY DEF Bytes
<1> HIDE DEF S
<1>1. \A u, v, w \in Seq(S) : (u \o v) \o w = u \o (v \o w)
  <2>1. Assoc(Seq(S))
    BY Associative, Zenon
  <2> QED
    BY <2>1, Zenon DEF Assoc
<1>2. /\ Take(q, n) \in Seq(S) /\ Drop(q, n) \in Seq(S)
      /\ Take(q, n) \o Drop(q, n) = q
      /\ Len(Take(q, n)) = n /\ Len(Drop(q, n)) = Len(q) - n
  BY <1>0, Split, Zenon
<1>3. g \o b \in Seq(S)
  BY <1>0, ConcatProperties, Zenon
<1>4. (g \o b) \o Take(q, n) = g \o (b \o Take(q, n))
  BY <1>0, <1>1, <1>2, Zenon
<1>5. ((g \o b) \o Take(q, n)) \o Drop(q, n) = (g \o b) \o (Take(q, n) \o Drop(q, n))
  BY <1>0, <1>1, <1>2, <1>3, Zenon
<1>6. b \o Take(q, n) \in Seq(S) /\ Len(b \o Take(q, n)) = Len(b) + Len(Take(q, n))
  BY <1>0, <1>2, ConcatProperties, Zenon
<1> QED
  BY <1>2, <1>4, <1>5, <1>6, Zenon DEF Moved, Read, Bytes, S

\* What has been received is the beginning of what was sent.
LEMMA ReceivedPrefix ==
  ASSUME NEW S, NEW g \in Seq(S), NEW r \in Seq(S)
  PROVE  /\ SubSeq(g \o r, 1, Len(g)) = g
         /\ Len(g) \in Nat /\ Len(g \o r) \in Nat /\ Len(g) <= Len(g \o r)
<1>1. Len(g) \in Nat /\ Len(r) \in Nat
  BY LenProperties, Zenon
<1>2. g \o r \in Seq(S) /\ Len(g \o r) = Len(g) + Len(r)
  BY ConcatProperties, Zenon
<1>3. Len(g) <= Len(g \o r) /\ Len(g \o r) \in Nat
  BY <1>1, <1>2
<1>4. CASE g = <<>>
  <2>1. Len(g) = 0
    BY <1>4, EmptySeq, Zenon
  <2>2. Len(g) < 1 /\ 1 \in Int /\ Len(g) \in Int
    BY <2>1
  <2>3. SubSeq(g \o r, 1, Len(g)) = <<>>
    BY <2>2, SubSeqEmpty, Zenon
  <2> QED
    BY <1>1, <1>3, <1>4, <2>3, Zenon
<1>5. CASE g # <<>>
  <2>1. Len(g) \in Nat \ {0}
    BY <1>5, EmptySeq, Zenon
  <2>2. 1 \in 1..Len(g) /\ Len(g) \in 1..Len(g)
    BY <2>1
  <2>3. SubSeq(g \o r, 1, Len(g)) = SubSeq(g, 1, Len(g))
    BY <2>2, SubSeqOfConcat1, Zenon
  <2>4. SubSeq(g, 1, Len(g)) = g
    BY SubSeqFull, Zenon
  <2> QED
    BY <1>1, <1>3, <2>3, <2>4, Zenon
<1> QED
  BY <1>4, <1>5

-----------------------------------------------------------------------------
(* What the functions that write do, in terms of Flow.                     *)

\* Of _srt_pty_bridge_write_ptmx() and _srt_pty_bridge_try_write_ptmx().
Written(text, oob) ==
    /\ input_buffer' \in Bytes(MaxTyped) /\ text_received' \in Bytes(MaxTyped)
    /\ oob_buffer' \in Bytes(MaxSignals) /\ oob_received' \in Bytes(MaxSignals)
    /\ Flow(text_received, text, text_received', input_buffer')
    /\ Flow(oob_received, oob, oob_received', oob_buffer')
    /\ unread' \in 0..TtySize

\* A write that takes nothing.
LEMMA NothingTakenWritten ==
  ASSUME TypeOK, NEW text \in Bytes(MaxTyped), NEW oob \in Bytes(MaxSignals),
         NothingTaken(text, oob)
  PROVE  Written(text, oob)
<1>1. /\ text_received \in Bytes(MaxTyped) /\ oob_received \in Bytes(MaxSignals)
      /\ unread \in 0..TtySize
  BY DEF TypeOK
<1>2. /\ Flow(text_received, text, text_received, text)
      /\ Flow(oob_received, oob, oob_received, oob)
  BY <1>1, NoFlow, Zenon DEF Bytes
<1> QED
  BY <1>1, <1>2, Zenon DEF Written, NothingTaken

\* A write that takes some of the interrupts, or of the text.
LEMMA TakenWritten ==
  ASSUME TypeOK, NEW text \in Bytes(MaxTyped), NEW oob \in Bytes(MaxSignals),
         NEW n, TextOrInterrupts(text, oob, n),
         unread' \in 0..TtySize
  PROVE  Written(text, oob)
<1>1. /\ text_received \in Bytes(MaxTyped) /\ oob_received \in Bytes(MaxSignals)
  BY DEF TypeOK
<1>2. CASE oob # <<>>
  <2>1. /\ n \in 0..Len(oob) /\ oob_buffer' = Drop(oob, n)
        /\ oob_received' = oob_received \o Take(oob, n)
        /\ input_buffer' = text /\ text_received' = text_received
    BY <1>2 DEF TextOrInterrupts
  <2>2. /\ oob_received \o Take(oob, n) \in Bytes(MaxSignals)
        /\ Drop(oob, n) \in Bytes(MaxSignals)
        /\ Flow(oob_received, oob, oob_received \o Take(oob, n), Drop(oob, n))
    BY <1>1, <2>1, WriteFlow, Zenon DEF Bytes
  <2>3. Flow(text_received, text, text_received, text)
    BY <1>1, NoFlow, Zenon DEF Bytes
  <2> QED
    BY <1>1, <2>1, <2>2, <2>3, Zenon DEF Written
<1>3. CASE oob = <<>>
  <2>1. /\ n \in 0..Len(text) /\ input_buffer' = Drop(text, n)
        /\ text_received' = text_received \o Take(text, n)
        /\ oob_buffer' = oob /\ oob_received' = oob_received
    BY <1>3 DEF TextOrInterrupts
  <2>2. /\ text_received \o Take(text, n) \in Bytes(MaxTyped)
        /\ Drop(text, n) \in Bytes(MaxTyped)
        /\ Flow(text_received, text, text_received \o Take(text, n), Drop(text, n))
    BY <1>1, <2>1, WriteFlow, Zenon DEF Bytes
  <2>3. Flow(oob_received, oob, oob_received, oob)
    BY <1>1, NoFlow, Zenon DEF Bytes
  <2> QED
    BY <1>1, <2>1, <2>2, <2>3, Zenon DEF Written
<1> QED
  BY <1>2, <1>3

\* Whatever the outcome, and what it means for the sources.
LEMMA WritePtmxEffect ==
  ASSUME TypeOK, NEW text \in Bytes(MaxTyped), NEW oob \in Bytes(MaxSignals),
         NEW outcome, WritePtmx(outcome, text, oob)
  PROVE  /\ Written(text, oob) /\ ptmx
         /\ \/ outcome = "taken" /\ ptmx' = TRUE /\ output_read' = OutputEnabled(output_buffer)
            \/ outcome = "busy" /\ NothingTaken(text, oob) /\ UNCHANGED <<ptmx, output_read>>
            \/ outcome = "failed" /\ NothingTaken(text, oob) /\ ptmx' = FALSE /\ output_read' = FALSE
<1>1. CASE outcome = "taken"
  <2>1. PICK n \in 0..TtySize - unread :
              TextOrInterrupts(text, oob, n) /\ unread' = unread + n
    BY <1>1 DEF WritePtmx
  <2>2. unread \in 0..TtySize /\ TtySize \in Nat
    BY SizesAssumption DEF TypeOK
  <2>3. unread' \in 0..TtySize
    BY <2>1, <2>2
  <2>4. Written(text, oob)
    BY <2>1, <2>3, TakenWritten, Zenon
  <2> QED
    BY <1>1, <2>4, Zenon DEF WritePtmx
<1>2. CASE outcome # "taken"
  <2>1. NothingTaken(text, oob)
    BY <1>2, Zenon DEF WritePtmx
  <2>2. Written(text, oob)
    BY <2>1, NothingTakenWritten, Zenon
  <2> QED
    BY <1>2, <2>1, <2>2, Zenon DEF WritePtmx
<1> QED
  BY <1>1, <1>2

\* The same for try_write_ptmx(), which also decides about the source.
LEMMA TryWritePtmxEffect ==
  ASSUME TypeOK, NEW text \in Bytes(MaxTyped), NEW oob \in Bytes(MaxSignals),
         NEW outcome, TryWritePtmx(outcome, text, oob)
  PROVE  /\ Written(text, oob)
         /\ \/ /\ outcome = "pending" /\ input_write # "none" /\ NothingTaken(text, oob)
               /\ UNCHANGED <<ptmx, output_read, input_write>>
            \/ /\ outcome \in Outcomes /\ ptmx
               /\ input_write' = IF input_buffer' = <<>> /\ oob_buffer' = <<>> THEN "none"
                                 ELSE IF ptmx' THEN "ptmx" ELSE "dead"
               /\ \/ outcome = "taken" /\ ptmx' = TRUE
                     /\ output_read' = OutputEnabled(output_buffer)
                  \/ outcome = "busy" /\ NothingTaken(text, oob) /\ UNCHANGED <<ptmx, output_read>>
                  \/ outcome = "failed" /\ NothingTaken(text, oob)
                     /\ ptmx' = FALSE /\ output_read' = FALSE
<1>1. CASE input_write # "none"
  <2>1. /\ outcome = "pending" /\ NothingTaken(text, oob)
        /\ UNCHANGED <<ptmx, output_read, input_write>>
    BY <1>1, Zenon DEF TryWritePtmx
  <2> QED
    BY <1>1, <2>1, NothingTakenWritten, Zenon
<1>2. CASE input_write = "none"
  <2>1. /\ outcome \in Outcomes /\ WritePtmx(outcome, text, oob)
        /\ input_write' = IF input_buffer' = <<>> /\ oob_buffer' = <<>> THEN "none"
                          ELSE IF ptmx' THEN "ptmx" ELSE "dead"
    BY <1>2, Zenon DEF TryWritePtmx
  <2> QED
    BY <2>1, WritePtmxEffect, Zenon
<1> QED
  BY <1>1, <1>2

\* Of write_output() and try_write_output(): the bytes.
Passed(buffer) ==
    /\ output_buffer' \in Bytes(MaxPrinted) /\ out_received' \in Bytes(MaxPrinted)
    /\ Flow(out_received, buffer, out_received', output_buffer')
    /\ dest_used' \in 0..DestSize

\* And the fd, with the attributes of its terminal.
Kept(buffer) ==
    /\ output_buffer' = buffer /\ buffer # <<>>
    /\ UNCHANGED <<out_received, dest_used>>

\* Whatever its outcome, write_output() loses no output.
LEMMA WriteOutputEffect ==
  ASSUME TypeOK, NEW buffer \in Bytes(MaxPrinted), NEW outcome,
         WriteOutput(outcome, buffer)
  PROVE  /\ Passed(buffer)
         /\ \/ /\ outcome = "taken" /\ UNCHANGED <<output_fd, attrs>>
               /\ output_fd \/ out_received' = out_received
            \/ /\ outcome = "busy" /\ Kept(buffer) /\ UNCHANGED <<output_fd, attrs>>
            \/ /\ outcome = "failed" /\ Kept(buffer) /\ output_fd' = FALSE
               /\ attrs' = Restored("output", output_fd, saved_attrs, attrs)
<1>1. /\ out_received \in Bytes(MaxPrinted) /\ dest_used \in 0..DestSize
      /\ DestSize \in Nat
  BY SizesAssumption DEF TypeOK
<1>2. CASE buffer # <<>> /\ output_buffer' = buffer /\ UNCHANGED <<out_received, dest_used>>
           /\ outcome \in {"busy", "failed"}
  <2>1. Flow(out_received, buffer, out_received, buffer)
    BY <1>1, NoFlow, Zenon DEF Bytes
  <2>2. Passed(buffer)
    BY <1>1, <1>2, <2>1, Zenon DEF Passed
  <2> QED
    BY <1>2, <2>2, Zenon DEF WriteOutput, Kept
<1>3. CASE outcome = "taken" /\ UNCHANGED <<output_fd, attrs>>
  <2>1. PICK n \in 0..Len(buffer) :
             /\ n <= DestSize - dest_used
             /\ IF n = 0 THEN buffer = <<>> ELSE output_fd /\ ~broken
             /\ output_buffer' = Drop(buffer, n)
             /\ out_received' = out_received \o Take(buffer, n)
             /\ dest_used' = dest_used + n
    BY <1>3 DEF WriteOutput
  <2>2. Len(buffer) \in Nat
    BY LenProperties DEF Bytes
  <2>3. dest_used' \in 0..DestSize
    BY <1>1, <2>1, <2>2
  <2>4. /\ out_received \o Take(buffer, n) \in Bytes(MaxPrinted)
        /\ Drop(buffer, n) \in Bytes(MaxPrinted)
        /\ Flow(out_received, buffer, out_received \o Take(buffer, n), Drop(buffer, n))
    BY <1>1, WriteFlow, Zenon DEF Bytes
  <2>5. Passed(buffer)
    BY <2>1, <2>3, <2>4, Zenon DEF Passed
  <2>6. ASSUME n = 0 PROVE out_received' = out_received
    <3>1. Take(buffer, 0) = <<>>
      BY SubSeqEmpty DEF Take
    <3> QED
      BY <1>1, <2>1, <2>6, <3>1, ConcatEmptySeq DEF Bytes
  <2> QED
    BY <1>3, <2>1, <2>5, <2>6, Zenon
<1> QED
  BY <1>2, <1>3, Zenon DEF WriteOutput

\* The same for try_write_output(), which also decides about the source.
LEMMA TryWriteOutputEffect ==
  ASSUME TypeOK, NEW buffer \in Bytes(MaxPrinted), NEW outcome,
         TryWriteOutput(outcome, buffer)
  PROVE  /\ Passed(buffer)
         /\ \/ /\ outcome = "pending" /\ output_write # "none"
               /\ output_buffer' = buffer
               /\ UNCHANGED <<out_received, dest_used, output_fd, output_write, attrs>>
            \/ /\ outcome \in Outcomes
               /\ output_write' = IF output_buffer' = <<>> THEN "none"
                                  ELSE IF output_fd' THEN "dest" ELSE "dead"
               /\ \/ /\ outcome = "taken" /\ UNCHANGED <<output_fd, attrs>>
                     /\ output_fd \/ out_received' = out_received
                  \/ /\ outcome = "busy" /\ Kept(buffer) /\ UNCHANGED <<output_fd, attrs>>
                  \/ /\ outcome = "failed" /\ Kept(buffer) /\ output_fd' = FALSE
                     /\ attrs' = Restored("output", output_fd, saved_attrs, attrs)
<1>1. CASE output_write # "none"
  <2>1. /\ outcome = "pending" /\ output_buffer' = buffer
        /\ UNCHANGED <<out_received, dest_used, output_fd, output_write, attrs>>
    BY <1>1, Zenon DEF TryWriteOutput
  <2>2. out_received \in Bytes(MaxPrinted) /\ dest_used \in 0..DestSize
    BY DEF TypeOK
  <2>3. Flow(out_received, buffer, out_received, buffer)
    BY <2>2, NoFlow, Zenon DEF Bytes
  <2>4. Passed(buffer)
    BY <2>1, <2>2, <2>3, Zenon DEF Passed
  <2> QED
    BY <1>1, <2>1, <2>4, Zenon
<1>2. CASE output_write = "none"
  <2>1. /\ outcome \in Outcomes /\ WriteOutput(outcome, buffer)
        /\ output_write' = IF output_buffer' = <<>> THEN "none"
                           ELSE IF output_fd' THEN "dest" ELSE "dead"
    BY <1>2, Zenon DEF TryWriteOutput
  <2> QED
    BY <2>1, WriteOutputEffect, Zenon
<1> QED
  BY <1>1, <1>2

-----------------------------------------------------------------------------
(* The invariant.                                                          *)

\* Lengths are numbers.
LEMMA Lengths ==
  ASSUME NEW m, NEW s \in Bytes(m)
  PROVE  Len(s) \in Nat
BY LenProperties DEF Bytes

\* TypeOK, in parts that the provers can handle.
LEMMA TypeParts == TypeOK <=> SequenceTypes /\ OtherTypes /\ SourceTypes
BY Zenon DEF TypeOK, SequenceTypes, OtherTypes, SourceTypes

\* A bridge that has not been initialized satisfies the invariant.
THEOREM InitInv == Init => IInv
<1> SUFFICES ASSUME Init
             PROVE  IInv
  OBVIOUS
<1>1. \A m : <<>> \in Bytes(m)
  BY DEF Bytes
<1>2. [end \in Ends |-> Cooked] \in [Ends -> Modes]
  BY DEF Modes, Cooked
<1>3. TypeOK
  <2>1. Len(<<>>) = 0
    BY EmptySeq
  <2>2. attrs \in [Ends -> Modes] /\ saved_attrs \in [Ends -> Modes]
    BY <1>2, Zenon DEF Init
  <2>3. /\ typed \in Bytes(MaxTyped) /\ source \in Bytes(MaxTyped)
        /\ signalled \in Bytes(MaxSignals) /\ printed \in Bytes(MaxPrinted)
        /\ tty_out \in Bytes(MaxPrinted) /\ input_buffer \in Bytes(MaxTyped)
        /\ output_buffer \in Bytes(MaxPrinted) /\ oob_buffer \in Bytes(MaxSignals)
        /\ text_received \in Bytes(MaxTyped) /\ oob_received \in Bytes(MaxSignals)
        /\ out_received \in Bytes(MaxPrinted)
    BY <1>1, Zenon DEF Init
  <2>4. /\ Len(tty_out) <= TtySize /\ Len(input_buffer) <= BufferSize
        /\ Len(output_buffer) <= BufferSize
        /\ unread \in 0..TtySize /\ dest_used \in 0..DestSize
    BY <2>1, SizesAssumption DEF Init
  <2> QED
    BY <2>2, <2>3, <2>4, Zenon DEF Init, TypeOK
<1>4. SourcesOK /\ NothingForgotten
  BY DEF Init, SourcesOK, NothingForgotten, Running
<1>5. NothingLost
  BY DEF Init, NothingLost, Linked, Pending
<1> QED
  BY <1>3, <1>4, <1>5 DEF IInv

\* What was written to ptmx leaves less in the buffers.
LEMMA WrittenShrinks ==
  ASSUME TypeOK, NEW text \in Bytes(MaxTyped), NEW oob \in Bytes(MaxSignals),
         Len(text) <= BufferSize, Written(text, oob)
  PROVE  Len(input_buffer') <= BufferSize
BY SizesAssumption, Lengths DEF Written, Flow

\* _srt_pty_bridge_ptmx_out_cb() preserves the invariant.
LEMMA PtmxOutInv ==
  ASSUME IInv, PtmxOutCb
  PROVE  IInv'
<1>1. PICK outcome \in Outcomes :
          /\ WritePtmx(outcome, input_buffer, oob_buffer)
          /\ input_write' = IF \/ outcome = "failed"
                               \/ input_buffer' = <<>> /\ oob_buffer' = <<>>
                            THEN "none" ELSE "ptmx"
          /\ InputAfter(outcome)
  BY DEF PtmxOutCb
<1>2. /\ UNCHANGED <<typed, source, eof, signalled, pending, child, printed, tty_out>>
      /\ UNCHANGED <<dest_used, broken, client, input_fd, output_fd, output_buffer>>
      /\ UNCHANGED <<output_write, out_received, same, attrs, saved_attrs>>
      /\ input_write = "ptmx"
  BY DEF PtmxOutCb, inputOnly, userVars, signalVars, destVars, attrVars
<1>3. TypeOK /\ SourcesOK /\ NothingForgotten /\ NothingLost
  BY DEF IInv
<1>4. /\ input_buffer \in Bytes(MaxTyped) /\ oob_buffer \in Bytes(MaxSignals)
      /\ Len(input_buffer) <= BufferSize
  BY <1>3 DEF TypeOK
<1>5. /\ Written(input_buffer, oob_buffer) /\ ptmx
      /\ \/ outcome = "taken" /\ ptmx' = TRUE /\ output_read' = OutputEnabled(output_buffer)
         \/ outcome = "busy" /\ NothingTaken(input_buffer, oob_buffer)
            /\ UNCHANGED <<ptmx, output_read>>
         \/ outcome = "failed" /\ NothingTaken(input_buffer, oob_buffer)
            /\ ptmx' = FALSE /\ output_read' = FALSE
  BY <1>1, <1>3, <1>4, WritePtmxEffect, Zenon
<1>6. Len(input_buffer') <= BufferSize
  BY <1>3, <1>4, <1>5, WrittenShrinks, Zenon
<1>7. /\ input_read' \in BOOLEAN /\ output_read' \in BOOLEAN /\ ptmx' \in BOOLEAN
      /\ outcome = "taken" => (input_read' <=> InputEnabled(input_buffer'))
      /\ outcome # "taken" => (input_read' <=> input_read)
      /\ outcome = "taken" => (output_read' <=> OutputEnabled(output_buffer))
      /\ outcome = "busy" => (output_read' <=> output_read) /\ ptmx'
      /\ outcome = "failed" => ~output_read' /\ ~ptmx'
      /\ outcome # "taken" => input_buffer' = input_buffer
  <2>1. /\ ptmx \in BOOLEAN /\ input_fd \in BOOLEAN
        /\ input_read \in BOOLEAN /\ output_read \in BOOLEAN
        /\ OutputEnabled(output_buffer) \in BOOLEAN /\ InputEnabled(input_buffer') \in BOOLEAN
    BY <1>3, Zenon DEF TypeOK, InputEnabled, OutputEnabled
  <2>2. input_read' = IF outcome = "taken" THEN InputEnabled(input_buffer') ELSE input_read
    BY <1>1, Zenon DEF InputAfter
  <2>3. outcome # "taken" => input_buffer' = input_buffer
    BY <1>5, Zenon DEF NothingTaken
  <2>4. CASE outcome = "taken"
    BY <1>5, <2>1, <2>2, <2>4, Zenon
  <2>5. CASE outcome = "busy"
    BY <1>5, <2>1, <2>2, <2>3, <2>5
  <2>6. CASE outcome = "failed"
    BY <1>5, <2>1, <2>2, <2>3, <2>6, Zenon
  <2> QED
    BY <1>5, <2>4, <2>5, <2>6, Zenon
<1>8. TypeOK'
  BY <1>1, <1>2, <1>3, <1>5, <1>6, <1>7 DEF TypeOK, Written
<1>9. SourcesOK' /\ NothingForgotten'
  BY <1>1, <1>2, <1>3, <1>5, <1>7
  DEF SourcesOK, NothingForgotten, InputEnabled, OutputEnabled, Running, HasRoom, TypeOK
<1>10. NothingLost'
  <2>1. Running' => Running /\ Linked
    BY <1>2, <1>5 DEF Running, Linked
  <2>2. Linked' => Linked
    BY <1>2, <2>1 DEF Linked, Running
  <2> QED
    BY <1>2, <1>3, <1>5, <2>2 DEF NothingLost, Written, Flow, Pending
<1> QED
  BY <1>8, <1>9, <1>10 DEF IInv

\* What the callbacks leave behind that call try_write_ptmx().
LEMMA TryWriteSources ==
  ASSUME IInv, NEW text \in Bytes(MaxTyped), NEW oob \in Bytes(MaxSignals),
         NEW outcome, TryWritePtmx(outcome, text, oob), Running,
         UNCHANGED <<client, output_fd, output_buffer>>
  PROVE  /\ ptmx' \in BOOLEAN /\ output_read' \in BOOLEAN
         /\ input_write' \in {"none", "ptmx", "dead"}
         /\ ptmx' => ptmx /\ (input_buffer' # <<>> \/ oob_buffer' # <<>> => input_write' = "ptmx")
         /\ output_read' => ptmx'
         /\ ptmx' /\ HasRoom(output_buffer) => output_read'
         /\ input_write' = "ptmx" => ptmx'
         /\ input_write' = "dead" => ~ptmx'
         /\ outcome = "taken" => ptmx'
         /\ outcome # "taken" => input_buffer' = text
         /\ ptmx \/ (text_received' = text_received /\ oob_received' = oob_received)
         /\ ptmx' \/ (text_received' = text_received /\ oob_received' = oob_received)
<1>1. /\ ptmx \in BOOLEAN /\ output_read \in BOOLEAN
      /\ input_write \in {"none", "ptmx", "dead"}
      /\ OutputEnabled(output_buffer) \in BOOLEAN
  BY Zenon DEF IInv, TypeOK, OutputEnabled
<1>2. /\ output_read => ptmx
      /\ ptmx /\ HasRoom(output_buffer) => output_read
      /\ input_write = "ptmx" => ptmx
      /\ input_write = "dead" => ~ptmx
  BY DEF IInv, SourcesOK, NothingForgotten
<1>3. TypeOK
  BY DEF IInv
<1>4. CASE outcome = "pending" /\ input_write # "none" /\ NothingTaken(text, oob)
           /\ UNCHANGED <<ptmx, output_read, input_write>>
  BY <1>1, <1>2, <1>4 DEF NothingTaken
<1>5. CASE /\ outcome \in Outcomes /\ ptmx
           /\ input_write' = IF input_buffer' = <<>> /\ oob_buffer' = <<>> THEN "none"
                             ELSE IF ptmx' THEN "ptmx" ELSE "dead"
  <2>1. CASE outcome = "taken" /\ ptmx' = TRUE /\ output_read' = OutputEnabled(output_buffer)
    <3>1. output_read' <=> OutputEnabled(output_buffer)
      BY <2>1, <1>1, Zenon
    <3>2. output_read' \in BOOLEAN
      BY <2>1, <1>1, Zenon
    <3> QED
      BY <1>1, <1>2, <1>5, <2>1, <3>1, <3>2 DEF OutputEnabled
  <2>2. CASE outcome = "busy" /\ NothingTaken(text, oob) /\ UNCHANGED <<ptmx, output_read>>
    BY <1>1, <1>2, <1>5, <2>2 DEF NothingTaken
  <2>3. CASE outcome = "failed" /\ NothingTaken(text, oob)
             /\ ptmx' = FALSE /\ output_read' = FALSE
    BY <1>1, <1>2, <1>5, <2>3 DEF NothingTaken
  <2> QED
    BY <1>3, <1>5, <2>1, <2>2, <2>3, TryWritePtmxEffect, Zenon DEF Outcomes
<1> QED
  BY <1>3, <1>4, <1>5, TryWritePtmxEffect, Zenon

\* _srt_pty_bridge_handle_signal() preserves the invariant.
LEMMA HandleSignalInv ==
  ASSUME IInv, HandleSignal
  PROVE  IInv'
<1>1. TypeOK /\ SourcesOK /\ NothingForgotten /\ NothingLost
  BY DEF IInv
<1>2. /\ UNCHANGED <<typed, source, eof, signalled, child, printed, tty_out>>
      /\ UNCHANGED <<dest_used, broken, client, input_fd, output_fd, output_buffer>>
      /\ UNCHANGED <<output_write, out_received, same, attrs, saved_attrs>>
      /\ Running /\ pending /\ pending' = FALSE
  BY DEF HandleSignal, inputOnly, userVars, destVars, attrVars
<1>3. CASE ~ptmx
  <2>1. UNCHANGED <<ptmx, input_buffer, input_read, input_write, oob_buffer,
                    output_read, unread, text_received, oob_received>>
    BY <1>3 DEF HandleSignal, TryWritePtmx, WritePtmx
  <2>2. TypeOK'
    <3>1. pending' \in BOOLEAN
      BY <1>2
    <3> QED
      BY <1>1, <1>2, <2>1, <3>1, SMTT(30) DEF TypeOK
  <2>4. SourcesOK'
    BY <1>1, <1>2, <2>1 DEF SourcesOK, Running
  <2>5. NothingForgotten'
    BY <1>1, <1>2, <2>1 DEF NothingForgotten, Running, HasRoom
  <2>3. NothingLost'
    BY <1>1, <1>2, <1>3, <2>1 DEF NothingLost, Linked, Running
  <2> QED
    BY <2>2, <2>3, <2>4, <2>5 DEF IInv
<1>4. CASE ptmx
  <2> DEFINE oob == Append(oob_buffer, Len(signalled))
  <2>1. PICK outcome : TryWritePtmx(outcome, input_buffer, oob) /\ InputAfter(outcome)
    BY <1>4 DEF HandleSignal
  <2>2. /\ input_buffer \in Bytes(MaxTyped) /\ oob_buffer \in Bytes(MaxSignals)
        /\ oob_received \in Bytes(MaxSignals) /\ signalled \in Bytes(MaxSignals)
        /\ Len(signalled) \in 1..MaxSignals /\ Len(input_buffer) <= BufferSize
    BY <1>1, <1>2 DEF TypeOK, SourcesOK
  <2>3. oob \in Bytes(MaxSignals) /\ oob = oob_buffer \o <<Len(signalled)>>
    BY <2>2, AppendProperties, AppendIsConcat, Zenon DEF Bytes
  <2> HIDE DEF oob
  <2>4. Written(input_buffer, oob)
    BY <1>1, <2>1, <2>2, <2>3, TryWritePtmxEffect, Zenon
  <2>5. Len(input_buffer') <= BufferSize
    BY <1>1, <2>2, <2>3, <2>4, WrittenShrinks, Zenon
  <2>6. /\ ptmx' \in BOOLEAN /\ output_read' \in BOOLEAN
        /\ input_write' \in {"none", "ptmx", "dead"}
        /\ ptmx' => ptmx /\ (input_buffer' # <<>> \/ oob_buffer' # <<>> => input_write' = "ptmx")
        /\ output_read' => ptmx'
        /\ ptmx' /\ HasRoom(output_buffer) => output_read'
        /\ input_write' = "ptmx" => ptmx'
        /\ input_write' = "dead" => ~ptmx'
        /\ outcome = "taken" => ptmx'
        /\ outcome # "taken" => input_buffer' = input_buffer
    BY <1>2, <2>1, <2>2, <2>3, TryWriteSources, Zenon
  <2>7. /\ input_read' \in BOOLEAN
        /\ outcome = "taken" => (input_read' <=> InputEnabled(input_buffer'))
        /\ outcome # "taken" => (input_read' <=> input_read)
    BY <1>1, <2>1, Zenon DEF InputAfter, InputEnabled, TypeOK
  <2>8. TypeOK'
    BY <1>1, <1>2, <2>4, <2>5, <2>6, <2>7 DEF TypeOK, Written
  <2>9. SourcesOK' /\ NothingForgotten'
    BY <1>1, <1>2, <1>4, <2>6, <2>7
    DEF SourcesOK, NothingForgotten, InputEnabled, Running, HasRoom
  <2>10. NothingLost'
    <3>1. Linked /\ Pending = <<Len(signalled)>> /\ Pending' = <<>>
      BY <1>2, <1>4, Zenon DEF Linked, Pending
    <3>2. signalled = (oob_received \o oob_buffer) \o <<Len(signalled)>>
      BY <1>1, <3>1, Zenon DEF NothingLost
    <3>3. signalled = oob_received \o oob
      <4>1. <<Len(signalled)>> \in Bytes(MaxSignals)
        BY <2>2 DEF Bytes
      <4>2. \A u, v, w \in Bytes(MaxSignals) : (u \o v) \o w = u \o (v \o w)
        BY Associative DEF Bytes, Assoc
      <4> QED
        BY <2>2, <2>3, <3>2, <4>1, <4>2, Zenon
    <3>4. signalled = oob_received' \o oob_buffer'
      BY <2>4, <3>3, Zenon DEF Written, Flow
    <3>5. oob_received' \o oob_buffer' \in Bytes(MaxSignals)
      BY <2>4, ConcatProperties, Zenon DEF Written, Bytes
    <3>6. (oob_received' \o oob_buffer') \o Pending' = oob_received' \o oob_buffer'
      BY <3>1, <3>5, ConcatEmptySeq DEF Bytes
    <3> QED
      BY <1>1, <1>2, <2>4, <3>4, <3>6, Zenon DEF NothingLost, Written, Flow
  <2> QED
    BY <2>8, <2>9, <2>10 DEF IInv
<1> QED
  BY <1>3, <1>4

\* _srt_pty_bridge_input_in_cb() preserves the invariant.
LEMMA InputReadsInv ==
  ASSUME IInv, InputReads
  PROVE  IInv'
<1>1. TypeOK /\ SourcesOK /\ NothingForgotten /\ NothingLost
  BY DEF IInv
<1>2. /\ UNCHANGED <<typed, eof, signalled, pending, child, printed, tty_out>>
      /\ UNCHANGED <<dest_used, broken, client, input_fd, output_fd, output_buffer>>
      /\ UNCHANGED <<output_write, out_received, same, attrs, saved_attrs>>
      /\ input_read /\ ptmx /\ HasRoom(input_buffer)
      /\ input_read' = HasRoom(input_buffer')
  BY DEF InputReads, inputOnly, signalVars, destVars, attrVars
<1>3. PICK n \in 0..Len(source), outcome \in Outcomes \cup {"pending"} :
          /\ n <= Room(input_buffer)
          /\ source' = Drop(source, n)
          /\ TryWritePtmx(outcome, input_buffer \o Take(source, n), oob_buffer)
  BY DEF InputReads
<1> DEFINE text == input_buffer \o Take(source, n)
<1>4. /\ input_buffer \in Bytes(MaxTyped) /\ oob_buffer \in Bytes(MaxSignals)
      /\ source \in Bytes(MaxTyped) /\ text_received \in Bytes(MaxTyped)
  BY <1>1 DEF TypeOK
<1>5. /\ text \in Bytes(MaxTyped) /\ Drop(source, n) \in Bytes(MaxTyped)
      /\ Len(text) = Len(input_buffer) + n
      /\ (text_received \o text) \o Drop(source, n)
         = (text_received \o input_buffer) \o source
  <2>1. n \in 0..Len(source)
    BY <1>3
  <2>2. Read(MaxTyped, text_received, input_buffer, source, text, Drop(source, n), n)
    BY <1>4, <2>1, ReadFlow, Zenon
  <2> QED
    BY <2>2, Zenon DEF Read, Moved
<1>6. Len(text) <= BufferSize
  <2>1. Len(input_buffer) \in Nat /\ Len(source) \in Nat
    BY <1>4, Lengths
  <2> QED
    BY <1>3, <1>5, <2>1, SizesAssumption DEF Room
<1>7. TryWritePtmx(outcome, text, oob_buffer)
  BY <1>3
<1> HIDE DEF text
<1>8. Running
  BY <1>1, <1>2 DEF SourcesOK
<1>9. Written(text, oob_buffer)
  BY <1>1, <1>4, <1>5, <1>7, TryWritePtmxEffect, Zenon
<1>10. Len(input_buffer') <= BufferSize
  BY <1>1, <1>4, <1>5, <1>6, <1>9, WrittenShrinks, Zenon
<1>11. /\ ptmx' \in BOOLEAN /\ output_read' \in BOOLEAN
       /\ input_write' \in {"none", "ptmx", "dead"}
       /\ ptmx' => ptmx /\ (input_buffer' # <<>> \/ oob_buffer' # <<>> => input_write' = "ptmx")
       /\ output_read' => ptmx'
       /\ ptmx' /\ HasRoom(output_buffer) => output_read'
       /\ input_write' = "ptmx" => ptmx'
       /\ input_write' = "dead" => ~ptmx'
  BY <1>2, <1>4, <1>5, <1>7, <1>8, TryWriteSources, Zenon
<1>12. /\ input_read' \in BOOLEAN
       /\ input_read' <=> HasRoom(input_buffer')
  <2>1. HasRoom(input_buffer') \in BOOLEAN
    BY DEF HasRoom
  <2> QED
    BY <1>2, <2>1, Zenon
<1>13. TypeOK'
  BY <1>1, <1>2, <1>3, <1>5, <1>9, <1>10, <1>11, <1>12 DEF TypeOK, Written
<1>14. SourcesOK' /\ NothingForgotten'
  BY <1>1, <1>2, <1>8, <1>11, <1>12 DEF SourcesOK, NothingForgotten, Running, HasRoom
<1>15. NothingLost'
  <2>1. Linked' => Linked
    BY <1>2, <1>8 DEF Linked, Running
  <2>2. (text_received' \o input_buffer') \o source' = (text_received \o text) \o Drop(source, n)
    BY <1>3, <1>9, Zenon DEF Written, Flow
  <2> QED
    BY <1>1, <1>2, <1>5, <1>9, <2>1, <2>2, Zenon DEF NothingLost, Written, Flow, Pending
<1> QED
  BY <1>13, <1>14, <1>15 DEF IInv

-----------------------------------------------------------------------------
(* The invariant: output.                                                  *)

\* Attributes remain attributes.
LEMMA AttrsTypes ==
  ASSUME NEW a \in [Ends -> Modes], NEW saved \in [Ends -> Modes],
         NEW end \in Ends, NEW is_open
  PROVE  Restored(end, is_open, saved, a) \in [Ends -> Modes]
<1>1. TerminalOf(end) \in Ends
  BY DEF TerminalOf, Ends
<1> QED
  BY <1>1 DEF Restored

\* What callbacks that write output leave behind.
LEMMA OutputTypes ==
  ASSUME TypeOK, attrs' = attrs \/ attrs' = Restored("output", output_fd, saved_attrs, attrs)
  PROVE  attrs' \in [Ends -> Modes]
BY AttrsTypes DEF TypeOK, Ends

\* _srt_pty_bridge_output_out_cb() preserves the invariant.
LEMMA OutputOutInv ==
  ASSUME IInv, OutputOutCb
  PROVE  IInv'
<1>1. TypeOK /\ SourcesOK /\ NothingForgotten /\ NothingLost
  BY DEF IInv
<1>2. /\ UNCHANGED <<typed, source, eof, signalled, pending, child, unread, printed>>
      /\ UNCHANGED <<tty_out, broken, client, ptmx, input_fd, input_buffer, oob_buffer>>
      /\ UNCHANGED <<input_write, text_received, oob_received, same, saved_attrs>>
      /\ output_write = "dest"
  BY DEF OutputOutCb, outputOnly, userVars, signalVars
<1>3. PICK outcome \in Outcomes :
          /\ WriteOutput(outcome, output_buffer)
          /\ output_write' = IF outcome = "failed" \/ output_buffer' = <<>>
                             THEN "none" ELSE "dest"
          /\ input_read'  = IF outcome = "taken" THEN InputEnabled(input_buffer) ELSE input_read
          /\ output_read' = IF outcome = "taken" THEN OutputEnabled(output_buffer')
                                                ELSE output_read
  BY DEF OutputOutCb
<1>4. output_buffer \in Bytes(MaxPrinted) /\ Len(output_buffer) <= BufferSize
  BY <1>1 DEF TypeOK
<1>5. /\ Passed(output_buffer)
      /\ \/ /\ outcome = "taken" /\ UNCHANGED <<output_fd, attrs>>
            /\ output_fd \/ out_received' = out_received
         \/ /\ outcome = "busy" /\ Kept(output_buffer) /\ UNCHANGED <<output_fd, attrs>>
         \/ /\ outcome = "failed" /\ Kept(output_buffer) /\ output_fd' = FALSE
            /\ attrs' = Restored("output", output_fd, saved_attrs, attrs)
  BY <1>1, <1>3, <1>4, WriteOutputEffect, Zenon
<1>6. Len(output_buffer') <= BufferSize
  <2>1. Len(output_buffer) \in Nat /\ Len(output_buffer') \in Nat
    BY <1>4, <1>5, Lengths DEF Passed
  <2> QED
    BY <1>4, <1>5, <2>1, SizesAssumption DEF Passed, Flow
<1>7. /\ input_read' \in BOOLEAN /\ output_read' \in BOOLEAN
      /\ input_read' => input_read \/ InputEnabled(input_buffer)
      /\ input_read => input_read'
      /\ output_read' => output_read \/ OutputEnabled(output_buffer')
      /\ ptmx /\ HasRoom(output_buffer') => output_read'
  <2>1. /\ input_read \in BOOLEAN /\ output_read \in BOOLEAN
        /\ InputEnabled(input_buffer) \in BOOLEAN /\ OutputEnabled(output_buffer') \in BOOLEAN
    BY <1>1, Zenon DEF TypeOK, InputEnabled, OutputEnabled
  <2>2. CASE outcome = "taken"
    <3>1. input_read' = InputEnabled(input_buffer) /\ output_read' = OutputEnabled(output_buffer')
      BY <1>3, <2>2, Zenon
    <3> QED
      BY <2>1, <3>1, Zenon DEF InputEnabled, OutputEnabled
  <2>3. CASE outcome # "taken"
    <3>1. /\ input_read' = input_read /\ output_read' = output_read
          /\ output_buffer' = output_buffer
      BY <1>3, <1>5, <2>3, Zenon DEF Kept
    <3> QED
      BY <1>1, <1>2, <2>1, <3>1, Zenon DEF SourcesOK, NothingForgotten, Running
  <2> QED
    BY <2>2, <2>3, Zenon
<1>8. TypeOK'
  <2>1. attrs' \in [Ends -> Modes]
    BY <1>1, <1>5, OutputTypes, Zenon
  <2>2. output_write' \in {"none", "dest", "dead"} /\ output_fd' \in BOOLEAN
    BY <1>1, <1>3, <1>5 DEF TypeOK
  <2> QED
    BY <1>1, <1>2, <1>5, <1>6, <1>7, <2>1, <2>2 DEF TypeOK, Passed
<1>9. SourcesOK'
  <2>1. Running /\ client # "new" /\ output_fd
    BY <1>1, <1>2 DEF SourcesOK, Running
  <2>2. output_write' = "dest" => output_fd'
    BY <1>3, <1>5, <2>1 DEF Kept
  <2>3. output_write' \in {"none", "dest"}
    BY <1>3
  <2>4. (input_read' => input_fd) /\ (output_read' => ptmx)
    BY <1>1, <1>7, Zenon DEF SourcesOK, InputEnabled, OutputEnabled
  <2> QED
    BY <1>1, <1>2, <2>1, <2>2, <2>3, <2>4 DEF SourcesOK, Running
<1>10. NothingForgotten'
  BY <1>1, <1>2, <1>3, <1>5, <1>7 DEF SourcesOK, NothingForgotten, Running, HasRoom
<1>11. NothingLost'
  BY <1>1, <1>2, <1>5 DEF NothingLost, Passed, Flow, Pending, Linked, Running
<1> QED
  BY <1>8, <1>9, <1>10, <1>11 DEF IInv

\* _srt_pty_bridge_ptmx_in_cb() preserves the invariant.
LEMMA PtmxInInv ==
  ASSUME IInv, PtmxInCb
  PROVE  IInv'
<1>1. TypeOK /\ SourcesOK /\ NothingForgotten /\ NothingLost
  BY DEF IInv
<1>2. /\ UNCHANGED <<typed, source, eof, signalled, pending, child, unread, printed>>
      /\ UNCHANGED <<broken, client, ptmx, input_fd, input_buffer, oob_buffer>>
      /\ UNCHANGED <<input_write, text_received, oob_received, same, saved_attrs>>
      /\ output_read /\ ptmx /\ HasRoom(output_buffer)
      /\ output_read' = HasRoom(output_buffer')
  BY DEF PtmxInCb, outputOnly, userVars, signalVars
<1>3. PICK n \in 1..Len(tty_out), outcome \in Outcomes \cup {"pending"} :
          /\ n <= Room(output_buffer)
          /\ tty_out' = Drop(tty_out, n)
          /\ TryWriteOutput(outcome, output_buffer \o Take(tty_out, n))
          /\ input_read' = IF outcome = "taken" THEN InputEnabled(input_buffer)
                                              ELSE input_read
  BY DEF PtmxInCb
<1> DEFINE buffer == output_buffer \o Take(tty_out, n)
<1>4. /\ output_buffer \in Bytes(MaxPrinted) /\ tty_out \in Bytes(MaxPrinted)
      /\ out_received \in Bytes(MaxPrinted) /\ Len(tty_out) <= TtySize
  BY <1>1 DEF TypeOK
<1>5. /\ Len(output_buffer) \in Nat /\ Len(tty_out) \in Nat /\ n \in 0..Len(tty_out)
  BY <1>3, <1>4, Lengths
<1>6. Read(MaxPrinted, out_received, output_buffer, tty_out, buffer, Drop(tty_out, n), n)
  BY <1>4, <1>5, ReadFlow, Zenon
<1>7. TryWriteOutput(outcome, buffer)
  BY <1>3
<1> HIDE DEF buffer
<1>8. /\ buffer \in Bytes(MaxPrinted) /\ Len(buffer) <= BufferSize /\ Len(buffer) \in Nat
      /\ tty_out' \in Bytes(MaxPrinted) /\ Len(tty_out') <= TtySize
  BY <1>3, <1>4, <1>5, <1>6, SizesAssumption DEF Read, Room
<1>9. /\ Passed(buffer)
      /\ \/ /\ outcome = "pending" /\ output_write # "none"
            /\ output_buffer' = buffer
            /\ UNCHANGED <<out_received, dest_used, output_fd, output_write, attrs>>
         \/ /\ outcome \in Outcomes
            /\ output_write' = IF output_buffer' = <<>> THEN "none"
                               ELSE IF output_fd' THEN "dest" ELSE "dead"
            /\ \/ /\ outcome = "taken" /\ UNCHANGED <<output_fd, attrs>>
                  /\ output_fd \/ out_received' = out_received
               \/ /\ outcome = "busy" /\ Kept(buffer) /\ UNCHANGED <<output_fd, attrs>>
               \/ /\ outcome = "failed" /\ Kept(buffer) /\ output_fd' = FALSE
                  /\ attrs' = Restored("output", output_fd, saved_attrs, attrs)
  BY <1>1, <1>7, <1>8, TryWriteOutputEffect, Zenon
<1>10. Len(output_buffer') <= BufferSize
  <2>1. Len(output_buffer') \in Nat
    BY <1>9, Lengths DEF Passed
  <2> QED
    BY <1>8, <1>9, <2>1, SizesAssumption DEF Passed, Flow
<1>11. /\ input_read' \in BOOLEAN /\ output_read' \in BOOLEAN
       /\ input_read' => input_read \/ InputEnabled(input_buffer)
       /\ input_read => input_read'
       /\ output_read' <=> HasRoom(output_buffer')
  <2>1. /\ input_read \in BOOLEAN /\ InputEnabled(input_buffer) \in BOOLEAN
    BY <1>1, Zenon DEF TypeOK, InputEnabled
  <2>2. HasRoom(output_buffer') \in BOOLEAN
    BY DEF HasRoom
  <2> QED
    BY <1>2, <1>3, <2>1, <2>2, Zenon DEF InputEnabled
<1>12. TypeOK'
  <2>1. attrs' \in [Ends -> Modes]
    BY <1>1, <1>9, OutputTypes, Zenon
  <2>2. output_write' \in {"none", "dest", "dead"} /\ output_fd' \in BOOLEAN
    BY <1>1, <1>9 DEF TypeOK
  <2> QED
    BY <1>1, <1>2, <1>8, <1>9, <1>10, <1>11, <2>1, <2>2 DEF TypeOK, Passed
<1>13. Running
  BY <1>1, <1>2 DEF SourcesOK
<1>14. SourcesOK'
  BY <1>1, <1>2, <1>9, <1>11, <1>13 DEF SourcesOK, InputEnabled, Running, TypeOK
<1>15. NothingForgotten'
  BY <1>1, <1>2, <1>9, <1>11, <1>13 DEF SourcesOK, NothingForgotten, Running, HasRoom, TypeOK
<1>16. NothingLost'
  <2>1. (out_received \o buffer) \o Drop(tty_out, n) = (out_received \o output_buffer) \o tty_out
    BY <1>6, Zenon DEF Read, Moved
  <2>2. (out_received' \o output_buffer') \o tty_out' = (out_received \o buffer) \o Drop(tty_out, n)
    BY <1>3, <1>9, Zenon DEF Passed, Flow
  <2> QED
    BY <1>1, <1>2, <2>1, <2>2, Zenon DEF NothingLost, Pending, Linked, Running
<1> QED
  BY <1>12, <1>14, <1>15, <1>16 DEF IInv

-----------------------------------------------------------------------------
(* The invariant: everything else.                                         *)

\* A byte is added to what was sent, and to what is still to be read.
Conserved(sent, got, buffered, queued) == sent = got \o buffered \o queued
Queued(max, sent, got, buffered, queued, sent2, queued2) ==
    /\ sent2 \in Bytes(max) /\ queued2 \in Bytes(max)
    /\ Len(queued2) = Len(queued) + 1
    /\ Conserved(sent2, got, buffered, queued2)

\* Sending one more byte.
LEMMA SendFlow ==
  ASSUME NEW m \in Nat, NEW s \in Bytes(m), NEW g \in Bytes(m), NEW b \in Bytes(m),
         NEW q \in Bytes(m), Conserved(s, g, b, q), Len(s) < m
  PROVE  Queued(m, s, g, b, q, Append(s, Len(s) + 1), Append(q, Len(s) + 1))
<1> DEFINE S == 1..m
<1> DEFINE e == Len(s) + 1
<1>1. s \in Seq(S) /\ q \in Seq(S) /\ g \in Seq(S) /\ b \in Seq(S) /\ e \in S
  BY Lengths DEF Bytes
<1>2. /\ Append(s, e) \in Bytes(m) /\ Append(q, e) \in Bytes(m)
      /\ Len(Append(q, e)) = Len(q) + 1
  BY <1>1 DEF Bytes
<1> HIDE DEF S, e
<1>3. Append(s, e) = s \o <<e>> /\ Append(q, e) = q \o <<e>>
  BY <1>1, AppendIsConcat, Zenon
<1>4. g \o b \in Seq(S) /\ <<e>> \in Seq(S)
  BY <1>1, ConcatProperties
<1>5. ((g \o b) \o q) \o <<e>> = (g \o b) \o (q \o <<e>>)
  <2>1. Assoc(Seq(S))
    BY Associative, Zenon
  <2>2. \A u, v, w \in Seq(S) : (u \o v) \o w = u \o (v \o w)
    BY <2>1, Zenon DEF Assoc
  <2> QED
    BY <1>1, <1>4, <2>2, Z3
<1>6. s = (g \o b) \o q
  BY DEF Conserved
<1> QED
  BY <1>2, <1>3, <1>5, <1>6, Zenon DEF e, Queued, Conserved

\* What the user does preserves the invariant.
LEMMA UserInv ==
  ASSUME IInv, UserTypes \/ UserHangsUp
  PROVE  IInv'
<1>1. TypeOK /\ SourcesOK /\ NothingForgotten /\ NothingLost
  BY DEF IInv
<1>2. /\ UNCHANGED <<signalVars, childVars, destVars, bridgeVars>>
      /\ typed' \in Bytes(MaxTyped) /\ source' \in Bytes(MaxTyped) /\ eof' \in BOOLEAN
      /\ typed' = text_received \o input_buffer \o source'
  <2>1. CASE UserTypes
    <3>1. /\ Len(typed) < MaxTyped /\ MaxTyped \in Nat
          /\ typed \in Bytes(MaxTyped) /\ source \in Bytes(MaxTyped)
          /\ text_received \in Bytes(MaxTyped) /\ input_buffer \in Bytes(MaxTyped)
          /\ typed = text_received \o input_buffer \o source
      BY <1>1, <2>1, SizesAssumption DEF UserTypes, TypeOK, NothingLost
    <3>2. Conserved(typed, text_received, input_buffer, source)
      BY <3>1, Zenon DEF Conserved
    <3>3. Queued(MaxTyped, typed, text_received, input_buffer, source,
                 Append(typed, Len(typed) + 1), Append(source, Len(typed) + 1))
      BY <3>1, <3>2, SendFlow, Zenon
    <3> QED
      BY <1>1, <2>1, <3>3, Zenon DEF UserTypes, TypeOK, Queued, Conserved
  <2>2. CASE UserHangsUp
    BY <1>1, <2>2, Zenon DEF UserHangsUp, TypeOK, NothingLost
  <2> QED
    BY <2>1, <2>2
<1> USE DEF signalVars, childVars, destVars, bridgeVars, inVars, outVars, gotVars, attrVars
<1>3. TypeOK'
  BY <1>1, <1>2 DEF TypeOK
<1>4. SourcesOK' /\ NothingForgotten'
  BY <1>1, <1>2 DEF SourcesOK, NothingForgotten, Running, HasRoom
<1>5. NothingLost'
  BY <1>1, <1>2 DEF NothingLost, Linked, Running, Pending
<1> QED
  BY <1>3, <1>4, <1>5 DEF IInv

\* A signal that arrives preserves the invariant.
LEMMA SignalArrivesInv ==
  ASSUME IInv, SignalArrives
  PROVE  IInv'
<1>1. TypeOK /\ SourcesOK /\ NothingForgotten /\ NothingLost
  BY DEF IInv
<1>2. /\ UNCHANGED <<userVars, childVars, destVars, bridgeVars>>
      /\ ~pending /\ pending' = TRUE /\ Len(signalled) < MaxSignals
      /\ signalled' = Append(signalled, Len(signalled) + 1)
      /\ signalled \in Bytes(MaxSignals) /\ Len(signalled) \in Nat /\ MaxSignals \in Nat
      /\ oob_received \in Bytes(MaxSignals) /\ oob_buffer \in Bytes(MaxSignals)
  BY <1>1, Lengths, SizesAssumption DEF SignalArrives, TypeOK
<1> DEFINE e == Len(signalled) + 1
<1>3. /\ e \in 1..MaxSignals /\ signalled' \in Bytes(MaxSignals)
      /\ Len(signalled') = e /\ signalled' = signalled \o <<e>>
  BY <1>2 DEF Bytes
<1> USE DEF userVars, childVars, destVars, bridgeVars, inVars, outVars, gotVars, attrVars
<1>4. TypeOK'
  BY <1>1, <1>2, <1>3 DEF TypeOK
<1>5. SourcesOK' /\ NothingForgotten'
  BY <1>1, <1>2, <1>3 DEF SourcesOK, NothingForgotten, Running, HasRoom
<1>6. NothingLost'
  <2>1. Linked' => Linked
    BY <1>2 DEF Linked, Running
  <2>2. Linked => signalled' = oob_received \o oob_buffer \o <<e>>
    <3>1. oob_received \o oob_buffer \in Bytes(MaxSignals)
      BY <1>2, ConcatProperties, Zenon DEF Bytes
    <3>2. (oob_received \o oob_buffer) \o <<>> = oob_received \o oob_buffer
      BY <3>1, ConcatEmptySeq DEF Bytes
    <3> QED
      BY <1>1, <1>2, <1>3, <3>2, Zenon DEF NothingLost, Pending
  <2>3. Pending' = <<e>>
    BY <1>2, <1>3 DEF Pending
  <2> QED
    BY <1>1, <1>2, <2>1, <2>2, <2>3 DEF NothingLost
<1> QED
  BY <1>4, <1>5, <1>6 DEF IInv

\* What the child does preserves the invariant.
LEMMA ChildInv ==
  ASSUME IInv, ChildReads \/ ChildPrints \/ ChildExits
  PROVE  IInv'
<1>1. TypeOK /\ SourcesOK /\ NothingForgotten /\ NothingLost
  BY DEF IInv
<1>2. /\ UNCHANGED <<userVars, signalVars, destVars, bridgeVars>>
      /\ child' \in {"running", "exited"} /\ unread' \in 0..TtySize
      /\ printed' \in Bytes(MaxPrinted) /\ tty_out' \in Bytes(MaxPrinted)
      /\ Len(tty_out') <= TtySize
      /\ printed' = out_received \o output_buffer \o tty_out'
  <2>1. CASE ChildReads
    <3>1. unread \in 0..TtySize /\ TtySize \in Nat
      BY <1>1, SizesAssumption DEF TypeOK
    <3>2. unread' \in 0..TtySize
      BY <2>1, <3>1 DEF ChildReads
    <3> QED
      BY <1>1, <2>1, <3>2, Zenon DEF ChildReads, TypeOK, NothingLost
  <2>2. CASE ChildPrints
    <3>1. /\ Len(printed) < MaxPrinted /\ MaxPrinted \in Nat
          /\ printed \in Bytes(MaxPrinted) /\ tty_out \in Bytes(MaxPrinted)
          /\ out_received \in Bytes(MaxPrinted) /\ output_buffer \in Bytes(MaxPrinted)
          /\ printed = out_received \o output_buffer \o tty_out
          /\ Len(tty_out) < TtySize /\ TtySize \in Nat /\ Len(tty_out) \in Nat
      BY <1>1, <2>2, SizesAssumption, Lengths DEF ChildPrints, TypeOK, NothingLost
    <3>2. Conserved(printed, out_received, output_buffer, tty_out)
      BY <3>1, Zenon DEF Conserved
    <3>3. Queued(MaxPrinted, printed, out_received, output_buffer, tty_out,
                 Append(printed, Len(printed) + 1), Append(tty_out, Len(printed) + 1))
      BY <3>1, <3>2, SendFlow, Zenon
    <3>4. Len(tty_out') <= TtySize
      BY <2>2, <3>1, <3>3 DEF ChildPrints, Queued
    <3> QED
      BY <1>1, <2>2, <3>3, <3>4, Zenon DEF ChildPrints, TypeOK, Queued, Conserved
  <2>3. CASE ChildExits
    BY <1>1, <2>3 DEF ChildExits, TypeOK, NothingLost
  <2> QED
    BY <2>1, <2>2, <2>3
<1> USE DEF userVars, signalVars, destVars, bridgeVars, inVars, outVars, gotVars, attrVars
<1>3. TypeOK'
  BY <1>1, <1>2 DEF TypeOK
<1>4. SourcesOK' /\ NothingForgotten'
  BY <1>1, <1>2 DEF SourcesOK, NothingForgotten, Running, HasRoom
<1>5. NothingLost'
  BY <1>1, <1>2 DEF NothingLost, Linked, Running, Pending
<1> QED
  BY <1>3, <1>4, <1>5 DEF IInv

\* What the reader of the destination does preserves the invariant.
LEMMA DestInv ==
  ASSUME IInv, DestReads \/ DestBreaks
  PROVE  IInv'
<1>1. TypeOK /\ SourcesOK /\ NothingForgotten /\ NothingLost
  BY DEF IInv
<1>2. /\ UNCHANGED <<userVars, signalVars, childVars, bridgeVars>>
      /\ dest_used' \in 0..DestSize /\ broken' \in BOOLEAN
  <2>1. dest_used \in 0..DestSize /\ DestSize \in Nat /\ broken \in BOOLEAN
    BY <1>1, SizesAssumption DEF TypeOK
  <2>2. CASE DestReads
    <3>1. dest_used' \in 0..DestSize
      BY <2>1, <2>2 DEF DestReads
    <3> QED
      BY <2>1, <2>2, <3>1, Zenon DEF DestReads
  <2>3. CASE DestBreaks
    BY <2>1, <2>3, Zenon DEF DestBreaks
  <2> QED
    BY <2>2, <2>3
<1> USE DEF userVars, signalVars, childVars, bridgeVars, inVars, outVars, gotVars, attrVars
<1>3. TypeOK'
  BY <1>1, <1>2 DEF TypeOK
<1>4. SourcesOK' /\ NothingForgotten'
  BY <1>1, <1>2 DEF SourcesOK, NothingForgotten, Running, HasRoom
<1>5. NothingLost'
  BY <1>1, <1>2 DEF NothingLost, Linked, Running, Pending
<1> QED
  BY <1>3, <1>4, <1>5 DEF IInv

\* Initialization and the end of the client preserve the invariant.
LEMMA OwnerInv ==
  ASSUME IInv, OwnerStep
  PROVE  IInv'
<1>1. TypeOK /\ SourcesOK /\ NothingForgotten /\ NothingLost
  BY DEF IInv
<1>2. /\ UNCHANGED <<userVars, signalVars, childVars, destVars, gotVars>>
      /\ UNCHANGED <<same, input_buffer, oob_buffer, output_buffer>>
      /\ client \in {"new", "running"} /\ client' \in {"running", "finished", "failed"}
  BY DEF OwnerStep, Initable, InitableFails, ClientFinishes, Running
<1>3. AttrsSet("output", AttrsSet("input", attrs)) \in [Ends -> Modes]
  <2>1. \A a \in [Ends -> Modes], end \in Ends : AttrsSet(end, a) \in [Ends -> Modes]
    BY DEF AttrsSet, TerminalOf, Raw, Ends, Modes
  <2>2. attrs \in [Ends -> Modes] /\ "input" \in Ends /\ "output" \in Ends
    BY <1>1 DEF TypeOK, Ends
  <2> QED
    BY <2>1, <2>2, Zenon
<1>4. SavedAttrs(attrs) \in [Ends -> Modes]
  <2>1. \A a \in [Ends -> Modes], end \in Ends :
           /\ AttrsSet(end, a) \in [Ends -> Modes]
           /\ a[TerminalOf(end)] \in Modes
    BY DEF AttrsSet, TerminalOf, Raw, Ends, Modes
  <2>2. attrs \in [Ends -> Modes] /\ "input" \in Ends /\ "output" \in Ends
    BY <1>1 DEF TypeOK, Ends
  <2>3. /\ attrs[TerminalOf("input")] \in Modes
        /\ AttrsSet("input", attrs)[TerminalOf("output")] \in Modes
    BY <2>1, <2>2, Zenon
  <2> QED
    BY <2>3 DEF SavedAttrs
<1>5. \A a, saved \in [Ends -> Modes] : Finalized(saved, a) \in [Ends -> Modes]
  BY AttrsTypes DEF Finalized, Ends
<1>6. attrs' \in [Ends -> Modes] /\ saved_attrs' \in [Ends -> Modes]
  <2>1. attrs \in [Ends -> Modes] /\ saved_attrs \in [Ends -> Modes]
    BY <1>1 DEF TypeOK
  <2> QED
    BY <1>3, <1>4, <1>5, <2>1, Zenon DEF OwnerStep, Initable, InitableFails, ClientFinishes
<1> USE DEF userVars, signalVars, childVars, destVars, gotVars
<1>7. CASE Initable
  <2>1. /\ client = "new" /\ client' = "running" /\ ptmx' = TRUE
        /\ input_read' = TRUE /\ output_read' = TRUE
        /\ UNCHANGED <<input_fd, input_write, output_fd, output_write>>
    BY <1>7 DEF Initable
  <2>2. TypeOK'
    BY <1>1, <1>2, <1>6, <2>1 DEF TypeOK
  <2>3. SourcesOK' /\ NothingForgotten'
    BY <1>1, <1>2, <2>1 DEF SourcesOK, NothingForgotten, Running, HasRoom
  <2>4. NothingLost'
    BY <1>1, <1>2, <2>1 DEF NothingLost, Linked, Running, Pending
  <2> QED
    BY <2>2, <2>3, <2>4 DEF IInv
<1>8. CASE InitableFails
  <2>1. /\ client = "new" /\ client' = "failed"
        /\ input_fd' = FALSE /\ output_fd' = FALSE
        /\ UNCHANGED <<ptmx, input_read, output_read, input_write, output_write>>
    BY <1>8 DEF InitableFails
  <2>2. TypeOK'
    <3>1. SequenceTypes'
      BY <1>1, <1>2, <1>6, <2>1, TypeParts DEF SequenceTypes
    <3>2. OtherTypes'
      BY <1>1, <1>2, <1>6, <2>1, TypeParts DEF OtherTypes
    <3>3. SourceTypes'
      BY <1>1, <1>2, <1>6, <2>1, TypeParts DEF SourceTypes
    <3> QED
      BY <3>1, <3>2, <3>3, TypeParts, PTL
  <2>3. SourcesOK' /\ NothingForgotten'
    BY <1>1, <1>2, <2>1 DEF SourcesOK, NothingForgotten, Running, HasRoom
  <2>4. NothingLost'
    BY <1>1, <1>2, <2>1 DEF NothingLost, Linked, Running, Pending
  <2> QED
    BY <2>2, <2>3, <2>4 DEF IInv
<1>9. CASE ClientFinishes
  <2>1. /\ client = "running" /\ client' = "finished" /\ ptmx' = FALSE
        /\ input_fd' = FALSE /\ input_read' = FALSE /\ input_write' = "none"
        /\ output_fd' = FALSE /\ output_read' = FALSE /\ output_write' = "none"
    BY <1>9 DEF ClientFinishes, Running
  <2>2. TypeOK'
    BY <1>1, <1>2, <1>6, <2>1 DEF TypeOK
  <2>3. SourcesOK' /\ NothingForgotten'
    BY <1>1, <1>2, <2>1 DEF SourcesOK, NothingForgotten, Running, HasRoom
  <2>4. NothingLost'
    BY <1>1, <1>2, <2>1 DEF NothingLost, Linked, Running, Pending
  <2> QED
    BY <2>2, <2>3, <2>4 DEF IInv
<1> QED
  BY <1>7, <1>8, <1>9 DEF OwnerStep

\* Errors, and whatever they close, preserve the invariant.
LEMMA ClosingInv ==
  ASSUME IInv, InputCloses \/ PtmxReadFails
  PROVE  IInv'
<1>1. TypeOK /\ SourcesOK /\ NothingForgotten /\ NothingLost
  BY DEF IInv
<1>2. CASE InputCloses
  <2>1. /\ UNCHANGED <<userVars, signalVars, childVars, destVars, client, ptmx>>
        /\ UNCHANGED <<input_buffer, input_write, oob_buffer, outVars, gotVars>>
        /\ UNCHANGED <<same, saved_attrs>>
        /\ input_fd' = FALSE /\ input_read' = FALSE
        /\ attrs' = Restored("input", input_fd, saved_attrs, attrs)
    BY <1>2 DEF InputCloses, CloseInput
  <2>2. attrs' \in [Ends -> Modes]
    <3>1. attrs \in [Ends -> Modes] /\ saved_attrs \in [Ends -> Modes] /\ "input" \in Ends
      BY <1>1 DEF TypeOK, Ends
    <3> QED
      BY <2>1, <3>1, AttrsTypes, Zenon
  <2> USE DEF userVars, signalVars, childVars, destVars, outVars, gotVars
  <2>3. TypeOK'
    <3>1. SequenceTypes'
      BY <1>1, <2>1, <2>2, TypeParts DEF SequenceTypes
    <3>2. OtherTypes'
      BY <1>1, <2>1, <2>2, TypeParts DEF OtherTypes
    <3>3. SourceTypes'
      BY <1>1, <2>1, <2>2, TypeParts DEF SourceTypes
    <3> QED
      BY <3>1, <3>2, <3>3, TypeParts, PTL
  <2>4. SourcesOK' /\ NothingForgotten'
    BY <1>1, <1>2, <2>1 DEF SourcesOK, NothingForgotten, Running, HasRoom, InputCloses
  <2>5. NothingLost'
    BY <1>1, <2>1 DEF NothingLost, Linked, Running, Pending
  <2> QED
    BY <2>3, <2>4, <2>5 DEF IInv
<1>3. CASE PtmxReadFails
  <2>1. /\ UNCHANGED <<userVars, signalVars, childVars, destVars, client, input_fd>>
        /\ UNCHANGED <<input_buffer, input_read, oob_buffer, output_fd, output_buffer>>
        /\ UNCHANGED <<output_write, gotVars, attrVars>>
        /\ ptmx' = FALSE /\ output_read' = FALSE /\ input_write' = "none" /\ ptmx
    BY <1>3 DEF PtmxReadFails
  <2> USE DEF userVars, signalVars, childVars, destVars, attrVars, gotVars
  <2>3. TypeOK'
    <3>1. SequenceTypes'
      BY <1>1, <2>1, TypeParts DEF SequenceTypes
    <3>2. OtherTypes'
      BY <1>1, <2>1, TypeParts DEF OtherTypes
    <3>3. SourceTypes'
      BY <1>1, <2>1, TypeParts DEF SourceTypes
    <3> QED
      BY <3>1, <3>2, <3>3, TypeParts, PTL
  <2>4. SourcesOK' /\ NothingForgotten'
    BY <1>1, <2>1 DEF SourcesOK, NothingForgotten, Running, HasRoom
  <2>5. NothingLost'
    BY <1>1, <2>1 DEF NothingLost, Linked, Running, Pending
  <2> QED
    BY <2>3, <2>4, <2>5 DEF IInv
<1> QED
  BY <1>2, <1>3

\* A step that changes nothing preserves the invariant.
LEMMA StutterInv ==
  ASSUME IInv, UNCHANGED vars
  PROVE  IInv'
<1> USE DEF vars, userVars, signalVars, childVars, destVars, bridgeVars, inVars, outVars,
            gotVars, attrVars
<1>1. TypeOK'
  BY DEF IInv, TypeOK
<1>2. SourcesOK' /\ NothingForgotten'
  BY DEF IInv, SourcesOK, NothingForgotten, Running, HasRoom
<1>3. NothingLost'
  BY DEF IInv, NothingLost, Linked, Running, Pending
<1> QED
  BY <1>1, <1>2, <1>3 DEF IInv

\* Every step preserves the invariant.
THEOREM NextInv ==
  ASSUME IInv, [Next]_vars
  PROVE  IInv'
<1>1. CASE EnvStep
  BY <1>1, UserInv, SignalArrivesInv, ChildInv, DestInv, Zenon DEF EnvStep
<1>2. CASE OwnerStep
  BY <1>2, OwnerInv, Zenon
<1>3. CASE InputStep
  BY <1>3, PtmxOutInv, HandleSignalInv, ClosingInv, InputReadsInv, Zenon DEF InputStep
<1>4. CASE OutputStep
  BY <1>4, OutputOutInv, PtmxInInv, ClosingInv, Zenon DEF OutputStep
<1>5. CASE UNCHANGED vars
  BY <1>5, StutterInv, Zenon
<1> QED
  BY <1>1, <1>2, <1>3, <1>4, <1>5 DEF Next

\* The invariant holds in every reachable state of the bridge and its callbacks.
THEOREM InvHolds == Spec => []IInv
<1>1. IInv /\ [Next]_vars => IInv'
  BY NextInv
<1> QED
  BY <1>1, InitInv, PTL DEF Spec

\* Whatever is read, written, refused or broken, the variables of the bridge keep
\* their types, and its buffers their sizes.
THEOREM TypeCorrect == Spec => []TypeOK
BY InvHolds, PTL DEF IInv

\* Callbacks that destroy each other's sources never forget one: what is buffered
\* has somebody who waits for room, and where there is room somebody reads.
THEOREM SourcesComplete == Spec => []NothingForgotten
BY InvHolds, PTL DEF IInv

\* No byte is lost, repeated or overtaken, however few each read() and write()
\* takes.
THEOREM BytesConserved == Spec => []NothingLost
BY InvHolds, PTL DEF IInv

-----------------------------------------------------------------------------
(* Each direction is a channel.                                            *)

\* Receiving some more of what was sent, or nothing.
Receives(s, g, g2) ==
    g2 = g \/ \E n \in Len(g) + 1 .. Len(s) : g2 = SubSeq(s, 1, n)

\* What has been received is the beginning of what was sent.
LEMMA ConservedPrefix ==
  ASSUME NEW m, NEW s, NEW g \in Bytes(m), NEW b \in Bytes(m), NEW q \in Bytes(m),
         Conserved(s, g, b, q)
  PROVE  /\ g = SubSeq(s, 1, Len(g))
         /\ Len(g) \in Nat /\ Len(s) \in Nat /\ Len(g) <= Len(s)
<1> DEFINE S == 1..m
<1>1. g \in Seq(S) /\ b \in Seq(S) /\ q \in Seq(S)
  BY DEF Bytes
<1> HIDE DEF S
<1>2. b \o q \in Seq(S)
  BY <1>1, ConcatProperties, Zenon
<1>3. \A u, v, w \in Seq(S) : (u \o v) \o w = u \o (v \o w)
  <2>1. Assoc(Seq(S))
    BY Associative, Zenon
  <2> QED
    BY <2>1, Zenon DEF Assoc
<1>4. s = g \o (b \o q)
  BY <1>1, <1>3, Zenon DEF Conserved
<1>5. /\ SubSeq(g \o (b \o q), 1, Len(g)) = g
      /\ Len(g) \in Nat /\ Len(g \o (b \o q)) \in Nat /\ Len(g) <= Len(g \o (b \o q))
  BY <1>1, <1>2, ReceivedPrefix, Zenon
<1> QED
  BY <1>4, <1>5, Zenon

\* Receiving the next bytes is a step of the channel.
LEMMA Receiving ==
  ASSUME NEW m, NEW s, NEW g \in Bytes(m), NEW b \in Bytes(m), NEW q \in Bytes(m),
         NEW g2 \in Bytes(m), NEW b2 \in Bytes(m), NEW q2 \in Bytes(m),
         Conserved(s, g, b, q), Conserved(s, g2, b2, q2), Len(g) <= Len(g2)
  PROVE  Receives(s, g, g2)
<1>1. g = SubSeq(s, 1, Len(g)) /\ g2 = SubSeq(s, 1, Len(g2))
  BY ConservedPrefix, Zenon
<1>2. Len(g) \in Nat /\ Len(g2) \in Nat /\ Len(s) \in Nat /\ Len(g2) <= Len(s)
  BY ConservedPrefix, Zenon
<1>3. CASE Len(g) = Len(g2)
  BY <1>1, <1>2, <1>3, Zenon DEF Receives
<1>4. CASE Len(g) # Len(g2)
  <2>1. Len(g2) \in Len(g) + 1 .. Len(s)
    BY <1>2, <1>4
  <2> QED
    BY <1>1, <2>1, Zenon DEF Receives
<1> QED
  BY <1>3, <1>4

\* What the callbacks that write to ptmx do to the two channels.
LEMMA InputWrites ==
  ASSUME IInv, PtmxOutCb \/ HandleSignal \/ InputReads
  PROVE  /\ UNCHANGED <<typed, signalled, printed, client, output_fd, out_received>>
         /\ Running
         /\ \/ UNCHANGED <<ptmx, text_received, oob_received>>
            \/ /\ ptmx = TRUE /\ ptmx' = FALSE /\ UNCHANGED <<text_received, oob_received>>
            \/ /\ ptmx = TRUE /\ ptmx' = TRUE
               /\ Len(text_received) <= Len(text_received')
               /\ Len(oob_received) <= Len(oob_received')
<1>1. TypeOK /\ SourcesOK
  BY DEF IInv
<1>2. /\ input_buffer \in Bytes(MaxTyped) /\ oob_buffer \in Bytes(MaxSignals)
      /\ source \in Bytes(MaxTyped) /\ text_received \in Bytes(MaxTyped)
      /\ signalled \in Bytes(MaxSignals) /\ ptmx \in BOOLEAN /\ ptmx' \in BOOLEAN
  BY <1>1, NextInv DEF TypeOK, IInv, Next, InputStep
<1>3. CASE PtmxOutCb
  <2>1. /\ UNCHANGED <<typed, signalled, printed, client, output_fd, out_received>>
        /\ Running
    BY <1>1, <1>3 DEF PtmxOutCb, userVars, signalVars, inputOnly, SourcesOK
  <2>2. PICK outcome \in Outcomes : WritePtmx(outcome, input_buffer, oob_buffer)
    BY <1>3 DEF PtmxOutCb
  <2>3. /\ Written(input_buffer, oob_buffer) /\ ptmx
        /\ \/ outcome = "taken" /\ ptmx' = TRUE /\ output_read' = OutputEnabled(output_buffer)
           \/ outcome = "busy" /\ NothingTaken(input_buffer, oob_buffer)
              /\ UNCHANGED <<ptmx, output_read>>
           \/ outcome = "failed" /\ NothingTaken(input_buffer, oob_buffer)
              /\ ptmx' = FALSE /\ output_read' = FALSE
    BY <1>1, <1>2, <2>2, WritePtmxEffect, Zenon
  <2> QED
    BY <1>2, <2>1, <2>3 DEF Written, Flow, NothingTaken
<1>4. ASSUME NEW text \in Bytes(MaxTyped), NEW oob \in Bytes(MaxSignals), NEW outcome,
             TryWritePtmx(outcome, text, oob), Running,
             UNCHANGED <<client, output_fd, output_buffer>>
      PROVE  \/ UNCHANGED <<ptmx, text_received, oob_received>>
             \/ /\ ptmx = TRUE /\ ptmx' = FALSE /\ UNCHANGED <<text_received, oob_received>>
             \/ /\ ptmx = TRUE /\ ptmx' = TRUE
                /\ Len(text_received) <= Len(text_received')
                /\ Len(oob_received) <= Len(oob_received')
  <2>1. Written(text, oob)
    BY <1>1, <1>4, TryWritePtmxEffect, Zenon
  <2>2. /\ ptmx' => ptmx
        /\ ptmx \/ (text_received' = text_received /\ oob_received' = oob_received)
        /\ ptmx' \/ (text_received' = text_received /\ oob_received' = oob_received)
    BY <1>4, TryWriteSources, Zenon
  <2> QED
    BY <1>2, <2>1, <2>2 DEF Written, Flow
<1>5. CASE HandleSignal
  <2>1. /\ UNCHANGED <<typed, signalled, printed, client, output_fd, out_received, output_buffer>>
        /\ Running /\ pending
    BY <1>5 DEF HandleSignal, userVars, inputOnly
  <2>2. CASE ~ptmx
    BY <1>5, <2>1, <2>2 DEF HandleSignal, TryWritePtmx, WritePtmx
  <2>3. CASE ptmx
    <3>1. PICK outcome : TryWritePtmx(outcome, input_buffer, Append(oob_buffer, Len(signalled)))
      BY <1>5, <2>3 DEF HandleSignal
    <3>2. Append(oob_buffer, Len(signalled)) \in Bytes(MaxSignals)
      BY <1>1, <1>2, <2>1, AppendProperties, Zenon DEF SourcesOK, Bytes
    <3> QED
      BY <1>2, <1>4, <2>1, <3>1, <3>2, Zenon
  <2> QED
    BY <2>2, <2>3
<1>6. CASE InputReads
  <2>1. /\ UNCHANGED <<typed, signalled, printed, client, output_fd, out_received, output_buffer>>
        /\ Running
    BY <1>1, <1>6 DEF InputReads, signalVars, inputOnly, SourcesOK
  <2>2. PICK n \in 0..Len(source), outcome \in Outcomes \cup {"pending"} :
              TryWritePtmx(outcome, input_buffer \o Take(source, n), oob_buffer)
    BY <1>6 DEF InputReads
  <2>3. input_buffer \o Take(source, n) \in Bytes(MaxTyped)
    <3>1. n \in 0..Len(source)
      BY <2>2
    <3>2. Read(MaxTyped, text_received, input_buffer, source,
               input_buffer \o Take(source, n), Drop(source, n), n)
      BY <1>2, <3>1, ReadFlow, Zenon
    <3> QED
      BY <3>2, Zenon DEF Read
  <2> QED
    BY <1>2, <1>4, <2>1, <2>2, <2>3, Zenon
<1> QED
  BY <1>3, <1>5, <1>6

\* Input steps are steps of Text.
LEMMA TextStep ==
  ASSUME IInv, [Next]_vars
  PROVE  [Text!Next]_(Text!vars)
<1>1. TypeOK /\ SourcesOK /\ NothingLost /\ TypeOK' /\ NothingLost'
  BY NextInv DEF IInv
<1> USE DEF Text!Next, Text!vars
<1> USE DEF vars, userVars, signalVars, childVars, destVars, bridgeVars, inVars, outVars,
            gotVars, attrVars, inputOnly, outputOnly
<1>2. CASE UserTypes
  BY <1>2 DEF UserTypes, Text!Send, Linked, Running
<1>3. CASE PtmxOutCb \/ HandleSignal \/ InputReads
  <2>1. /\ UNCHANGED <<typed, client>> /\ Running
        /\ \/ UNCHANGED <<ptmx, text_received>>
           \/ ptmx = TRUE /\ ptmx' = FALSE /\ UNCHANGED <<text_received>>
           \/ ptmx = TRUE /\ ptmx' = TRUE /\ Len(text_received) <= Len(text_received')
    BY <1>3, InputWrites, Zenon
  <2>2. CASE UNCHANGED <<ptmx, text_received>>
    BY <2>1, <2>2 DEF Linked, Running
  <2>3. CASE ptmx = TRUE /\ ptmx' = FALSE /\ UNCHANGED <<text_received>>
    <3>1. Linked = TRUE /\ Linked' = FALSE
      BY <2>1, <2>3 DEF Linked, Running
    <3> QED
      BY <2>1, <2>3, <3>1 DEF Text!Break
  <2>4. CASE ptmx = TRUE /\ ptmx' = TRUE /\ Len(text_received) <= Len(text_received')
    <3>1. Linked = TRUE /\ Linked' = TRUE
      BY <2>1, <2>4 DEF Linked, Running
    <3>2. Receives(typed, text_received, text_received')
      <4>1. /\ text_received \in Bytes(MaxTyped) /\ input_buffer \in Bytes(MaxTyped)
            /\ source \in Bytes(MaxTyped) /\ text_received' \in Bytes(MaxTyped)
            /\ input_buffer' \in Bytes(MaxTyped) /\ source' \in Bytes(MaxTyped)
        BY <1>1 DEF TypeOK
      <4>2. /\ Conserved(typed, text_received, input_buffer, source)
            /\ Conserved(typed, text_received', input_buffer', source')
        BY <1>1, <2>1 DEF Conserved, NothingLost
      <4> QED
        BY <2>4, <4>1, <4>2, Receiving, Zenon
    <3> QED
      BY <2>1, <3>1, <3>2 DEF Receives, Text!Receive
  <2> QED
    BY <2>1, <2>2, <2>3, <2>4
<1>4. CASE Initable
  BY <1>4 DEF Initable, Linked, Running
<1>5. CASE InitableFails \/ ClientFinishes \/ PtmxReadFails
  <2>1. UNCHANGED <<typed, text_received>> /\ ~Linked'
    <3>1. CASE InitableFails
      BY <3>1 DEF InitableFails, Linked, Running
    <3>2. CASE ClientFinishes
      BY <3>2 DEF ClientFinishes, Linked, Running
    <3>3. CASE PtmxReadFails
      <4>1. client' # "new"
        BY <1>1, <3>3 DEF PtmxReadFails, SourcesOK, Running
      <4> QED
        BY <3>3, <4>1 DEF PtmxReadFails, Linked, Running
    <3> QED
      BY <1>5, <3>1, <3>2, <3>3
  <2>2. CASE Linked
    <3>1. Linked = TRUE /\ Linked' = FALSE
      BY <2>1, <2>2 DEF Linked
    <3> QED
      BY <2>1, <3>1 DEF Text!Break
  <2>3. CASE ~Linked
    BY <2>1, <2>3 DEF Linked
  <2> QED
    BY <2>2, <2>3
<1>6. ASSUME \/ UserHangsUp \/ SignalArrives \/ ChildReads \/ ChildPrints \/ ChildExits
             \/ DestReads \/ DestBreaks \/ InputCloses \/ OutputOutCb \/ PtmxInCb
             \/ UNCHANGED vars
      PROVE  UNCHANGED <<typed, text_received, client, ptmx>>
  BY <1>6 DEF UserHangsUp, SignalArrives, ChildReads, ChildPrints, ChildExits, DestReads,
              DestBreaks, InputCloses, CloseInput, OutputOutCb, PtmxInCb
<1>7. CASE UNCHANGED <<typed, text_received, client, ptmx>>
  BY <1>7 DEF Linked, Running
<1> QED
  BY <1>2, <1>3, <1>4, <1>5, <1>6, <1>7 DEF Next, EnvStep, OwnerStep, InputStep, OutputStep

\* What is typed reaches the child in order, nothing left out.
THEOREM TextRefines == Spec => TextIsAChannel
<1>1. Init => Text!Init
  BY DEF Init, Text!Init, Linked
<1>2. IInv /\ [Next]_vars => [Text!Next]_(Text!vars)
  BY TextStep
<1> QED
  BY <1>1, <1>2, InvHolds, PTL DEF Spec, TextIsAChannel, Text!Spec

\* And so do the signals, although only the last one is pending.
LEMMA InterruptsStep ==
  ASSUME IInv, [Next]_vars
  PROVE  [Interrupts!Next]_(Interrupts!vars)
<1>1. TypeOK /\ SourcesOK /\ NothingLost /\ TypeOK' /\ NothingLost' /\ SourcesOK'
  BY NextInv DEF IInv
<1> USE DEF Interrupts!Next, Interrupts!vars
<1> USE DEF vars, userVars, signalVars, childVars, destVars, bridgeVars, inVars, outVars,
            gotVars, attrVars, inputOnly, outputOnly
<1>2. CASE SignalArrives
  BY <1>2 DEF SignalArrives, Interrupts!Send, Linked, Running
<1>3. CASE PtmxOutCb \/ HandleSignal \/ InputReads
  <2>1. /\ UNCHANGED <<signalled, client>> /\ Running
        /\ \/ UNCHANGED <<ptmx, oob_received>>
           \/ ptmx = TRUE /\ ptmx' = FALSE /\ UNCHANGED <<oob_received>>
           \/ ptmx = TRUE /\ ptmx' = TRUE /\ Len(oob_received) <= Len(oob_received')
    BY <1>3, InputWrites, Zenon
  <2>2. CASE UNCHANGED <<ptmx, oob_received>>
    BY <2>1, <2>2 DEF Linked, Running
  <2>3. CASE ptmx = TRUE /\ ptmx' = FALSE /\ UNCHANGED <<oob_received>>
    <3>1. Linked = TRUE /\ Linked' = FALSE
      BY <2>1, <2>3 DEF Linked, Running
    <3> QED
      BY <2>1, <2>3, <3>1 DEF Interrupts!Break
  <2>4. CASE ptmx = TRUE /\ ptmx' = TRUE /\ Len(oob_received) <= Len(oob_received')
    <3>1. Linked = TRUE /\ Linked' = TRUE
      BY <2>1, <2>4 DEF Linked, Running
    <3>2. Receives(signalled, oob_received, oob_received')
      <4>1. /\ oob_received \in Bytes(MaxSignals) /\ oob_buffer \in Bytes(MaxSignals)
            /\ oob_received' \in Bytes(MaxSignals) /\ oob_buffer' \in Bytes(MaxSignals)
        BY <1>1 DEF TypeOK
      <4>2. Pending \in Bytes(MaxSignals) /\ Pending' \in Bytes(MaxSignals)
        <5>1. \A x \in 1..MaxSignals : <<x>> \in Bytes(MaxSignals)
          BY DEF Bytes
        <5>2. <<>> \in Bytes(MaxSignals)
          BY DEF Bytes
        <5>3. /\ pending => Len(signalled) \in 1..MaxSignals
              /\ pending' => Len(signalled') \in 1..MaxSignals
          BY <1>1 DEF SourcesOK
        <5> QED
          BY <5>1, <5>2, <5>3, Zenon DEF Pending
      <4>3. /\ Conserved(signalled, oob_received, oob_buffer, Pending)
            /\ Conserved(signalled, oob_received', oob_buffer', Pending')
        BY <1>1, <2>1, <3>1 DEF Conserved, NothingLost
      <4> QED
        BY <2>4, <4>1, <4>2, <4>3, Receiving, Zenon
    <3> QED
      BY <2>1, <3>1, <3>2 DEF Receives, Interrupts!Receive
  <2> QED
    BY <2>1, <2>2, <2>3, <2>4
<1>4. CASE Initable
  BY <1>4 DEF Initable, Linked, Running
<1>5. CASE InitableFails \/ ClientFinishes \/ PtmxReadFails
  <2>1. UNCHANGED <<signalled, oob_received>> /\ ~Linked'
    <3>1. CASE InitableFails
      BY <3>1 DEF InitableFails, Linked, Running
    <3>2. CASE ClientFinishes
      BY <3>2 DEF ClientFinishes, Linked, Running
    <3>3. CASE PtmxReadFails
      <4>1. client' # "new"
        BY <1>1, <3>3 DEF PtmxReadFails, SourcesOK, Running
      <4> QED
        BY <3>3, <4>1 DEF PtmxReadFails, Linked, Running
    <3> QED
      BY <1>5, <3>1, <3>2, <3>3
  <2>2. CASE Linked
    <3>1. Linked = TRUE /\ Linked' = FALSE
      BY <2>1, <2>2 DEF Linked
    <3> QED
      BY <2>1, <3>1 DEF Interrupts!Break
  <2>3. CASE ~Linked
    BY <2>1, <2>3 DEF Linked
  <2> QED
    BY <2>2, <2>3
<1>6. ASSUME \/ UserTypes \/ UserHangsUp \/ ChildReads \/ ChildPrints \/ ChildExits
             \/ DestReads \/ DestBreaks \/ InputCloses \/ OutputOutCb \/ PtmxInCb
             \/ UNCHANGED vars
      PROVE  UNCHANGED <<signalled, oob_received, client, ptmx>>
  BY <1>6 DEF UserTypes, UserHangsUp, ChildReads, ChildPrints, ChildExits, DestReads,
              DestBreaks, InputCloses, CloseInput, OutputOutCb, PtmxInCb
<1>7. CASE UNCHANGED <<signalled, oob_received, client, ptmx>>
  BY <1>7 DEF Linked, Running
<1> QED
  BY <1>2, <1>3, <1>4, <1>5, <1>6, <1>7 DEF Next, EnvStep, OwnerStep, InputStep, OutputStep

\* Interrupts reach the child in order, none repeated, whatever text is pending.
THEOREM InterruptsRefine == Spec => InterruptsAreAChannel
<1>1. Init => Interrupts!Init
  BY DEF Init, Interrupts!Init, Linked
<1>2. IInv /\ [Next]_vars => [Interrupts!Next]_(Interrupts!vars)
  BY InterruptsStep
<1> QED
  BY <1>1, <1>2, InvHolds, PTL DEF Spec, InterruptsAreAChannel, Interrupts!Spec

\* Output steps are steps of Output.
LEMMA OutputWrites ==
  ASSUME IInv, OutputOutCb \/ PtmxInCb
  PROVE  /\ UNCHANGED <<printed, client>> /\ Running
         /\ \/ UNCHANGED <<output_fd, out_received>>
            \/ output_fd' = FALSE /\ UNCHANGED <<out_received>>
            \/ /\ output_fd = TRUE /\ output_fd' = TRUE
               /\ Len(out_received) <= Len(out_received')
<1>1. TypeOK /\ SourcesOK
  BY DEF IInv
<1>2. /\ output_buffer \in Bytes(MaxPrinted) /\ tty_out \in Bytes(MaxPrinted)
      /\ out_received \in Bytes(MaxPrinted) /\ output_fd \in BOOLEAN
  BY <1>1 DEF TypeOK
<1>3. CASE OutputOutCb
  <2>1. UNCHANGED <<printed, client>> /\ Running
    BY <1>1, <1>3 DEF OutputOutCb, outputOnly, SourcesOK
  <2>2. PICK outcome \in Outcomes : WriteOutput(outcome, output_buffer)
    BY <1>3 DEF OutputOutCb
  <2>3. /\ Passed(output_buffer)
        /\ \/ /\ outcome = "taken" /\ UNCHANGED <<output_fd, attrs>>
              /\ output_fd \/ out_received' = out_received
           \/ /\ outcome = "busy" /\ Kept(output_buffer) /\ UNCHANGED <<output_fd, attrs>>
           \/ /\ outcome = "failed" /\ Kept(output_buffer) /\ output_fd' = FALSE
              /\ attrs' = Restored("output", output_fd, saved_attrs, attrs)
    BY <1>1, <1>2, <2>2, WriteOutputEffect, Zenon
  <2> QED
    BY <1>2, <2>1, <2>3 DEF Passed, Flow, Kept
<1>4. CASE PtmxInCb
  <2>1. UNCHANGED <<printed, client>> /\ Running
    BY <1>1, <1>4 DEF PtmxInCb, outputOnly, SourcesOK
  <2>2. PICK n \in 1..Len(tty_out), outcome \in Outcomes \cup {"pending"} :
              TryWriteOutput(outcome, output_buffer \o Take(tty_out, n))
    BY <1>4 DEF PtmxInCb
  <2> DEFINE buffer == output_buffer \o Take(tty_out, n)
  <2>3. buffer \in Bytes(MaxPrinted)
    <3>1. n \in 0..Len(tty_out)
      BY <1>2, <2>2, Lengths
    <3>2. Read(MaxPrinted, out_received, output_buffer, tty_out, buffer, Drop(tty_out, n), n)
      BY <1>2, <3>1, ReadFlow, Zenon
    <3> QED
      BY <3>2, Zenon DEF Read
  <2>4. TryWriteOutput(outcome, buffer)
    BY <2>2
  <2> HIDE DEF buffer
  <2>5. /\ Passed(buffer)
        /\ \/ UNCHANGED <<out_received, output_fd>>
           \/ UNCHANGED <<output_fd>> /\ (output_fd \/ out_received' = out_received)
           \/ output_fd' = FALSE /\ UNCHANGED <<out_received>>
    BY <1>1, <2>3, <2>4, TryWriteOutputEffect, Zenon DEF Kept
  <2> QED
    BY <1>2, <2>1, <2>5 DEF Passed, Flow
<1> QED
  BY <1>3, <1>4

OutputOpen == client = "new" \/ (Running /\ output_fd)

\* Every step is a step of Output, or leaves it alone.
LEMMA OutputStepRefines ==
  ASSUME IInv, [Next]_vars
  PROVE  [Output!Next]_(Output!vars)
<1>1. TypeOK /\ SourcesOK /\ NothingLost /\ TypeOK' /\ NothingLost' /\ SourcesOK'
  BY NextInv DEF IInv
<1> USE DEF Output!Next, Output!vars
<1> USE DEF vars, userVars, signalVars, childVars, destVars, bridgeVars, inVars, outVars,
            gotVars, attrVars, inputOnly, outputOnly
<1>2. CASE ChildPrints
  BY <1>2 DEF ChildPrints, Output!Send, Running
<1>3. CASE OutputOutCb \/ PtmxInCb
  <2>1. /\ UNCHANGED <<printed, client>> /\ Running
        /\ \/ UNCHANGED <<output_fd, out_received>>
           \/ output_fd' = FALSE /\ UNCHANGED <<out_received>>
           \/ /\ output_fd = TRUE /\ output_fd' = TRUE
              /\ Len(out_received) <= Len(out_received')
    BY <1>3, OutputWrites, Zenon
  <2>2. CASE UNCHANGED <<output_fd, out_received>>
    BY <2>1, <2>2 DEF Running
  <2>3. CASE output_fd' = FALSE /\ UNCHANGED <<out_received>>
    <3>1. output_fd \in BOOLEAN
      BY <1>1 DEF TypeOK
    <3> QED
      BY <2>1, <2>3, <3>1 DEF Output!Break, Running
  <2>4. CASE output_fd = TRUE /\ output_fd' = TRUE /\ Len(out_received) <= Len(out_received')
    <3>1. OutputOpen = TRUE /\ OutputOpen' = TRUE
      BY <2>1, <2>4 DEF OutputOpen, Running
    <3>2. Receives(printed, out_received, out_received')
      <4>1. /\ out_received \in Bytes(MaxPrinted) /\ output_buffer \in Bytes(MaxPrinted)
            /\ tty_out \in Bytes(MaxPrinted) /\ out_received' \in Bytes(MaxPrinted)
            /\ output_buffer' \in Bytes(MaxPrinted) /\ tty_out' \in Bytes(MaxPrinted)
        BY <1>1 DEF TypeOK
      <4>2. /\ Conserved(printed, out_received, output_buffer, tty_out)
            /\ Conserved(printed, out_received', output_buffer', tty_out')
        BY <1>1, <2>1 DEF Conserved, NothingLost
      <4> QED
        BY <2>4, <4>1, <4>2, Receiving, Zenon
    <3> QED
      BY <2>1, <3>1, <3>2 DEF Receives, Output!Receive, OutputOpen
  <2> QED
    BY <2>1, <2>2, <2>3, <2>4
<1>4. CASE Initable
  <2>1. output_fd = TRUE
    BY <1>1, <1>4 DEF Initable, SourcesOK, TypeOK
  <2> QED
    BY <1>4, <2>1 DEF Initable, Running
<1>5. CASE InitableFails \/ ClientFinishes
  <2>1. UNCHANGED <<printed, out_received>> /\ ~OutputOpen'
    <3>1. CASE InitableFails
      BY <3>1 DEF InitableFails, OutputOpen, Running
    <3>2. CASE ClientFinishes
      BY <3>2 DEF ClientFinishes, OutputOpen, Running
    <3> QED
      BY <1>5, <3>1, <3>2
  <2>2. CASE OutputOpen
    <3>1. OutputOpen = TRUE /\ OutputOpen' = FALSE
      BY <2>1, <2>2 DEF OutputOpen
    <3> QED
      BY <2>1, <3>1 DEF Output!Break, OutputOpen
  <2>3. CASE ~OutputOpen
    BY <2>1, <2>3 DEF OutputOpen
  <2> QED
    BY <2>2, <2>3
<1>6. ASSUME \/ UserTypes \/ UserHangsUp \/ SignalArrives \/ ChildReads \/ ChildExits
             \/ DestReads \/ DestBreaks \/ InputCloses \/ PtmxReadFails \/ UNCHANGED vars
      PROVE  UNCHANGED <<printed, out_received, client, output_fd>>
  BY <1>6 DEF UserTypes, UserHangsUp, SignalArrives, ChildReads, ChildExits, DestReads,
              DestBreaks, InputCloses, CloseInput, PtmxReadFails
<1>7. CASE UNCHANGED <<printed, out_received, client, output_fd>>
  BY <1>7 DEF Running
<1>8. CASE PtmxOutCb \/ HandleSignal \/ InputReads
  BY <1>7, <1>8, InputWrites, Zenon
<1> QED
  BY <1>2, <1>3, <1>4, <1>5, <1>6, <1>7, <1>8
  DEF Next, EnvStep, OwnerStep, InputStep, OutputStep

\* What is printed reaches the destination in order, nothing left out, until the
\* destination breaks or the client ends.
THEOREM OutputRefines == Spec => OutputIsAChannel
<1>1. Init => Output!Init
  BY DEF Init, Output!Init
<1>2. IInv /\ [Next]_vars => [Output!Next]_(Output!vars)
  BY OutputStepRefines
<1> QED
  BY <1>1, <1>2, InvHolds, PTL DEF Spec, OutputIsAChannel, Output!Spec

\* Text, interrupts and output: the bridge implements three FIFO channels.
THEOREM BridgeRefines == Spec => ImplementsChannels
  BY TextRefines, InterruptsRefine, OutputRefines DEF ImplementsChannels

-----------------------------------------------------------------------------
(* Terminal attributes.                                                    *)

\* A map of the two terminals is known by its two values.
LEMMA TwoEnds ==
  ASSUME NEW a, a \in [Ends -> Modes], a["input"] = Cooked, a["output"] = Cooked
  PROVE  a = [end \in Ends |-> Cooked]
BY DEF Ends

\* bridge_fd_close() as a change of the two values.
RestoredTo(end, is_open, saved, a, b) ==
    /\ b \in [Ends -> Modes]
    /\ b["input"]  = IF is_open /\ "input" = TerminalOf(end) THEN saved[end] ELSE a["input"]
    /\ b["output"] = IF is_open /\ "output" = TerminalOf(end) THEN saved[end] ELSE a["output"]

\* What bridge_fd_close() makes of the two terminals.
LEMMA RestoredValues ==
  ASSUME NEW a \in [Ends -> Modes], NEW saved \in [Ends -> Modes],
         NEW end \in Ends, NEW is_open \in BOOLEAN
  PROVE  RestoredTo(end, is_open, saved, a, Restored(end, is_open, saved, a))
<1>1. TerminalOf(end) \in Ends /\ "input" \in Ends /\ "output" \in Ends
  BY DEF TerminalOf, Ends
<1> QED
  BY <1>1 DEF Restored, RestoredTo

\* What is saved at the two ends is true until the bridge is finalized, and then finalize() restores it.
THEOREM AttrsStep ==
  ASSUME IInv, AttrsOK, [Next]_vars
  PROVE  /\ AttrsOK'
         /\ (client' # client /\ client' \in {"finished", "failed"} /\ (same => input_fd))
               => attrs' = [end \in Ends |-> Cooked]
<1>1. /\ attrs \in [Ends -> Modes] /\ saved_attrs \in [Ends -> Modes] /\ same \in BOOLEAN
      /\ input_fd \in BOOLEAN /\ output_fd \in BOOLEAN
      /\ client = "new" => input_fd = TRUE /\ output_fd = TRUE
      /\ "input" \in Ends /\ "output" \in Ends
  BY DEF IInv, TypeOK, SourcesOK, Ends
<1> DEFINE set == AttrsSet("output", AttrsSet("input", attrs))
<1>2. ASSUME client = "new"
      PROVE  /\ set \in [Ends -> Modes] /\ SavedAttrs(attrs) \in [Ends -> Modes]
             /\ ~same => /\ SavedAttrs(attrs)["input"] = Cooked
                         /\ SavedAttrs(attrs)["output"] = Cooked
                         /\ set["input"] = RawIn /\ set["output"] = RawOut
             /\ same  => /\ SavedAttrs(attrs)["input"] = Cooked
                         /\ SavedAttrs(attrs)["output"] = RawIn
                         /\ set["input"] = RawBoth /\ set["output"] = Cooked
  <2>1. attrs = [end \in Ends |-> Cooked]
    BY <1>2 DEF AttrsOK
  <2>2. Cooked \in Modes /\ RawIn \in Modes /\ RawOut \in Modes /\ RawBoth \in Modes
    BY DEF Cooked, RawIn, RawOut, RawBoth, Modes
  <2>3. /\ Raw("input", Cooked) = RawIn /\ Raw("output", Cooked) = RawOut
        /\ Raw("output", RawIn) = RawBoth
    BY DEF Raw, Cooked, RawIn, RawOut, RawBoth
  <2>4. CASE same
    <3>1. AttrsSet("input", attrs) = [end \in Ends |-> IF end = "input" THEN RawIn ELSE Cooked]
      BY <2>1, <2>3, <2>4 DEF AttrsSet, TerminalOf, Ends
    <3>2. set = [end \in Ends |-> IF end = "input" THEN RawBoth ELSE Cooked]
      BY <2>3, <2>4, <3>1 DEF AttrsSet, TerminalOf, Ends
    <3>3. SavedAttrs(attrs) = [end \in Ends |-> IF end = "input" THEN Cooked ELSE RawIn]
      BY <2>1, <2>4, <3>1 DEF SavedAttrs, TerminalOf, Ends
    <3> QED
      BY <2>2, <2>4, <3>2, <3>3 DEF Ends
  <2>5. CASE ~same
    <3>1. AttrsSet("input", attrs) = [end \in Ends |-> IF end = "input" THEN RawIn ELSE Cooked]
      BY <2>1, <2>3, <2>5 DEF AttrsSet, TerminalOf, Ends
    <3>2. set = [end \in Ends |-> IF end = "input" THEN RawIn ELSE RawOut]
      BY <2>3, <2>5, <3>1 DEF AttrsSet, TerminalOf, Ends
    <3>3. SavedAttrs(attrs) = [end \in Ends |-> Cooked]
      BY <2>1, <2>5, <3>1 DEF SavedAttrs, TerminalOf, Ends
    <3> QED
      BY <2>2, <2>5, <3>2, <3>3 DEF Ends
  <2> QED
    BY <2>4, <2>5
<1>3. CASE Initable
  <2>1. /\ client = "new" /\ client' = "running" /\ UNCHANGED <<same, input_fd, output_fd>>
        /\ saved_attrs' = SavedAttrs(attrs) /\ attrs' = set
    BY <1>3 DEF Initable
  <2> HIDE DEF set
  <2> QED
    BY <1>1, <1>2, <2>1 DEF AttrsOK, Running
<1>4. ASSUME NEW a \in [Ends -> Modes], NEW saved \in [Ends -> Modes],
             saved["input"] = Cooked,
             ~same => /\ saved["output"] = Cooked
                      /\ a["input"]  = IF input_fd THEN RawIn ELSE Cooked
                      /\ a["output"] = IF output_fd THEN RawOut ELSE Cooked,
             same => /\ a["output"] = Cooked /\ input_fd
      PROVE  Finalized(saved, a) = [end \in Ends |-> Cooked]
  <2> DEFINE first == Restored("output", output_fd, saved, a)
  <2>1. RestoredTo("output", output_fd, saved, a, first)
    BY <1>1, RestoredValues, Zenon
  <2> HIDE DEF first
  <2> DEFINE second == Restored("input", input_fd, saved, first)
  <2>2. RestoredTo("input", input_fd, saved, first, second)
    <3>1. first \in [Ends -> Modes]
      BY <2>1, Zenon DEF RestoredTo
    <3> QED
      BY <1>1, <3>1, RestoredValues, Zenon
  <2>3. Finalized(saved, a) = second
    BY Zenon DEF Finalized, first, second
  <2> HIDE DEF second
  <2>4. second["input"] = Cooked /\ second["output"] = Cooked
    BY <1>1, <1>4, <2>1, <2>2 DEF TerminalOf, RestoredTo
  <2> QED
    BY <2>2, <2>3, <2>4, TwoEnds, Zenon DEF RestoredTo
<1>5. CASE InitableFails
  <2>1. /\ client = "new" /\ client' = "failed"
        /\ attrs' = Finalized(SavedAttrs(attrs), set)
    BY <1>5 DEF InitableFails
  <2> HIDE DEF set
  <2>2. Finalized(SavedAttrs(attrs), set) = [end \in Ends |-> Cooked]
    BY <1>1, <1>2, <1>4, <2>1
  <2> QED
    BY <2>1, <2>2 DEF AttrsOK, Running
<1>6. CASE ClientFinishes
  <2>1. Running /\ client' = "finished" /\ attrs' = Finalized(saved_attrs, attrs)
    BY <1>6 DEF ClientFinishes
  <2>2. ASSUME same => input_fd PROVE attrs' = [end \in Ends |-> Cooked]
    BY <1>1, <1>4, <2>1, <2>2 DEF AttrsOK
  <2> QED
    BY <2>1, <2>2 DEF AttrsOK, Running
<1>7. ASSUME UNCHANGED <<client, same, input_fd, saved_attrs>>,
             \/ UNCHANGED <<output_fd, attrs>>
             \/ /\ Running /\ output_fd' = FALSE
                /\ attrs' = Restored("output", output_fd, saved_attrs, attrs)
      PROVE  AttrsOK'
  <2>1. CASE UNCHANGED <<output_fd, attrs>>
    BY <1>7, <2>1 DEF AttrsOK, Running
  <2>2. CASE /\ Running /\ output_fd' = FALSE
             /\ attrs' = Restored("output", output_fd, saved_attrs, attrs)
    <3>1. RestoredTo("output", output_fd, saved_attrs, attrs, attrs')
      BY <1>1, <2>2, RestoredValues, Zenon
    <3> QED
      BY <1>1, <1>7, <2>2, <3>1 DEF AttrsOK, Running, TerminalOf, RestoredTo
  <2> QED
    BY <1>7, <2>1, <2>2
<1>8. CASE InputCloses
  <2>1. /\ UNCHANGED <<client, same, output_fd, saved_attrs>> /\ Running /\ input_fd
        /\ input_fd' = FALSE /\ attrs' = Restored("input", input_fd, saved_attrs, attrs)
    BY <1>8 DEF InputCloses, CloseInput, outVars, IInv, SourcesOK
  <2>2. RestoredTo("input", input_fd, saved_attrs, attrs, attrs')
    BY <1>1, <2>1, RestoredValues, Zenon
  <2> QED
    BY <1>1, <2>1, <2>2 DEF AttrsOK, Running, TerminalOf, RestoredTo
<1>9. CASE OutputOutCb \/ PtmxInCb
  <2>1. UNCHANGED <<client, same, input_fd, saved_attrs>> /\ Running
    BY <1>9, OutputWrites DEF OutputOutCb, PtmxInCb, outputOnly
  <2>2. /\ TypeOK
        /\ output_buffer \in Bytes(MaxPrinted) /\ tty_out \in Bytes(MaxPrinted)
        /\ out_received \in Bytes(MaxPrinted)
    BY DEF IInv, TypeOK
  <2>3. \/ UNCHANGED <<output_fd, attrs>>
        \/ /\ output_fd' = FALSE
           /\ attrs' = Restored("output", output_fd, saved_attrs, attrs)
    <3>1. CASE OutputOutCb
      <4>1. PICK outcome \in Outcomes : WriteOutput(outcome, output_buffer)
        BY <3>1 DEF OutputOutCb
      <4> QED
        BY <2>2, <4>1, Zenon DEF WriteOutput
    <3>2. CASE PtmxInCb
      <4>1. PICK buffer, outcome : TryWriteOutput(outcome, buffer)
        BY <3>2, Zenon DEF PtmxInCb
      <4> QED
        BY <4>1, Zenon DEF TryWriteOutput, WriteOutput
    <3> QED
      BY <1>9, <3>1, <3>2
  <2>4. AttrsOK'
    BY <1>7, <2>1, <2>3, Zenon
  <2> QED
    BY <2>1, <2>4
<1>10. ASSUME UNCHANGED <<client, same, input_fd, saved_attrs, output_fd, attrs>>
       PROVE  AttrsOK' /\ client' = client
  BY <1>7, <1>10
<1>11. CASE \/ EnvStep \/ PtmxOutCb \/ HandleSignal \/ InputReads \/ PtmxReadFails
            \/ UNCHANGED vars
  <2>1. UNCHANGED <<client, same, input_fd, saved_attrs, output_fd, attrs>>
    BY <1>11 DEF EnvStep, UserTypes, UserHangsUp, SignalArrives, ChildReads, ChildPrints,
                 ChildExits, DestReads, DestBreaks, PtmxOutCb, HandleSignal, InputReads,
                 PtmxReadFails, vars, bridgeVars, inVars, outVars, attrVars, inputOnly
  <2> QED
    BY <1>10, <2>1
<1> QED
  BY <1>3, <1>5, <1>6, <1>8, <1>9, <1>11 DEF Next, OwnerStep, InputStep, OutputStep

\* The order in which finalize() closes the two ends, and in which initable_init()
\* has saved them, is such that a terminal at both ends of the bridge is the way
\* it was before.
THEOREM AttrsComeBack == Spec => AttrsRestored
<1>1. Init => AttrsOK
  BY DEF Init, AttrsOK, Running
<1>2. IInv /\ AttrsOK /\ [Next]_vars => AttrsOK'
  BY AttrsStep
<1>3. IInv /\ AttrsOK /\ [Next]_vars =>
      [(client' # client /\ client' \in {"finished", "failed"} /\ (same => input_fd))
          => attrs' = [end \in Ends |-> Cooked]]_vars
  BY AttrsStep
<1> QED
  BY <1>1, <1>2, <1>3, InvHolds, PTL DEF Spec, AttrsRestored

=============================================================================
