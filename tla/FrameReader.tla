----------------------------- MODULE FrameReader -----------------------------
(***************************************************************************)
(* The host's receiver (runner_proto.py): a buffer in which it looks for   *)
(* frames, dropping one symbol at a time when a candidate turns out not to *)
(* be one.  Each turn of _try_parse's loop is an action; what is dropped   *)
(* goes to the text log, which is left out.                                *)
(***************************************************************************)
EXTENDS SerialLine

VARIABLE buf   \* symbols received and not consumed

\* What the header at the head of the buffer says, damaged or not.
PayloadLen == buf[5].is

IsMagicAt(b, i) == SubSeq(Symbols(b), i, i + 1) = Magic
MagicAt(b) == {i \in 1 .. Len(b) - 1 : IsMagicAt(b, i)}
First(S) == CHOOSE i \in S : \A j \in S : i <= j

\* Mutant: everything received is dropped when it holds no magic.
Keep_Nothing(b) == <<>>

\* A magic may straddle the end of the buffer.
Keep(b) == SubSeq(b, Len(b) - Len(Magic) + 2, Len(b))

\* No candidate: all but the last symbols go.
DropText ==
  /\ MagicAt(buf) = {} /\ Len(buf) >= Len(Magic)
  /\ buf' = Keep(buf)
  /\ UNCHANGED <<sent, hurt, wire, out>>

\* What stands before the first candidate goes.
DropBefore ==
  /\ MagicAt(buf) # {} /\ First(MagicAt(buf)) > 1
  /\ buf' = SubSeq(buf, First(MagicAt(buf)), Len(buf))
  /\ UNCHANGED <<sent, hurt, wire, out>>

Candidate == MagicAt(buf) # {} /\ First(MagicAt(buf)) = 1 /\ Len(buf) >= HEADER_LEN

BadLength ==
  /\ Candidate /\ TooLong(PayloadLen)
  /\ buf' = Tail(buf)
  /\ UNCHANGED <<sent, hurt, wire, out>>

Total    == HEADER_LEN + PayloadLen + 1
Complete == Candidate /\ ~TooLong(PayloadLen) /\ Len(buf) >= Total
CrcHolds == Crc(Symbols(SubSeq(buf, 1, Total - 1))) = buf[Total].is

\* Mutant: a candidate with a bad CRC is dropped whole.
Resync_Whole(b) == SubSeq(b, Total + 1, Len(b))

Resync(b) == Tail(b)

BadCrc ==
  /\ Complete /\ ~CrcHolds
  /\ buf' = Resync(buf)
  /\ UNCHANGED <<sent, hurt, wire, out>>

ReturnFrame ==
  /\ Complete /\ CrcHolds
  /\ out' = Append(out, buf[4].is)
  /\ buf' = SubSeq(buf, Total + 1, Len(buf))
  /\ UNCHANGED <<sent, hurt, wire>>

\* _try_parse returns nothing: read_frame reads what has arrived.
Incomplete ==
  IF MagicAt(buf) = {} THEN Len(buf) < Len(Magic)
  ELSE First(MagicAt(buf)) = 1 /\
         (Len(buf) >= HEADER_LEN => ~TooLong(PayloadLen) /\ Len(buf) < Total)

ReadChunk ==
  /\ Incomplete /\ wire # <<>>
  /\ \E n \in {1, 3, Len(wire)} \cap 1 .. Len(wire) :
       /\ buf'  = buf \o SubSeq(wire, 1, n)
       /\ wire' = SubSeq(wire, n + 1, Len(wire))
  /\ UNCHANGED <<sent, hurt, out>>

ReaderNext ==
  DropText \/ DropBefore \/ BadLength \/ BadCrc \/ ReturnFrame \/ ReadChunk

\* The undamaged frames that are wholly in what the receiver still has before it.
Pending ==
  LET ahead == {x.at : x \in ToSet(buf \o wire)} IN
    {n \in Undamaged : Span(sent, n) \subseteq ahead}

\* The frames returned were sent, each is returned once and in order, and no
\* resynchronisation drops one: an undamaged frame was returned or is wholly in
\* what is left to read.
NoFrameLost ==
  /\ ToSet(out) \subseteq DOMAIN sent
  /\ \A i, j \in DOMAIN out : i < j => out[i] < out[j]
  /\ Undamaged \subseteq ToSet(out) \cup Pending

\* A damaged length makes the reader wait for symbols that are not its frame's,
\* but never while it has as many as the longest frame: the frames behind are
\* held up no longer.
StallBounded == Incomplete => Len(buf) < MAX_FRAME
=============================================================================
