----------------------------- MODULE FrameParser -----------------------------
(***************************************************************************)
(* The firmware's receiver (proto.c): parse_one_frame takes the line byte  *)
(* by byte, and what it has taken it never looks at again.                 *)
(***************************************************************************)
EXTENDS SerialLine

VARIABLE got   \* symbols of the frame being received; fewer than two: of its magic

Arrived == Head(wire).is
Take    == wire' = Tail(wire) /\ UNCHANGED <<sent, hurt>>

Restart(b) == IF b = Magic[1] THEN <<b>> ELSE <<>>

sync_to_magic ==
  /\ Len(got) < Len(Magic)
  /\ got' = IF Arrived = Magic[Len(got) + 1] THEN Append(got, Arrived) ELSE Restart(Arrived)
  /\ UNCHANGED out

\* send_nack: the host is told that a frame was refused.
Refuse == out' = Append(out, 0) /\ got' = <<>>

\* Mutant: the length is compared with the longest frame's.
BadHeader_Frame(h) == h[3] # VERSION \/ h[5] > MAX_FRAME

\* Mutant: the longest payload is refused.
BadHeader_AtMax(h) == h[3] # VERSION \/ h[5] >= MAX_PAYLOAD

BadHeader(h) == h[3] # VERSION \/ TooLong(h[5])

ReadHeader ==
  /\ Len(got) \in Len(Magic) .. HEADER_LEN - 1
  /\ LET h == Append(got, Arrived) IN
       IF Len(h) = HEADER_LEN /\ BadHeader(h) THEN Refuse ELSE got' = h /\ UNCHANGED out

\* Mutant: a frame is dispatched without its CRC.
CrcMatches_Always(h, b) == TRUE

CrcMatches(h, b) == b = Crc(h)

ReadPayload ==
  /\ Len(got) >= HEADER_LEN
  /\ IF Len(got) < HEADER_LEN + got[5]
       THEN got' = Append(got, Arrived) /\ UNCHANGED out
       ELSE IF CrcMatches(got, Arrived)
              THEN out' = Append(out, got[4]) /\ got' = <<>>   \* dispatch
              ELSE Refuse

parse_one_frame ==
  wire # <<>> /\ (sync_to_magic \/ ReadHeader \/ ReadPayload) /\ Take

\* Where in out a command was dispatched.
Dispatched == {i \in DOMAIN out : out[i] # 0}

\* No command is dispatched that was not sent, twice, or out of order.
NothingInvented ==
  /\ \A i \in Dispatched : out[i] \in DOMAIN sent
  /\ \A i, j \in Dispatched : i < j => out[i] < out[j]

\* Lines on which the magic stands at the frames' starts only.
Plain(s) ==
  \A p \in 1 .. Len(Line(s)) - 1 :
    SubSeq(Line(s), p, p + 1) = Magic => \E n \in DOMAIN s : p = StartOf(s, n)

\* A lost or damaged symbol makes the parser swallow commands behind it, but no
\* more than start within one longest frame: when the line has been read, every
\* undamaged command that starts later was dispatched, as was every one before
\* the fault.  Lines that hold the magic elsewhere are left out: what follows it in
\* a command swallowed in part can pass for a frame.
SwallowBounded ==
  wire = <<>> /\ Plain(sent) =>
    \A n \in Undamaged :
      (\A p \in hurt : StartOf(sent, n) < p \/ StartOf(sent, n) > p + MAX_FRAME) =>
        n \in ToSet(out)
=============================================================================
