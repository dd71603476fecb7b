----------------------------- MODULE SerialLine -----------------------------
(***************************************************************************)
(* Frames as symbols on a line that loses and damages them.  A frame is    *)
(* two symbols of magic (four bytes in the code), version, sequence        *)
(* number, payload length, payload, and one symbol for the CRC-32.         *)
(***************************************************************************)
EXTENDS Integers, SequencesExt

CONSTANTS
  Sends,       \* sequences of payloads: what the sender sends, one frame each
  Byte,        \* what a damaged symbol may become
  MAX_PAYLOAD,
  MaxFaults    \* bound on symbols lost or damaged

ASSUME LineAssumption ==
  /\ MAX_PAYLOAD \in Nat /\ MaxFaults \in Nat /\ Byte \subseteq 0 .. 9
  /\ Sends \subseteq Seq(Seq(Nat))
  /\ \A s \in Sends : \A n \in DOMAIN s : Len(s[n]) <= MAX_PAYLOAD

VARIABLES
  sent,  \* the payloads sent, by sequence number
  hurt,  \* positions of the line lost or damaged
  wire,  \* symbols on their way, with the position each was sent at
  out    \* what the receiver made of them: sequence numbers, 0 for a refusal

lineVars == <<sent, hurt, wire, out>>

Magic   == <<9, 8>>
VERSION == 1
HEADER_LEN == 5
MAX_FRAME  == HEADER_LEN + MAX_PAYLOAD + 1

\* Mutant: the bound is on the frame, not on its payload.
TooLong_Frame(len) == len > MAX_FRAME

TooLong(len) == len > MAX_PAYLOAD

\* CRC: the decimal number the symbols spell, out of a byte's range.
CrcStep(crc, symbol) == (10 * crc + (symbol % 10)) % 200000003

Crc(s) ==
  LET crc[n \in 0 .. Len(s)] == IF n = 0 THEN 1 ELSE CrcStep(crc[n - 1], s[n])
  IN crc[Len(s)]

build_frame(seq, payload) ==
  LET body == Magic \o <<VERSION, seq, Len(payload)>> \o payload IN body \o <<Crc(body)>>

\* The line when the first n frames have been sent.
Lines(s) ==
  LET line[n \in 0 .. Len(s)] == IF n = 0 THEN <<>> ELSE line[n - 1] \o build_frame(n, s[n])
  IN line

Line(s) == Lines(s)[Len(s)]

\* Where frame n of s begins on the line, and the positions it fills.
StartOf(s, n) == Len(Lines(s)[n - 1]) + 1
Span(s, n)    == StartOf(s, n) .. StartOf(s, n) + HEADER_LEN + Len(s[n])

\* What arrives when the symbols at lost are lost and those at bad become b.
Arrives(s, lost, bad, b) ==
  LET line == Line(s)
      arrived[p \in 0 .. Len(line)] ==
        IF p = 0 THEN <<>>
        ELSE IF p \in lost THEN arrived[p - 1]
        ELSE Append(arrived[p - 1], [at |-> p, is |-> IF p \in bad THEN b ELSE line[p]])
  IN arrived[Len(line)]

\* The positions that may be lost or damaged.
Hurts(s) ==
  {{f[i] : i \in 1 .. MaxFaults} \ {0} : f \in [1 .. MaxFaults -> DOMAIN Line(s) \cup {0}]}

Symbols(s) == [n \in DOMAIN s |-> s[n].is]

\* What a receiver takes for a frame.
Passes(x) ==
  /\ Len(x) > HEADER_LEN /\ x[1] = Magic[1] /\ x[2] = Magic[2]
  /\ x[5] <= MAX_PAYLOAD /\ Len(x) = HEADER_LEN + x[5] + 1
  /\ x[Len(x)] = Crc(SubSeq(x, 1, Len(x) - 1))

\* The CRC tells: what passes for a frame is one that was sent, to its last symbol,
\* and no other begins in it.
ASSUME CrcAssumption ==
  \A s \in Sends : \A hurts \in Hurts(s) : \A lost \in SUBSET hurts, b \in Byte :
    LET a == Arrives(s, lost, hurts \ lost, b) IN
    (\A p \in hurts \ lost : Line(s)[p] # b) =>
      \A i, j \in DOMAIN a :
        i < j /\ Passes(Symbols(SubSeq(a, i, j))) =>
          \E n \in DOMAIN s :
            /\ Symbols(SubSeq(a, i, j)) = build_frame(n, s[n])
            /\ a[j].at = StartOf(s, n) + HEADER_LEN + Len(s[n])
            /\ \A k \in i .. j, m \in DOMAIN s : a[k].at = StartOf(s, m) => m = n

LineInit ==
  /\ sent \in Sends
  /\ hurt \in Hurts(sent)
  /\ \E lost \in SUBSET hurt, b \in Byte :
       /\ \A p \in hurt \ lost : Line(sent)[p] # b
       /\ wire = Arrives(sent, lost, hurt \ lost, b)
  /\ out = <<>>

\* Frames none of whose symbols is lost or damaged, by sequence number.
Undamaged == {n \in DOMAIN sent : Span(sent, n) \cap hurt = {}}
=============================================================================
