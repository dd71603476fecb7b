---------------------------- MODULE ModelUpload ----------------------------
(***************************************************************************)
(* The staged upload of a model image (proto.c): LOAD_MODEL_BEGIN, the     *)
(* chunks, LOAD_MODEL_END and LOAD_INPUT.  The staging window is memory    *)
(* the linker reserves; nothing clears it, so a byte staged by an earlier  *)
(* upload, or written by a workload whose tensors sit behind the image,    *)
(* stays until something overwrites it.                                    *)
(*                                                                         *)
(* An image is the sequence of its bytes, and the CRC-32 over a range of   *)
(* staging is that range's contents: two different images are taken to     *)
(* have different CRCs.                                                    *)
(***************************************************************************)
EXTENDS RunnerProtocol

CONSTANTS
  StagingSize, \* bytes of the staging window
  Byte,        \* values of a byte
  MaxStaged    \* bound on model_bytes_staged, a counter the host only reads

ASSUME StagingAssumption ==
  /\ StagingSize \in Nat \ {0}
  /\ Byte # {}
  /\ MaxStaged \in Nat

VARIABLES
  staging,            \* the staging window, by offset
  model_total_length, \* length LOAD_MODEL_BEGIN announced
  model_expected_crc, \* digest LOAD_MODEL_BEGIN announced
  model_bytes_staged, \* bytes memcpy'd since LOAD_MODEL_BEGIN
  last_chunk          \* the last chunk staged, for retransmission

contextVars ==
  <<model_total_length, model_expected_crc, model_bytes_staged, last_chunk>>
uploadVars == <<staging, contextVars>>

Offset == 0 .. StagingSize - 1
Image  == Seq(Byte)

NoChunk == [valid |-> FALSE, seq |-> 0, off |-> 0, data |-> <<>>]

\* crc32_buffer over the first n bytes of a memory.
Digest(mem, n) == [i \in 1 .. n |-> mem[i - 1]]

\* memcpy of data to offset off.
Staged(off, data) ==
  [i \in Offset |->
     IF i \in off .. off + Len(data) - 1 THEN data[i - off + 1] ELSE staging[i]]

\* What writing b behind the staged image, where a workload keeps the tensors
\* it reaches through the NPU's SRAM port, leaves in staging.
BehindImage(b) ==
  [i \in Offset |-> IF i < model_total_length THEN staging[i] ELSE b]

-----------------------------------------------------------------------------
\* Mutant: an image one byte longer than the staging window is accepted.
LengthFits_OffByOne(n) == n # 0 /\ n <= StagingSize + 1

LengthFits(n) == n # 0 /\ n <= StagingSize

LoadModelBegin(q, n, crc) ==
  /\ Dispatch("LOAD_MODEL_BEGIN")
  /\ LengthFits(n)
  /\ model_total_length' = n
  /\ model_expected_crc' = crc
  /\ model_bytes_staged' = 0
  /\ last_chunk' = NoChunk
  /\ Enter("MODEL_LOADING", Ack("LOAD_MODEL_BEGIN", q, n))
  /\ UNCHANGED staging

RefuseModelBegin(q, n) ==
  /\ Dispatch("LOAD_MODEL_BEGIN")
  /\ ~LengthFits(n)
  /\ Answer(Nack("LOAD_MODEL_BEGIN", q, "RANGE"))
  /\ UNCHANGED uploadVars

\* Mutant: the duplicate test compares sequence numbers the wrong way round.
IsRepeat_Reversed(q) == last_chunk.valid /\ q < last_chunk.seq

IsRepeat(q) == last_chunk.valid /\ q = last_chunk.seq

ChunkInside(off, len) ==
  /\ RangeInside(off, len, 0, model_total_length)
  /\ RangeInside(off, len, 0, StagingSize)

StageChunk(q, off, data) ==
  /\ Dispatch("LOAD_MODEL_CHUNK")
  /\ ~IsRepeat(q)
  /\ ChunkInside(off, Len(data))
  /\ model_bytes_staged + Len(data) <= MaxStaged
  /\ staging' = Staged(off, data)
  /\ model_bytes_staged' = model_bytes_staged + Len(data)
  /\ last_chunk' = [valid |-> TRUE, seq |-> q, off |-> off, data |-> data]
  /\ Answer(Ack("LOAD_MODEL_CHUNK", q, model_bytes_staged'))
  /\ UNCHANGED <<model_total_length, model_expected_crc>>

RefuseChunk(q, off, data) ==
  /\ Dispatch("LOAD_MODEL_CHUNK")
  /\ ~IsRepeat(q)
  /\ ~ChunkInside(off, Len(data))
  /\ Answer(Nack("LOAD_MODEL_CHUNK", q, "RANGE"))
  /\ UNCHANGED uploadVars

\* A chunk under the sequence number just staged: the same chunk is
\* acknowledged again and nothing is written, another one is refused.
RepeatChunk(q, off, data) ==
  /\ Dispatch("LOAD_MODEL_CHUNK")
  /\ IsRepeat(q)
  /\ \/ /\ off = last_chunk.off /\ data = last_chunk.data
        /\ Answer(Ack("LOAD_MODEL_CHUNK", q, model_bytes_staged))
     \/ /\ ~(off = last_chunk.off /\ data = last_chunk.data)
        /\ Answer(Nack("LOAD_MODEL_CHUNK", q, "CHUNK_MISMATCH"))
  /\ UNCHANGED uploadVars

\* Mutant: the image is taken as whole once enough bytes were staged.
CrcMatches_ByCount == model_bytes_staged = model_total_length

CrcMatches == Digest(staging, model_total_length) = model_expected_crc

LoadModelEnd(q) ==
  /\ Dispatch("LOAD_MODEL_END")
  /\ \/ /\ CrcMatches
        /\ Enter("MODEL_READY", Ack("LOAD_MODEL_END", q, model_total_length))
     \/ /\ ~CrcMatches
        /\ Answer(Nack("LOAD_MODEL_END", q, "MODEL_CRC"))
  /\ UNCHANGED uploadVars

\* LOAD_INPUT's payload is only measured: the image carries its own input.
LoadInput(q) ==
  /\ Dispatch("LOAD_INPUT")
  /\ Enter("INPUT_READY", Ack("LOAD_INPUT", q, 0))
  /\ UNCHANGED uploadVars

\* The part of runner_reset_context that is about the upload.
ClearUpload ==
  /\ model_total_length' = 0
  /\ model_expected_crc' = <<>>
  /\ model_bytes_staged' = 0
  /\ last_chunk' = NoChunk

UploadInit ==
  /\ staging \in [Offset -> Byte]
  /\ model_total_length = 0
  /\ model_expected_crc = <<>>
  /\ model_bytes_staged = 0
  /\ last_chunk = NoChunk

UploadTypeOK ==
  /\ staging \in [Offset -> Byte]
  /\ model_total_length \in 0 .. StagingSize
  /\ model_expected_crc \in Image
  /\ model_bytes_staged \in Nat
  /\ last_chunk \in [valid : BOOLEAN, seq : Nat, off : Nat, data : Image]
=============================================================================
