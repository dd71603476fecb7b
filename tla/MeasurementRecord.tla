-------------------------- MODULE MeasurementRecord --------------------------
(***************************************************************************)
(* The record a RUN_COMPLETE or GET_MEASUREMENT carries, as the host reads *)
(* it (runner_proto.py): a sequence of words, eight of header, then known  *)
(* fields, the PMU block, and fields of images newer than the host.  The   *)
(* CRC-32 is replaced by a weighted sum, which like it tells any one       *)
(* damaged word.                                                           *)
(***************************************************************************)
EXTENDS Integers, SequencesExt

CONSTANTS
  KnownFields, \* RME_KNOWN_FIELDS_V1
  Slots,       \* NPU_PMU_ABI_EVENT_SLOTS
  MaxWords     \* RME_MAX_WORDS

ASSUME RecordAssumption == KnownFields \in Nat /\ Slots \in Nat /\ MaxWords \in Nat

HEADER_WORDS == 8
RME_MAGIC == 77
ABI_VERSION == 1
None == -1
Malformed == [run_sequence |-> None]
NoPmu == [cycles |-> None]    \* an image without the block

\* Words of the PMU block this model keeps: the masks of valid and of overflowed
\* slots, a code and a value per slot, the cycle count and whether it is valid.
PmuFields == 2 + 2 * Slots + 2
PmuTotal  == HEADER_WORDS + KnownFields + PmuFields

\* The checksum of some words: each counts with its place.
Checksum(w) ==
  LET sum[n \in 0 .. Len(w)] == IF n = 0 THEN 0 ELSE sum[n - 1] + n * w[n]
  IN sum[Len(w)]

\* Over the words from the run sequence to the end, without the CRC itself.
\* Mutant: a contiguous range behind the CRC.
measurement_payload_crc_Contiguous(p) == Checksum(SubSeq(p, 9, Len(p)))

measurement_payload_crc(p) == Checksum(SubSeq(p, 5, 7) \o SubSeq(p, 9, Len(p)))

Bit(mask, n) == (mask \div 2^(n - 1)) % 2 = 1

\* A slot is judged by the valid mask alone; what is not valid is None.
\* Mutant: a slot is judged by its code.
decode_pmu_block_ByCode(w) ==
  LET slot(n, x) == IF w[2 + n] # 0 THEN x ELSE None IN
    [event_codes    |-> [n \in 1 .. Slots |-> slot(n, w[2 + n])],
     event_values   |-> [n \in 1 .. Slots |-> slot(n, w[2 + Slots + n])],
     event_overflow |-> [n \in 1 .. Slots |-> slot(n, IF Bit(w[2], n) THEN 1 ELSE 0)],
     cycles         |-> IF w[PmuFields] # 0 THEN w[PmuFields - 1] ELSE None]

decode_pmu_block(w) ==
  LET slot(n, x) == IF Bit(w[1], n) THEN x ELSE None IN
    [event_codes    |-> [n \in 1 .. Slots |-> slot(n, w[2 + n])],
     event_values   |-> [n \in 1 .. Slots |-> slot(n, w[2 + Slots + n])],
     event_overflow |-> [n \in 1 .. Slots |-> slot(n, IF Bit(w[2], n) THEN 1 ELSE 0)],
     cycles         |-> IF w[PmuFields] # 0 THEN w[PmuFields - 1] ELSE None]

parse_measurement_payload(p) ==
  IF \/ Len(p) < HEADER_WORDS
     \/ p[1] # RME_MAGIC \/ p[2] # ABI_VERSION
     \/ p[4] # HEADER_WORDS
     \/ p[3] < HEADER_WORDS + KnownFields \/ p[3] > MaxWords
     \/ p[3] # Len(p)
     \/ measurement_payload_crc(p) # p[8]
    THEN Malformed
    ELSE [run_sequence |-> p[5], valid_flags |-> p[6], run_rc |-> p[7],
          fields |-> SubSeq(p, 9, 8 + KnownFields),
          pmu |-> IF p[3] >= PmuTotal
                    THEN decode_pmu_block(SubSeq(p, 9 + KnownFields, PmuTotal))
                    ELSE NoPmu,
          trailing |-> SubSeq(p, PmuTotal + 1, Len(p))]

\* build_run_complete_payload: what the runner makes of header fields and a body.
build_payload(seq, flags, rc, body) ==
  LET p == <<RME_MAGIC, ABI_VERSION, HEADER_WORDS + Len(body), HEADER_WORDS, seq, flags, rc, None>>
             \o body
  IN [p EXCEPT ![8] = measurement_payload_crc(p)]

\* What one damaged word, or a lost last word, makes of a payload.
Damaged(p) ==
  {[p EXCEPT ![i] = @ + 1] : i \in DOMAIN p} \cup {SubSeq(p, 1, Len(p) - 1)}
=============================================================================
