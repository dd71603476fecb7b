------------------------------ MODULE Decisions ------------------------------
(***************************************************************************)
(* The decisions taken off the board, each over one input: the gates over  *)
(* a linked image, the packing of a workload, the reading of a measurement *)
(* record, the statuses of stage 2A.                                       *)
(***************************************************************************)
EXTENDS ElfGates, WorkloadBlob, MeasurementRecord, Attribution

CONSTANTS
  Packings,   \* [profs, flags, info]: calls of the packer
  Records,    \* [seq, flags, rc, body]: measurements the runner sends
  Metrics,    \* [op, ref]: one counter and mac_active_ratio of two operators
  Operators   \* [counter, mac, low, c]: an operator against the reference

Figures == [min : Int, median : Int, max : Int]

ASSUME DecisionsAssumption ==
  /\ \A q \in Packings :
       /\ IsWorkload(q.info) /\ IsKnobArgs(q.flags)
       /\ \A p \in q.profs : IsKnobArgs(knob_args(p)) /\ q.profs = {p}
  /\ Records \subseteq [seq : Int, flags : Int, rc : Int, body : Seq(Int)]
  /\ \A q \in Records : Len(q.body) \in KnownFields .. MaxWords - HEADER_WORDS
  /\ Metrics \subseteq [op : [counter : Figures, mac : Figures],
                       ref : [counter : Figures, mac : Figures]]
  /\ Operators \subseteq [counter : [Inactivity -> Figures], mac : Figures, low : BOOLEAN,
                         c : {"LOWER", "HIGHER", "OVERLAP"}]

VARIABLES question, answer

vars == <<elfVars, question, answer>>

NoAnswer == [version |-> -1]

Questions ==
  [kind : {"pack"}, of : Packings] \cup [kind : {"record"}, of : Records]
    \cup [kind : {"metric"}, of : Metrics] \cup [kind : {"operator"}, of : Operators]

Init ==
  /\ answer = NoAnswer
  /\ \/ ElfInit /\ question = [kind |-> "elf"]
     \/ /\ question \in Questions
        /\ elf = [defined |-> {}, calls |-> {}] /\ phase = "idle"
        /\ seen = {} /\ queue = {} /\ measured = {}

Kargs(q) == IF q.profs = {} THEN q.flags ELSE knob_args(CHOOSE p \in q.profs : TRUE)

Pack ==
  /\ question.kind = "pack"
  /\ LET q == question.of IN answer' = PackVela(q.profs, q.flags, q.info)

Record ==
  /\ question.kind = "record"
  /\ LET q == question.of
         p == build_payload(q.seq, q.flags, q.rc, q.body)
     IN answer' = [whole   |-> parse_measurement_payload(p),
                   damaged |-> {parse_measurement_payload(d) : d \in Damaged(p)}]

Judge ==
  /\ question.kind = "metric"
  /\ LET q == question.of IN
       answer' = [s \in {"TRM", "driver"} |-> inactivity_status(q.op, q.ref, s)]

\* Operators are judged against a reference with a stall metric of 1 and a
\* mac_active_ratio of 3 in every run.
Always(n) == [min |-> n, median |-> n, max |-> n]

\* The statuses of one operator.
statuses(q) ==
  LET higher == {h \in STALLS : separation(q.counter[h], Always(1)) = "HIGHER"}
  IN [h \in DOMAIN ROUTES |->
        IF h \in Inactivity
          THEN inactivity_status([counter |-> q.counter[h], mac |-> q.mac],
                                 [counter |-> Always(1), mac |-> Always(3)], Source(h))
          ELSE efficiency_status(q.low, q.c, higher)[h]]

\* The statuses of one operator, and where they route it.
Route ==
  /\ question.kind = "operator"
  /\ LET status == statuses(question.of) IN
       answer' = [status |-> status, routes |-> hypotheses(status)]

Decide ==
  /\ answer = NoAnswer
  /\ Pack \/ Record \/ Judge \/ Route
  /\ UNCHANGED <<elfVars, question>>

Gate == question.kind = "elf" /\ ElfNext /\ UNCHANGED <<question, answer>>

Next == Decide \/ Gate
Spec == Init /\ [][Next]_vars

Answered(kind) == question.kind = kind /\ answer # NoAnswer

-----------------------------------------------------------------------------
\* A packed blob gives the host's parser back what was packed, knobs and tensors
\* (pmwl.py), whatever version the packer chose and whether the knobs came from
\* flags or from a profile.
BlobReadsBack ==
  Answered("pack") /\ answer # Refused =>
    RoundTrip(question.of.info, Kargs(question.of), answer)

\* No two sections of a packed blob share a byte, each is 16-byte aligned and
\* inside the blob ("each 16-byte aligned").
BlobSectionsApart == Answered("pack") /\ answer # Refused => SectionsApart(answer)

\* The runner's loader makes of a packed blob what its knobs asked for: the port
\* of every region, and tensors behind the blob that overlap nothing.
LoaderHonoursBlob ==
  Answered("pack") /\ answer # Refused => PortsHonoured(Kargs(question.of), answer)

\* A record comes through whole: its header, the known fields, code, value and
\* overflow of every valid slot, the cycle count if it is valid, and the fields of
\* a newer image; a slot or a count that is not valid is None, and so is the block of
\* an image without one.  With one word damaged or lost the record is refused
\* (measurement_payload_crc's split range).
RecordSurvives ==
  Answered("record") =>
    LET q == question.of
        m == answer.whole
        w == SubSeq(q.body, KnownFields + 1, Len(q.body))
    IN /\ answer.damaged = {Malformed}
       /\ m.run_sequence = q.seq /\ m.run_rc = q.rc /\ m.valid_flags = q.flags
       /\ m.fields = SubSeq(q.body, 1, KnownFields)
       /\ Len(w) < PmuFields => m.pmu = NoPmu /\ m.trailing = <<>>
       /\ Len(w) >= PmuFields =>
            /\ \A n \in 1 .. Slots :
                 IF Bit(w[1], n)
                   THEN /\ m.pmu.event_codes[n] = w[2 + n]
                        /\ m.pmu.event_values[n] = w[2 + Slots + n]
                        /\ m.pmu.event_overflow[n] = IF Bit(w[2], n) THEN 1 ELSE 0
                   ELSE /\ m.pmu.event_codes[n] = None
                        /\ m.pmu.event_values[n] = None
                        /\ m.pmu.event_overflow[n] = None
            /\ m.pmu.cycles = IF w[PmuFields] = 0 THEN None ELSE w[PmuFields - 1]
            /\ m.trailing = SubSeq(w, PmuFields + 1, Len(w))

\* A hypothesis is supported, in part or as a correlation, only if every measured
\* run of the operator, against every run of the reference, shows less MAC
\* activity and more of the counter; and no driver-derived counter supports one
\* (contract.md sections 7 and 8).
ClaimsHoldForEveryRun ==
  Answered("metric") =>
    LET op == question.of.op
        ref == question.of.ref
        Runs(s) == s.min .. s.max
    IN /\ \A s \in {"TRM", "driver"} :
            answer[s] \in {"SUPPORTED", "PARTIAL_SUPPORT", "CORRELATED_ONLY"} =>
              /\ \A x \in Runs(op.mac), y \in Runs(ref.mac) : x < y
              /\ \A x \in Runs(op.counter), y \in Runs(ref.counter) : x > y
       /\ answer["driver"] # "SUPPORTED"

\* An operator with low MAC activity is always routed to a later stage, H5 and H6
\* are never both supported, and neither is of an operator whose active-cycle
\* efficiency is not low (contract.md sections 8 and 9).
EveryOperatorRouted ==
  Answered("operator") =>
    LET s == answer.status IN
      /\ question.of.mac.max < 3 => answer.routes \cap (Inactivity \cup {"P6"}) # {}
      /\ ~(s.H5 = "SUPPORTED" /\ s.H6 = "SUPPORTED")
      /\ ~question.of.low => s.H5 # "SUPPORTED" /\ s.H6 # "SUPPORTED"
=============================================================================
