------------------------------ MODULE Campaign ------------------------------
(***************************************************************************)
(* run_pmu_events.py for one boot of run_campaign.sh: the operations on    *)
(* the link, one RUN after the other, then the files of the evidence       *)
(* directory, one after the other.  The board and the link are outside:    *)
(* each operation may be answered, refused (Nack) or fail (ProtocolError). *)
(* A directory may be that of an earlier campaign: its files stay until    *)
(* they are written again.                                                 *)
(* A record is what its RUN failed: names of the conditions of             *)
(* run_validity and of the gates, and the events that overflowed.          *)
(***************************************************************************)
EXTENDS Integers, FiniteSets, SequencesExt

CONSTANTS
  EventSlots,   \* SLOTS
  Again,        \* bound: the campaigns of which a second one is made after a first
  Tasks         \* campaigns [ids, mode, keep, repeats, checks, records]: records
                \* is the set of [bad, over, value] a RUN may report

\* A campaign asks for a RUN of an event at least.
ASSUME CampaignAssumption ==
  /\ Again \subseteq Tasks
  /\ EventSlots \in Nat \ {0}
  /\ \A t \in Tasks : t.ids \in Seq(Nat) \ {<<>>} /\ t.repeats \in Nat \ {0}

VARIABLES
  task,
  image,    \* the digests passed by run_campaign.sh
  pc,       \* the next operation
  at,       \* [set, rep] under way
  raw, rows, refusal,
  dir       \* the evidence directory

campVars == <<task, image, pc, at, raw, rows, refusal, dir>>

None    == "None"
NoValue == -1       \* None where a count is expected

-----------------------------------------------------------------------------
\* pmu_events_parse.py

Sorted(ids) == SortSeq(ids, LAMBDA a, b : a < b)

\* The members of S: the n-th has n - 1 below it.
Ascending(S) ==
  [n \in 1 .. Cardinality(S) |-> CHOOSE x \in S : Cardinality({y \in S : y < x}) = n - 1]

\* Mutant: an id requested twice is measured twice.
Wanted_Twice(ids) == Sorted(ids)

Wanted(ids) == Ascending(ToSet(ids))

\* Sets of EventSlots events, the last one of those that are left.
event_sets(ids) ==
  LET s == Wanted(ids)
      end(i) == IF i * EventSlots < Len(s) THEN i * EventSlots ELSE Len(s)
  IN [i \in {k \in DOMAIN s : (k - 1) * EventSlots < Len(s)} |->
        SubSeq(s, (i - 1) * EventSlots + 1, end(i))]

CommonTerms == {"cycle_valid", "cycle_progress", "seam_fired", "mode_applied_2", "applied_count",
                "valid_mask_full", "codes_echo"}
ExactTerms == {"rc_zero", "required_flags_ok"}
ModelTerms == {"vendor_rc_completed", "flags_completed", "stream_completed", "knobs_honoured"}
ValidityTerms(mode) == CommonTerms \cup (IF mode = "model" THEN ModelTerms ELSE ExactTerms)

\* The failed terms: a RUN is valid if there are none.
run_validity(r, mode) == r.bad \cap ValidityTerms(mode)

verdict(values) ==
  LET ok == {n \in DOMAIN values : values[n] # NoValue}
  IN IF Cardinality(ok) < task.repeats THEN "NOT_OBSERVED"
     ELSE IF \A n \in ok : values[n] > 0 THEN "COUNTED_NONZERO"
     ELSE IF \A n \in ok : values[n] = 0 THEN "COUNTED_ZERO"
     ELSE "INCONSISTENT"

Covers(by, ids) == by = ToSet(ids)

-----------------------------------------------------------------------------
NoTask == [ids |-> <<>>, mode |-> None, keep |-> FALSE, repeats |-> 0, checks |-> None,
           records |-> {}]

First == [set |-> 1, rep |-> 1]

CampInit ==
  /\ task = NoTask /\ image = None /\ pc = "off" /\ at = First
  /\ raw = <<>> /\ rows = <<>> /\ refusal = None
  /\ dir = <<>>

Running == pc \in {"ping", "mode", "prime", "run", "raw", "runs", "per_event", "summary"}

\* run_campaign.sh: a line of the plan, after the reboot, into a new directory or
\* the one of the campaign before (mkdir -p, exist_ok).
Launch(staged) ==
  /\ ~Running
  /\ task' \in Tasks
  /\ pc = "off" \/ {task, task'} \subseteq Again
  /\ pc' = "ping" /\ image' = staged
  /\ at' = First /\ raw' = <<>> /\ rows' = <<>> /\ refusal' = None
  /\ dir' \in {<<>>, dir}

Refuse(rule) == refusal' = rule /\ pc' = "raw"

\* An exception nothing catches: the link is closed, no file is written.
Uncaught == pc' = "crashed" /\ UNCHANGED refusal

Ping ==
  /\ pc = "ping"
  /\ \/ pc' = "mode" /\ UNCHANGED refusal
     \/ Refuse("RULE_PING")      \* not idle, or an error counter is not zero
     \/ Uncaught
  /\ UNCHANGED <<task, image, at, raw, rows, dir>>

\* The model is staged for the first set only, or for every set.
Stages == at.set = 1 \/ ~task.keep

\* RESET and SET_INSTRUMENTATION_MODE: a Nack or another mode is refused, a
\* ProtocolError is not caught.
SetMode ==
  /\ pc = "mode"
  /\ \/ pc' = (IF Stages THEN "prime" ELSE "run") /\ UNCHANGED refusal
     \/ Refuse("RULE_MODE_NACK")
     \/ Uncaught
  /\ UNCHANGED <<task, image, at, raw, rows, dir>>

prime ==
  /\ pc = "prime"
  /\ \/ pc' = "run" /\ UNCHANGED refusal
     \/ Refuse("RULE_RUN_TRANSPORT")
  /\ UNCHANGED <<task, image, at, raw, rows, dir>>

Codes == event_sets(task.ids)[at.set]

\* One row per event of the RUN.
RowsOf(r) ==
  LET failed == run_validity(r, task.mode)
  IN [n \in DOMAIN Codes |->
        [set |-> at.set, rep |-> at.rep, ev_type |-> Codes[n], run_valid |-> failed = {},
         event_value |-> IF failed = {} THEN r.value ELSE NoValue,
         event_overflow |-> Codes[n] \in r.over, bad |-> r.bad]]

Advance ==
  \/ at.rep < task.repeats /\ at' = [at EXCEPT !.rep = @ + 1] /\ pc' = "run"
  \/ /\ at.rep = task.repeats /\ at.set + 1 \in DOMAIN event_sets(task.ids)
     /\ at' = [set |-> at.set + 1, rep |-> 1] /\ pc' = "mode"
  \/ /\ at.rep = task.repeats /\ at.set + 1 \notin DOMAIN event_sets(task.ids)
     /\ pc' = "raw" /\ UNCHANGED at

run ==
  /\ pc = "run"
  /\ \/ /\ \/ Refuse("RULE_RUN_TRANSPORT")
           \/ Refuse("RULE_RECORD_SCHEMA")   \* no PMU block, another schema
           \/ /\ \E r \in task.records : "codes_echo" \in r.bad /\ "valid_mask_full" \notin r.bad
              /\ Refuse("RULE_CODES_ECHO")
        /\ UNCHANGED <<at, raw, rows>>
     \/ \E r \in task.records :
          /\ "codes_echo" \in r.bad => "valid_mask_full" \in r.bad
          /\ raw' = Append(raw, r)
          /\ rows' = rows \o RowsOf(r)
          /\ Advance
          /\ UNCHANGED refusal
  /\ UNCHANGED <<task, image, dir>>

-----------------------------------------------------------------------------
\* The files, in the order they are written.
Then == [raw |-> "runs", runs |-> "per_event", per_event |-> "summary", summary |-> "ended"]

\* The values of an event, by the row each is from.
Values(ev) == [n \in {k \in DOMAIN rows : rows[k].ev_type = ev} |-> rows[n].event_value]
Seen == {rows[n].ev_type : n \in DOMAIN rows}

per_event == [ev \in Seen |-> verdict(Values(ev))]

Summary ==
  [image |-> image, requested_ids |-> Ascending(ToSet(task.ids)),
   runs |-> Len(raw), refusal |-> refusal, complete |-> Covers(Seen, task.ids)]

Put(file, content) ==
  dir' = [d \in DOMAIN dir \cup {file} |-> IF d = file THEN content ELSE dir[d]]

\* runs.csv and per_event.csv are written only if there are rows.
Written ==
  CASE pc = "raw"       -> Put(pc, raw)
    [] pc = "runs"      -> IF rows = <<>> THEN UNCHANGED dir ELSE Put(pc, rows)
    [] pc = "per_event" -> IF rows = <<>> THEN UNCHANGED dir ELSE Put(pc, per_event)
    [] pc = "summary"   -> Put(pc, Summary)

Write ==
  /\ pc \in DOMAIN Then
  /\ Written
  /\ pc' = Then[pc]
  /\ UNCHANGED <<task, image, at, raw, rows, refusal>>

\* The process is killed, maybe while it writes a file: runs.csv then has the
\* first rows, summary.json cannot be parsed.
Killed ==
  /\ Running
  /\ pc' = "killed"
  /\ \/ UNCHANGED dir
     \/ /\ pc = "runs" /\ rows # <<>>
        /\ \E n \in 0 .. Len(rows) - 1 : Put(pc, SubSeq(rows, 1, n))
     \/ /\ pc = "summary"
        /\ Put(pc, [torn |-> TRUE])
  /\ UNCHANGED <<task, image, at, raw, rows, refusal>>

CampNext == Ping \/ SetMode \/ prime \/ run \/ Write \/ Killed
=============================================================================
