---------------------------- MODULE BaselineGate ----------------------------
(***************************************************************************)
(* From an evidence directory to the word about it: results.py reads       *)
(* runs.csv, baseline_gate.py and stage1.py judge every RUN and the boot.  *)
(***************************************************************************)
EXTENDS Integers, FiniteSets, SequencesExt

CONSTANTS
  CYCLE, NPU_ACTIVE, MAC_ACTIVE   \* event ids

\* results.load_runs: one run per repetition.  The validity and the return codes
\* are those of the first row, an overflow is that of any row, an event has its
\* last value, and none if it has no row or the RUN was invalid.
load_runs(rows) ==
  LET Mine(rep) == {n \in DOMAIN rows : rows[n].rep = rep}
      Value(mine, ev) == LET of == {n \in mine : rows[n].ev_type = ev}
                         IN IF of = {} THEN -1 ELSE rows[Max(of)].event_value
      One(mine) == [rep |-> rows[Min(mine)].rep, valid |-> rows[Min(mine)].run_valid,
                    bad |-> rows[Min(mine)].bad,
                    overflow |-> \E n \in mine : rows[n].event_overflow,
                    event |-> [ev \in {CYCLE, NPU_ACTIVE, MAC_ACTIVE} |-> Value(mine, ev)]]
  IN {One(Mine(rep)) : rep \in {rows[n].rep : n \in DOMAIN rows}}

ActiveFails(r) == r.event[NPU_ACTIVE] <= 0 \/ "active_le_window" \in r.bad

\* The failed checks of a RUN.
run_checks(r) ==
  LET holds == [R1_valid    |-> r.valid,
                R2_rc       |-> "rc_zero" \notin r.bad,
                R3_output   |-> r.bad \cap {"vendor_rc_zero", "ofm_equal"} = {},
                R4_overflow |-> ~r.overflow,
                R5_active   |-> ~ActiveFails(r),
                R6_cycle    |-> r.event[CYCLE] # -1 /\ "cycle_near_window" \notin r.bad]
  IN {k \in DOMAIN holds : ~holds[k]}

\* Stage 1 has no cycle event: R6s compares two of the counters.
stage1_checks(r) ==
  (run_checks(r) \ {"R6_cycle"})
    \cup (IF \/ r.event[NPU_ACTIVE] = -1 \/ r.event[MAC_ACTIVE] = -1
             \/ "mac_le_npu" \in r.bad
          THEN {"R6s_mac_le_npu"} ELSE {})

\* Mutant: the number of RUNs of the boot is not compared.
boot_checks_AnyRuns(summ, prof) ==
  (IF summ.image # prof.image THEN {"B1_image"} ELSE {}) \cup
  (IF summ.requested_ids # prof.ids \/ ~summ.complete \/ summ.refusal # "None"
   THEN {"B3_set"} ELSE {})

\* B1 and B3 of the boot; B2 compares digests of the blob, as WorkloadBlob packs it.
boot_checks(summ, prof) ==
  (IF summ.image # prof.image THEN {"B1_image"} ELSE {}) \cup
  (IF \/ summ.requested_ids # prof.ids \/ ~summ.complete
      \/ summ.refusal # "None" \/ summ.runs # prof.repeats
   THEN {"B3_set"} ELSE {})

\* A summary that cannot be parsed raises: there is no result.
gate(dir, prof) ==
  IF ~{"summary", "runs"} \subseteq DOMAIN dir THEN "UNPROVEN"
  ELSE IF "torn" \in DOMAIN dir.summary THEN "raises"
  ELSE LET runs == load_runs(dir.runs)
           Fails(r) == IF prof.checks = "stage1" THEN stage1_checks(r) ELSE run_checks(r)
           per_rep == {r.rep : r \in runs}
       IN IF /\ boot_checks(dir.summary, prof) = {}
             /\ \A r \in runs : Fails(r) = {}
             /\ Cardinality(per_rep) = prof.repeats
          THEN "BASELINE_PASS" ELSE "BASELINE_FAIL"
=============================================================================
