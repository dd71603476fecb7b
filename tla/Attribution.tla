----------------------------- MODULE Attribution -----------------------------
(***************************************************************************)
(* Stage 2A's statuses (stage2a.py) over the statistics of two operators:  *)
(* a metric is a record [min, median, max] of its measured runs.  Ratios   *)
(* are taken at a common scale, so that their differences are numbers.     *)
(***************************************************************************)
EXTENDS Integers

CONSTANT Values   \* values a metric takes

ASSUME ValuesAssumption == Values \subseteq Int

Stats == {s \in [min : Values, median : Values, max : Values] :
            s.min <= s.median /\ s.median <= s.max}

Inactivity == {"H1", "H2", "H3b", "H4"}
STALLS == {"H1", "H2", "H3b"}   \* the hypotheses whose counters are stalls
Source(h) == IF h \in {"H1", "H4"} THEN "TRM" ELSE "driver"

\* Mutant: medians are compared, not ranges.
separation_Medians(op, ref) ==
  CASE op.median > ref.median -> "HIGHER"
    [] op.median < ref.median -> "LOWER"
    [] op.median = ref.median -> "OVERLAP"

separation(op, ref) ==
  CASE op.min > ref.max -> "HIGHER"
    [] op.max < ref.min -> "LOWER"
    [] ~(op.min > ref.max) /\ ~(op.max < ref.min) -> "OVERLAP"

\* H1, H2, H3b and H4: op and ref hold the counter's metric and mac_active_ratio.
inactivity_status(op, ref, source) ==
  LET sep    == separation(op.counter, ref.counter)
      excess == op.counter.median - ref.counter.median
      gap    == ref.mac.median - op.mac.median
  IN IF separation(op.mac, ref.mac) # "LOWER" THEN "UNRESOLVED"
     ELSE IF sep = "HIGHER" THEN
       CASE source = "TRM"    -> IF excess >= gap THEN "SUPPORTED" ELSE "PARTIAL_SUPPORT"
         [] source = "driver" -> IF excess >= gap THEN "PARTIAL_SUPPORT" ELSE "CORRELATED_ONLY"
     ELSE IF sep = "OVERLAP" /\ excess > 0 THEN "UNRESOLVED" ELSE "REFUTED"

\* Mutant: H6 is judged without looking whether efficiency is low.
efficiency_status_NoLow(low, c, stalls_higher) ==
  [H5 |-> IF ~low \/ c = "LOWER" THEN "REFUTED"
          ELSE IF stalls_higher # {} THEN "UNRESOLVED" ELSE "SUPPORTED",
   H6 |-> CASE c = "LOWER" -> "SUPPORTED" [] c = "HIGHER" -> "REFUTED"
            [] c = "OVERLAP" -> "UNRESOLVED"]

\* H5 and H6: low says that the active-cycle efficiency is LOWER, c how
\* dpu_given_mac_active separates, stalls_higher which stall counters are HIGHER.
efficiency_status(low, c, stalls_higher) ==
  [H5 |-> IF ~low \/ c = "LOWER" THEN "REFUTED"
          ELSE IF stalls_higher # {} THEN "UNRESOLVED" ELSE "SUPPORTED",
   H6 |-> IF ~low THEN "REFUTED"
          ELSE CASE c = "LOWER" -> "SUPPORTED" [] c = "HIGHER" -> "REFUTED"
                 [] c = "OVERLAP" -> "UNRESOLVED"]

ROUTES == [H1 |-> {"SUPPORTED", "PARTIAL_SUPPORT"}, H2 |-> {"PARTIAL_SUPPORT", "CORRELATED_ONLY"},
           H3b |-> {"PARTIAL_SUPPORT", "CORRELATED_ONLY"}, H4 |-> {"SUPPORTED", "PARTIAL_SUPPORT"},
           H5 |-> {"SUPPORTED"}, H6 |-> {"SUPPORTED"}]

\* The hypotheses an operator's statuses send to a later stage; "P6" when there
\* is no component evidence.
hypotheses(status) ==
  {h \in DOMAIN ROUTES : status[h] \in ROUTES[h]} \cup
    IF \E h \in Inactivity : status[h] \in {"SUPPORTED", "PARTIAL_SUPPORT"} THEN {} ELSE {"P6"}
=============================================================================
