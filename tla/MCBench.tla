------------------------------ MODULE MCBench ------------------------------
(***************************************************************************)
(* Two runner images, the MLEK set, two evidence roots; campaigns of two   *)
(* RUNs per set, of one and of two sets, with an id requested twice, and   *)
(* second campaigns of one set.                                            *)
(***************************************************************************)
EXTENDS Bench

RunnerImages == {"A", "B"}
CONSTANTS r1, r2
FewRoots == {r1, r2}
AnyRoot == Permutations(FewRoots)

Task(ids, mode, keep, checks, records) ==
  [ids |-> ids, mode |-> mode, keep |-> keep, repeats |-> 2, checks |-> checks,
   records |-> records]

Failing(b) == [bad |-> b, over |-> {}, value |-> 1]
Clean == Failing({})
Overflowed == [bad |-> {}, over |-> {48}, value |-> 1]
Zero == [bad |-> {}, over |-> {}, value |-> 0]

FewAgain ==
  {Task(<<35, 17>>, "model", TRUE, "stage0", {Clean, Failing({"seam_fired"})}),
   Task(<<48, 35>>, "model", TRUE, "stage1", {Clean})}

FewTasks ==
  {Task(<<35, 17>>, "exact", FALSE, "stage0",
        {Clean, Zero, Failing({"seam_fired"}), Failing({"codes_echo"}), Failing({"ofm_equal"}),
         Failing({"rc_zero", "knobs_honoured"})}),
   Task(<<17, 35, 17>>, "model", TRUE, "stage0",
        {Clean, Failing({"valid_mask_full", "codes_echo"}), Failing({"cycle_near_window"}),
         Failing({"rc_zero", "knobs_honoured"})}),
   Task(<<48, 35>>, "model", TRUE, "stage1",
        {Clean, Overflowed, Failing({"ofm_equal"}), Failing({"active_le_window"}),
         Failing({"mac_le_npu"})}),
   Task(<<48, 17, 35>>, "model", FALSE, "stage0", {Clean, Overflowed})}
    \cup FewAgain
=============================================================================
