-------------------------- MODULE DecisionsProofs --------------------------
(***************************************************************************)
(* The search of check_measure_symbols.py finds exactly what direct calls  *)
(* reach, for every image and every set of roots, so that a clean verdict  *)
(* means what the gate promises; the claims of stage2a.py hold for every   *)
(* run, whatever the figures; a measurement record comes through whole or  *)
(* is refused; and a packed blob reads back, overlaps nowhere and is run   *)
(* as it asks to be, whatever its tensors, lengths and knobs.              *)
(***************************************************************************)
EXTENDS Decisions, DataInduction, SequenceTheorems, TLAPS

\* The roots of the search under way.
Roots == (IF phase = "measured" THEN MeasuredRoots ELSE DispatchRoots) \cap elf.defined

\* What every set that holds the roots and is closed under calls holds.
Inside(S, roots) == \A T \in SUBSET Names : roots \subseteq T /\ Closed(T) => S \subseteq T

\* All that is called by what was looked at is found, and nothing else is.
Searching ==
  /\ elf \in Elfs
  /\ phase \in {"measured", "dispatch", "done"}
  /\ seen \subseteq Names /\ queue \subseteq seen
  /\ Roots \subseteq seen
  /\ \A f, t \in Names : f \in seen \ queue /\ <<f, t>> \in elf.calls => t \in seen
  /\ Inside(seen, Roots)
  /\ phase = "done" => queue = {}

\* The result kept of the first search.
Kept ==
  phase # "measured" =>
    /\ measured \subseteq Names
    /\ MeasuredRoots \cap elf.defined \subseteq measured
    /\ Closed(measured)
    /\ Inside(measured, MeasuredRoots \cap elf.defined)

ElfInv == Searching /\ Kept

\* A set that holds the roots, is closed, and is in every such set, is Reach.
LEMMA ReachIs ==
  ASSUME NEW S \in SUBSET Names, NEW R \in SUBSET Names,
         R \subseteq S, Closed(S), Inside(S, R)
  PROVE  Reach(R) = S
BY Zenon DEF Reach, Inside

\* Both searches start and go on with Searching, and Kept is the first one's end.
LEMMA Searches ==
  /\ ElfInit => ElfInv
  /\ ElfInv /\ [ElfNext]_elfVars => ElfInv'
<1>1. ElfInit => ElfInv
  <2>1. SUFFICES ASSUME ElfInit PROVE ElfInv
    OBVIOUS
  <2>2. elf \in Elfs /\ Roots \subseteq Names /\ seen = Roots /\ queue = Roots
    BY <2>1, ElfAssumption DEF ElfInit, Roots
  <2> QED BY <2>1, <2>2 DEF ElfInit, ElfInv, Searching, Kept, Inside
<1>2. ElfInv /\ [ElfNext]_elfVars => ElfInv'
  <2> SUFFICES ASSUME ElfInv, [ElfNext]_elfVars PROVE ElfInv'
    OBVIOUS
  <2> USE DEF ElfInv
  <2>1. CASE Visit
    <3>1. PICK f \in queue :
            LET new == {t \in Names : <<f, t>> \in elf.calls} \ seen IN
              /\ seen'  = seen \cup new
              /\ queue' = (queue \ {f}) \cup new
              /\ UNCHANGED <<elf, phase, measured>>
      BY <2>1 DEF Visit, Follow
    <3>2. f \in Names /\ phase # "done"
      BY <3>1 DEF Searching
    <3>3. Roots' = Roots
      BY <3>1 DEF Roots
    <3>4. Inside(seen', Roots)
      <4>1. SUFFICES ASSUME NEW T \in SUBSET Names, Roots \subseteq T, Closed(T)
                     PROVE  seen' \subseteq T
        BY DEF Inside
      <4>2. seen \subseteq T
        BY <4>1 DEF Searching, Inside
      <4>3. f \in T
        BY <3>1, <4>2 DEF Searching
      <4> QED BY <3>1, <3>2, <4>1, <4>2, <4>3 DEF Closed
    <3>5. \A g, t \in Names : g \in seen' \ queue' /\ <<g, t>> \in elf.calls => t \in seen'
      BY <3>1, <3>2 DEF Searching
    <3>6. Inside(seen, Roots)'
      BY <3>1, <3>3, <3>4 DEF Inside, Closed
    <3>7. Searching'
      BY <3>1, <3>2, <3>3, <3>5, <3>6 DEF Searching
    <3>8. Kept'
      BY <3>1 DEF Kept, Inside, Closed
    <3> QED BY <3>7, <3>8
  <2>2. CASE MeasuredDone
    <3>1. /\ phase = "measured" /\ queue = {} /\ phase' = "dispatch"
          /\ measured' = seen /\ elf' = elf
          /\ seen' = DispatchRoots \cap elf.defined /\ queue' = DispatchRoots \cap elf.defined
      BY <2>2 DEF MeasuredDone, Enqueue
    <3>2. Roots' = seen' /\ seen' \subseteq Names
      BY <3>1, ElfAssumption DEF Roots
    <3>3. Searching'
      BY <3>1, <3>2 DEF Searching, Inside
    <3>4. Closed(measured)'
      BY <3>1 DEF Searching, Closed
    <3>5. Kept'
      BY <3>1, <3>4 DEF Kept, Searching, Inside, Roots, Closed
    <3> QED BY <3>3, <3>5
  <2>3. CASE DispatchDone
    BY <2>3 DEF DispatchDone, Searching, Kept, Inside, Roots, Closed
  <2>4. CASE UNCHANGED elfVars
    BY <2>4 DEF elfVars, Searching, Kept, Inside, Roots, Closed
  <2> QED BY <2>1, <2>2, <2>3, <2>4 DEF ElfNext
<1> QED BY <1>1, <1>2

\* No image is looked at: another question was asked.
NoImage == phase = "idle" /\ queue = {}

LEMMA ImageHolds == Spec => [](NoImage \/ ElfInv)
<1>1. Init => NoImage \/ ElfInv
  BY Searches DEF Init, NoImage
<1>2. [Next]_vars => [ElfNext]_elfVars
  BY DEF Next, Decide, Gate, vars
<1>3. NoImage /\ [ElfNext]_elfVars => NoImage'
  BY DEF NoImage, ElfNext, Visit, MeasuredDone, DispatchDone, elfVars
<1> QED BY <1>1, <1>2, <1>3, Searches, PTL DEF Spec

\* When both searches are over, what they found is what direct calls reach from
\* the roots the image has.
THEOREM SearchIsReachability ==
  Spec => [](phase = "done" =>
                  /\ measured = Reach(MeasuredRoots \cap elf.defined)
                  /\ seen = Reach(DispatchRoots \cap elf.defined))
<1>1. ASSUME ElfInv, phase = "done"
      PROVE  /\ measured = Reach(MeasuredRoots \cap elf.defined)
             /\ seen = Reach(DispatchRoots \cap elf.defined)
  <2>1. measured = Reach(MeasuredRoots \cap elf.defined)
    BY <1>1, ElfAssumption, ReachIs DEF ElfInv, Kept
  <2>2. Closed(seen) /\ Roots = DispatchRoots \cap elf.defined
    BY <1>1 DEF ElfInv, Searching, Closed, Roots
  <2>3. seen = Reach(DispatchRoots \cap elf.defined)
    BY <1>1, <2>2, ElfAssumption, ReachIs DEF ElfInv, Searching
  <2> QED BY <2>1, <2>3
<1>2. NoImage \/ ElfInv =>
        (phase = "done" => /\ measured = Reach(MeasuredRoots \cap elf.defined)
                           /\ seen = Reach(DispatchRoots \cap elf.defined))
  BY <1>1 DEF NoImage
<1> QED BY <1>2, ImageHolds, PTL

\* A build the gate passes has its measured roots and no chain of direct calls
\* from them to a logging function, and in a normal build none from the
\* dispatcher to a test-only handler and one to the NPU's entry.
THEOREM CleanBuildsAreSilent == Spec => []CleanMeansSilent
<1>1. ASSUME /\ phase = "done" =>
                  /\ measured = Reach(MeasuredRoots \cap elf.defined)
                  /\ seen = Reach(DispatchRoots \cap elf.defined)
      PROVE  CleanMeansSilent
  <2>1. SUFFICES ASSUME phase = "done", NEW args \in Args, ExitCode(args) = 0, ~args.advisory
        PROVE  /\ MeasuredRoots \subseteq elf.defined
               /\ Reach(MeasuredRoots) \cap Denied = {}
               /\ ~args.expect_hooks => Reach(DispatchRoots) \cap TestHooks = {}
               /\ ~args.expect_hooks /\ ~args.expect_skip => NpuEntry \in Reach(MeasuredRoots)
    BY DEF CleanMeansSilent
  <2>2. check_injections(args) /\ check_test_hooks(args) /\ denylist_verdict(args) = 0
    BY <2>1 DEF ExitCode
  <2>3. Missing(MeasuredRoots) = {} /\ measured \cap Denied = {}
    BY <2>1, <2>2 DEF denylist_verdict, Verdict
  <2>4. MeasuredRoots \subseteq elf.defined /\ MeasuredRoots \cap elf.defined = MeasuredRoots
    BY <2>3 DEF Missing
  <2>5. DispatchRoots \cap elf.defined = DispatchRoots
    BY <2>2 DEF check_test_hooks, Missing
  <2>6. measured = Reach(MeasuredRoots) /\ seen = Reach(DispatchRoots)
    BY <1>1, <2>1, <2>4, <2>5
  <2>7. ~args.expect_hooks => seen \cap TestHooks = {}
    BY <2>2 DEF check_test_hooks
  <2>8. ~args.expect_hooks /\ ~args.expect_skip => NpuEntry \in measured
    BY <2>2 DEF check_injections
  <2> QED BY <2>3, <2>4, <2>6, <2>7, <2>8
<1> QED BY <1>1, SearchIsReachability, PTL

\* What --advisory lets through, and a strict build does not, is an image in
\* which a measured root reaches a logging function by direct calls and which
\* passes every other gate (check_measure_symbols.py:604-648).
THEOREM AdvisoryIsNarrow == Spec => []AdvisoryExcusesOneGate
<1>1. ASSUME phase = "done" =>
               /\ measured = Reach(MeasuredRoots \cap elf.defined)
               /\ seen = Reach(DispatchRoots \cap elf.defined)
      PROVE  AdvisoryExcusesOneGate
  <2> DEFINE strict(args) == [args EXCEPT !.advisory = FALSE]
  <2>1. SUFFICES ASSUME phase = "done", NEW args \in Args, ExitCode(args) = 0,
                        ExitCode(strict(args)) # 0
        PROVE  /\ Reach(MeasuredRoots) \cap Denied # {}
               /\ check_sec_noinit /\ check_injections(strict(args)) /\ check_test_hooks(strict(args))
    BY DEF AdvisoryExcusesOneGate
  <2>2. /\ check_sec_noinit /\ check_injections(args) /\ check_test_hooks(args)
        /\ denylist_verdict(args) = 0
    BY <2>1 DEF ExitCode, denylist_verdict
  <2>3. /\ strict(args).expect_hooks = args.expect_hooks
        /\ strict(args).expect_skip = args.expect_skip
    BY <2>1 DEF Args
  <2>4. check_injections(strict(args)) /\ check_test_hooks(strict(args))
    BY <2>2, <2>3 DEF check_injections, check_test_hooks
  <2>5. denylist_verdict(strict(args)) # 0
    BY <2>1, <2>2, <2>4 DEF ExitCode
  <2>6. Missing(MeasuredRoots) = {} /\ measured \cap Denied # {}
    BY <2>2, <2>5 DEF denylist_verdict, Verdict
  <2>7. MeasuredRoots \cap elf.defined = MeasuredRoots
    BY <2>6 DEF Missing
  <2> QED BY <1>1, <2>1, <2>2, <2>4, <2>6, <2>7
<1> QED BY <1>1, SearchIsReachability, PTL

-----------------------------------------------------------------------------
(* Stage 2A.                                                               *)

Judgement(q) == [s \in {"TRM", "driver"} |-> inactivity_status(q.op, q.ref, s)]

Routing(q) == [status |-> statuses(q), routes |-> hypotheses(statuses(q))]

\* An answer is that to the question asked.
AnswerInv ==
  /\ question.kind = "metric" =>
       question.of \in Metrics /\ answer \in {NoAnswer, Judgement(question.of)}
  /\ question.kind = "operator" =>
       question.of \in Operators /\ answer \in {NoAnswer, Routing(question.of)}

LEMMA AnswerHolds == Spec => []AnswerInv
<1>1. Init => AnswerInv
  BY DEF Init, AnswerInv, Questions
<1>2. AnswerInv /\ [Next]_vars => AnswerInv'
  BY DEF AnswerInv, Next, vars, Decide, Gate, Pack, Record, Judge, Route, Judgement, Routing
<1> QED BY <1>1, <1>2, PTL DEF Spec

\* Ranges of measured runs that separate leave no run of the one beside the other.
LEMMA Separate ==
  ASSUME NEW a \in Figures, NEW b \in Figures
  PROVE  /\ separation(a, b) \in {"HIGHER", "LOWER", "OVERLAP"}
         /\ separation(a, b) = "HIGHER" =>
              \A x \in a.min .. a.max, y \in b.min .. b.max : x > y
         /\ separation(a, b) = "LOWER" =>
              \A x \in a.min .. a.max, y \in b.min .. b.max : x < y
<1>1. a.min \in Int /\ a.max \in Int /\ b.min \in Int /\ b.max \in Int
  BY DEF Figures
<1>2. CASE a.min > b.max
  BY <1>1, <1>2 DEF separation
<1>3. CASE ~(a.min > b.max) /\ a.max < b.min
  BY <1>1, <1>3 DEF separation
<1>4. CASE ~(a.min > b.max) /\ ~(a.max < b.min)
  BY <1>1, <1>4 DEF separation
<1> QED BY <1>2, <1>3, <1>4

\* Each hypothesis that is claimed, wholly, in part or as a correlation, holds of
\* every measured run against every run of the reference, whatever the figures
\* (stage2a.py:106-131).
THEOREM ClaimsAreOfEveryRun == Spec => []ClaimsHoldForEveryRun
<1>1. ASSUME AnswerInv PROVE ClaimsHoldForEveryRun
  <2> SUFFICES ASSUME Answered("metric") PROVE ClaimsHoldForEveryRun
    BY DEF ClaimsHoldForEveryRun
  <2> DEFINE op  == question.of.op
             ref == question.of.ref
  <2>1. /\ op.counter \in Figures /\ op.mac \in Figures
        /\ ref.counter \in Figures /\ ref.mac \in Figures
        /\ answer = Judgement(question.of)
    BY <1>1, DecisionsAssumption DEF AnswerInv, Answered
  <2>2. \A s \in {"TRM", "driver"} : answer[s] = inactivity_status(op, ref, s)
    BY <2>1 DEF Judgement
  <2>3. ASSUME NEW s \in {"TRM", "driver"},
               answer[s] \in {"SUPPORTED", "PARTIAL_SUPPORT", "CORRELATED_ONLY"}
        PROVE  separation(op.mac, ref.mac) = "LOWER" /\ separation(op.counter, ref.counter) = "HIGHER"
    BY <2>2, <2>3 DEF inactivity_status
  <2>4. answer["driver"] # "SUPPORTED"
    BY <2>2 DEF inactivity_status
  <2>5. ASSUME NEW s \in {"TRM", "driver"},
               answer[s] \in {"SUPPORTED", "PARTIAL_SUPPORT", "CORRELATED_ONLY"}
        PROVE  /\ \A x \in op.mac.min .. op.mac.max, y \in ref.mac.min .. ref.mac.max : x < y
               /\ \A x \in op.counter.min .. op.counter.max,
                     y \in ref.counter.min .. ref.counter.max : x > y
    BY <2>1, <2>3, <2>5, Separate
  <2> QED BY <2>4, <2>5 DEF ClaimsHoldForEveryRun
<1> QED BY <1>1, AnswerHolds, PTL

\* An operator whose MAC activity is below the reference's is sent to a later
\* stage whatever its counters show, and at most one of H5 and H6 is supported,
\* and then its active-cycle efficiency is low (stage2a.py:115-169).
THEOREM NoOperatorIsLost == Spec => []EveryOperatorRouted
<1>1. ASSUME AnswerInv PROVE EveryOperatorRouted
  <2> SUFFICES ASSUME Answered("operator") PROVE EveryOperatorRouted
    BY DEF EveryOperatorRouted
  <2> DEFINE q == question.of
             s == answer.status
             higher == {h \in STALLS : separation(q.counter[h], Always(1)) = "HIGHER"}
  <2>1. q \in Operators /\ answer.status = statuses(q) /\ answer.routes = hypotheses(statuses(q))
    BY <1>1 DEF AnswerInv, Answered, Routing
  <2>2. q.c \in {"LOWER", "HIGHER", "OVERLAP"} /\ q.low \in BOOLEAN
    BY <2>1, DecisionsAssumption
  <2>3. DOMAIN ROUTES = {"H1", "H2", "H3b", "H4", "H5", "H6"}
    BY DEF ROUTES
  <2>4. /\ s["H5"] = efficiency_status(q.low, q.c, higher)["H5"]
        /\ s["H6"] = efficiency_status(q.low, q.c, higher)["H6"]
    BY <2>1, <2>3 DEF statuses, Inactivity
  <2>5. /\ ~(s["H5"] = "SUPPORTED" /\ s["H6"] = "SUPPORTED")
        /\ ~q.low => s["H5"] # "SUPPORTED" /\ s["H6"] # "SUPPORTED"
    BY <2>2, <2>4 DEF efficiency_status
  <2>6. \A h \in Inactivity :
          s[h] = inactivity_status([counter |-> q.counter[h], mac |-> q.mac],
                                   [counter |-> Always(1), mac |-> Always(3)], Source(h))
    BY <2>1, <2>3 DEF statuses, Inactivity
  <2>7. ASSUME NEW h \in Inactivity, s[h] \in {"SUPPORTED", "PARTIAL_SUPPORT"}
        PROVE  h \in answer.routes
    <3>1. h \in {"H2", "H3b"} => Source(h) = "driver" /\ s[h] # "SUPPORTED"
      BY <2>6, <2>7 DEF Source, inactivity_status
    <3>2. s[h] \in ROUTES[h] /\ h \in DOMAIN ROUTES
      BY <2>3, <2>7, <3>1 DEF ROUTES, Inactivity
    <3> QED BY <2>1, <3>2 DEF hypotheses
  <2>8. answer.routes \cap (Inactivity \cup {"P6"}) # {}
    <3>1. CASE \E h \in Inactivity : s[h] \in {"SUPPORTED", "PARTIAL_SUPPORT"}
      BY <2>7, <3>1
    <3>2. CASE ~ \E h \in Inactivity : s[h] \in {"SUPPORTED", "PARTIAL_SUPPORT"}
      BY <2>1, <3>2 DEF hypotheses
    <3> QED BY <3>1, <3>2
  <2> QED BY <2>5, <2>8 DEF EveryOperatorRouted
<1> QED BY <1>1, AnswerHolds, PTL

-----------------------------------------------------------------------------
(* Measurement records.                                                    *)

\* The partial sums of a record's weighted words.
Weighed(w) ==
  CHOOSE sum : sum = [n \in 0 .. Len(w) |-> IF n = 0 THEN 0 ELSE sum[n - 1] + n * w[n]]

\* The checksum is the last of the partial sums.
LEMMA Sums ==
  ASSUME NEW w \in Seq(Int)
  PROVE  /\ Weighed(w)[0] = 0
         /\ \A n \in 1 .. Len(w) : Weighed(w)[n] = Weighed(w)[n - 1] + n * w[n]
         /\ \A n \in 0 .. Len(w) : Weighed(w)[n] \in Int
         /\ Checksum(w) = Weighed(w)[Len(w)]
<1> DEFINE N == Len(w)
           f == Weighed(w)
           step == [i \in 1 .. N |-> [x \in Int |-> x + i * w[i]]]
           Eqn(g) == g = [n \in 0 .. N |-> IF n = 0 THEN 0 ELSE g[n - 1] + n * w[n]]
<1>1. N \in Nat /\ \A i \in 1 .. N : w[i] \in Int /\ i \in Int
  OBVIOUS
<1>2. PICK g \in Iterations(Int, 0, N, step) : TRUE
  <2>1. step \in [1 .. N -> [Int -> Int]] /\ 0 \in Int
    BY <1>1
  <2>2. Iterations(Int, 0, N, step) # {}
    <3> HIDE DEF step, N
    <3> QED BY <1>1, <2>1, Recursion
  <2> QED BY <2>2
<1>3. g \in [0 .. N -> Int] /\ g[0] = 0 /\ \A i \in 1 .. N : g[i] = step[i][g[i - 1]]
  BY <1>2 DEF Iterations
<1>4. ASSUME NEW i \in 1 .. N PROVE g[i] = g[i - 1] + i * w[i]
  <2>1. i - 1 \in 0 .. N
    BY <1>1
  <2> QED BY <1>3, <2>1
<1>5. Eqn(g)
  <2> DEFINE h == [n \in 0 .. Len(w) |-> IF n = 0 THEN 0 ELSE g[n - 1] + n * w[n]]
  <2>1. \A i \in 0 .. Len(w) : g[i] = h[i]
    BY <1>1, <1>3, <1>4
  <2> QED BY <1>3, <2>1
<1>6. Eqn(f)
  <2> HIDE DEF Eqn
  <2>1. f = CHOOSE h : Eqn(h)
    BY Zenon DEF Weighed, Eqn
  <2> QED BY <1>5, <2>1
<1>7. Checksum(w) = f[N]
  BY Zenon DEF Checksum, Weighed
<1> HIDE DEF f
<1>8. f[0] = 0
  <2>1. 0 \in 0 .. N
    BY <1>1
  <2> QED BY <1>6, <2>1, Zenon
<1>9. ASSUME NEW n \in 1 .. N PROVE f[n] = f[n - 1] + n * w[n]
  <2>1. n \in 0 .. N /\ n # 0
    BY <1>1
  <2> QED BY <1>6, <2>1, Zenon
<1>10. ASSUME NEW i \in 1 .. N, f[i - 1] \in Int PROVE f[i] \in Int
  <2>1. i * w[i] \in Int
    BY <1>1
  <2>2. \A x, y \in Int : x + y \in Int
    OBVIOUS
  <2>3. f[i - 1] + i * w[i] \in Int
    BY <1>10, <2>1, <2>2, Zenon
  <2> QED BY <1>9, <2>3
<1>11. \A i \in 0 .. N : f[i] \in Int
  <2> HIDE DEF N
  <2>1. f[0] \in Int
    BY <1>8
  <2> QED BY <1>1, <1>10, <2>1, Carried
<1> QED BY <1>7, <1>8, <1>9, <1>11 DEF f

\* One word more by one makes the checksum more by the word's place.
LEMMA OneWordWeighs ==
  ASSUME NEW w \in Seq(Int), NEW i \in 1 .. Len(w)
  PROVE  /\ [w EXCEPT ![i] = @ + 1] \in Seq(Int)
         /\ Checksum(w) \in Int
         /\ Checksum([w EXCEPT ![i] = @ + 1]) = Checksum(w) + i
<1> DEFINE v == [w EXCEPT ![i] = @ + 1]
           N == Len(w)
           T == {k \in Nat : k <= N => Weighed(v)[k] = Weighed(w)[k] + IF k < i THEN 0 ELSE i}
<1>1. /\ v \in Seq(Int) /\ Len(v) = N /\ N \in Nat /\ v[i] = w[i] + 1
      /\ \A k \in 1 .. N : k # i => v[k] = w[k]
      /\ \A k \in 1 .. N : w[k] \in Int
  OBVIOUS
<1> HIDE DEF v
<1>2. 0 \in T
  <2>1. Weighed(v)[0] = 0 /\ Weighed(w)[0] = 0 /\ 0 < i
    BY <1>1, Sums
  <2> QED BY <2>1
<1>3. ASSUME NEW k \in Nat, k \in T PROVE k + 1 \in T
  <2> SUFFICES ASSUME k + 1 <= N
               PROVE  Weighed(v)[k + 1] = Weighed(w)[k + 1] + IF k + 1 < i THEN 0 ELSE i
    OBVIOUS
  <2>1. k \in 0 .. N /\ k + 1 \in 1 .. N /\ (k + 1) - 1 = k
    BY <1>1
  <2>2. /\ Weighed(v)[k + 1] = Weighed(v)[k] + (k + 1) * v[k + 1]
        /\ Weighed(w)[k + 1] = Weighed(w)[k] + (k + 1) * w[k + 1]
        /\ Weighed(w)[k] \in Int
    BY <1>1, <2>1, Sums
  <2>3. Weighed(v)[k] = Weighed(w)[k] + IF k < i THEN 0 ELSE i
    BY <1>3, <2>1
  <2>4. CASE k + 1 = i
    <3>1. v[k + 1] = w[k + 1] + 1 /\ Weighed(v)[k] = Weighed(w)[k] /\ w[k + 1] \in Int
      BY <1>1, <2>1, <2>2, <2>3, <2>4, SMTT(30)
    <3>2. (k + 1) * (w[k + 1] + 1) = (k + 1) * w[k + 1] + (k + 1)
      BY <3>1
    <3> QED BY <2>2, <2>4, <3>1, <3>2
  <2>5. CASE k + 1 # i
    <3>1. v[k + 1] = w[k + 1] /\ (k < i <=> k + 1 < i)
      BY <1>1, <2>1, <2>5
    <3> QED BY <2>2, <2>3, <3>1
  <2> QED BY <2>4, <2>5
<1>4. N \in T
  <2> HIDE DEF T
  <2> QED BY <1>1, <1>2, <1>3, Induction
<1>5. Weighed(v)[N] = Weighed(w)[N] + i
  BY <1>1, <1>4
<1>6. Checksum(w) = Weighed(w)[N] /\ Checksum(v) = Weighed(v)[N] /\ Weighed(w)[N] \in Int
  <2>1. N \in 0 .. N
    BY <1>1
  <2> QED BY <1>1, <2>1, Sums
<1> QED BY <1>1, <1>5, <1>6 DEF v

\* The words the CRC covers.
Covered(p) == SubSeq(p, 5, 7) \o SubSeq(p, 9, Len(p))

\* The covered words, one by one.
LEMMA CoveredWords ==
  ASSUME NEW p \in Seq(Int), NEW n \in Nat, Len(p) = 8 + n
  PROVE  /\ Covered(p) \in Seq(Int) /\ Len(Covered(p)) = n + 3
         /\ \A i \in 1 .. n + 3 : Covered(p)[i] = p[IF i <= 3 THEN i + 4 ELSE i + 5]
         /\ measurement_payload_crc(p) = Checksum(Covered(p))
         /\ measurement_payload_crc(p) \in Int
<1> DEFINE a == SubSeq(p, 5, 7)
           b == SubSeq(p, 9, Len(p))
<1>1. \A i \in 5 .. 8 + n : i \in 1 .. Len(p) /\ p[i] \in Int
  OBVIOUS
<1>2. a \in Seq(Int) /\ Len(a) = 3 /\ \A i \in 1 .. 3 : a[i] = p[i + 4]
  OBVIOUS
<1>3. b \in Seq(Int) /\ Len(b) = n /\ \A i \in 1 .. n : b[i] = p[i + 8]
  <2>1. b = SubSeq(p, 9, 8 + n)
    OBVIOUS
  <2>2. /\ SubSeq(p, 9, 8 + n) \in Seq(Int)
        /\ Len(SubSeq(p, 9, 8 + n)) = IF 9 <= 8 + n THEN (8 + n) - 9 + 1 ELSE 0
        /\ \A i \in 1 .. n : SubSeq(p, 9, 8 + n)[i] = p[i + 8]
    BY <1>1
  <2>3. n = IF 9 <= 8 + n THEN (8 + n) - 9 + 1 ELSE 0
    OBVIOUS
  <2> QED BY <2>1, <2>2, <2>3, Zenon
<1> HIDE DEF a, b
<1>4. /\ a \o b \in Seq(Int) /\ Len(a \o b) = n + 3
      /\ \A i \in 1 .. n + 3 : (a \o b)[i] = IF i <= 3 THEN a[i] ELSE b[i - 3]
  <2>1. /\ a \o b \in Seq(Int) /\ Len(a \o b) = Len(a) + Len(b)
        /\ \A i \in 1 .. Len(a) + Len(b) : (a \o b)[i] = IF i <= Len(a) THEN a[i] ELSE b[i - Len(a)]
    BY <1>2, <1>3, ConcatProperties
  <2>2. Len(a) + Len(b) = n + 3 /\ Len(a) = 3
    BY <1>2, <1>3
  <2>3. /\ a \o b \in Seq(Int) /\ Len(a \o b) = n + 3
        /\ \A i \in 1 .. n + 3 : (a \o b)[i] = IF i <= 3 THEN a[i] ELSE b[i - 3]
    BY Zenon, <2>1, <2>2
  <2> QED BY <2>3
<1>5. \A i \in 1 .. n + 3 : (a \o b)[i] = p[IF i <= 3 THEN i + 4 ELSE i + 5]
  <2> TAKE i \in 1 .. n + 3
  <2>1. CASE i <= 3
    <3>1. i \in 1 .. 3
      BY <2>1
    <3>2. (a \o b)[i] = a[i] /\ a[i] = p[i + 4]
      BY <1>2, <1>4, <2>1, <3>1, Zenon
    <3> QED BY <2>1, <3>2
  <2>2. CASE ~(i <= 3)
    <3>1. i - 3 \in 1 .. n /\ (i - 3) + 8 = i + 5
      BY <2>2
    <3>2. (a \o b)[i] = b[i - 3] /\ b[i - 3] = p[i + 5]
      BY <1>3, <1>4, <2>2, <3>1, Zenon
    <3> QED BY <2>2, <3>2
  <2> QED BY <2>1, <2>2
<1>6. Covered(p) = a \o b /\ measurement_payload_crc(p) = Checksum(a \o b)
  BY DEF Covered, a, b, measurement_payload_crc
<1>7. Checksum(a \o b) \in Int
  <2> DEFINE w == a \o b
  <2>1. w \in Seq(Int) /\ Len(w) \in 0 .. Len(w)
    BY <1>4
  <2> HIDE DEF w
  <2>2. Checksum(w) \in Int
    BY <2>1, Sums
  <2> QED BY <2>2 DEF w
<1> DEFINE w == a \o b
<1> HIDE DEF w
<1>8. /\ Covered(p) = w /\ w \in Seq(Int) /\ Len(w) = n + 3
      /\ \A i \in 1 .. n + 3 : w[i] = p[IF i <= 3 THEN i + 4 ELSE i + 5]
      /\ measurement_payload_crc(p) = Checksum(w) /\ Checksum(w) \in Int
  BY <1>4, <1>5, <1>6, <1>7, Zenon DEF w
<1> QED BY <1>8

\* A word of the covered range more by one: another CRC.
LEMMA DamageShows ==
  ASSUME NEW p \in Seq(Int), NEW n \in Nat, Len(p) = 8 + n,
         NEW j \in 5 .. 8 + n, j # 8
  PROVE  measurement_payload_crc([p EXCEPT ![j] = @ + 1]) # measurement_payload_crc(p)
<1> DEFINE d == [p EXCEPT ![j] = @ + 1]
           i == IF j <= 7 THEN j - 4 ELSE j - 5
           c == Covered(p)
           e == [c EXCEPT ![i] = @ + 1]
<1>1. /\ i \in 1 .. n + 3 /\ i \in Nat /\ i > 0
      /\ j = IF i <= 3 THEN i + 4 ELSE i + 5
  OBVIOUS
<1>2. /\ d \in Seq(Int) /\ Len(d) = 8 + n /\ d[j] = p[j] + 1
      /\ \A k \in 1 .. 8 + n : k # j => d[k] = p[k]
  OBVIOUS
<1> HIDE DEF d, i
<1>3. c \in Seq(Int) /\ Len(c) = n + 3 /\ Covered(d) \in Seq(Int) /\ Len(Covered(d)) = n + 3
  BY <1>2, CoveredWords
<1>4. e \in Seq(Int) /\ Len(e) = n + 3
  <2> HIDE DEF c
  <2>1. i \in 1 .. Len(c)
    BY <1>1, <1>3
  <2> QED BY <1>3, <2>1, OneWordWeighs
<1>5. ASSUME NEW k \in 1 .. n + 3 PROVE Covered(d)[k] = e[k]
  <2> DEFINE at == IF k <= 3 THEN k + 4 ELSE k + 5
  <2>1. c[k] = p[at] /\ Covered(d)[k] = d[at]
    BY <1>2, CoveredWords
  <2>2. at \in 1 .. 8 + n /\ (at = j <=> k = i)
    BY <1>1
  <2>3. Covered(d)[k] = IF k = i THEN c[k] + 1 ELSE c[k]
    BY <1>2, <2>1, <2>2
  <2>4. k \in DOMAIN c
    BY <1>3
  <2> QED BY <2>3, <2>4, Zenon
<1>6. Covered(d) = e
  <2> HIDE DEF e
  <2> QED BY <1>3, <1>4, <1>5, SeqEqual
<1>7. Checksum(e) = Checksum(c) + i /\ Checksum(c) \in Int
  <2> HIDE DEF c
  <2>1. i \in 1 .. Len(c)
    BY <1>1, <1>3
  <2> QED BY <1>3, <2>1, OneWordWeighs
<1>8. Checksum(e) # Checksum(c)
  BY <1>1, <1>7
<1>9. measurement_payload_crc(d) = Checksum(Covered(d)) /\ measurement_payload_crc(p) = Checksum(c)
  BY <1>2, CoveredWords
<1> QED BY <1>6, <1>8, <1>9 DEF d

\* The words of a payload, and that its CRC is the one of what it covers.
LEMMA PayloadIs ==
  ASSUME NEW q \in Records
  PROVE  LET p == build_payload(q.seq, q.flags, q.rc, q.body) IN
         /\ p \in Seq(Int) /\ Len(p) = 8 + Len(q.body) /\ Len(q.body) \in Nat
         /\ p[1] = RME_MAGIC /\ p[2] = ABI_VERSION /\ p[3] = Len(p) /\ p[4] = HEADER_WORDS
         /\ p[5] = q.seq /\ p[6] = q.flags /\ p[7] = q.rc
         /\ p[8] = measurement_payload_crc(p)
         /\ \A i \in 1 .. Len(q.body) : p[8 + i] = q.body[i]
<1> DEFINE n == Len(q.body)
           head == <<RME_MAGIC, ABI_VERSION, HEADER_WORDS + n, HEADER_WORDS, q.seq, q.flags, q.rc, None>>
           b == head \o q.body
           p == build_payload(q.seq, q.flags, q.rc, q.body)
<1>1. q.seq \in Int /\ q.flags \in Int /\ q.rc \in Int /\ q.body \in Seq(Int) /\ n \in Nat
  BY DecisionsAssumption
<1>2. /\ head \in Seq(Int) /\ Len(head) = 8
      /\ head[1] = RME_MAGIC /\ head[2] = ABI_VERSION /\ head[3] = 8 + n /\ head[4] = HEADER_WORDS
      /\ head[5] = q.seq /\ head[6] = q.flags /\ head[7] = q.rc
  BY <1>1 DEF RME_MAGIC, ABI_VERSION, HEADER_WORDS, None
<1>3. /\ b \in Seq(Int) /\ Len(b) = 8 + n
      /\ \A i \in 1 .. 8 + n : b[i] = IF i <= 8 THEN head[i] ELSE q.body[i - 8]
  <2> HIDE DEF head
  <2>1. b \in Seq(Int) /\ Len(b) = Len(head) + n
        /\ \A i \in 1 .. Len(head) + n : b[i] = IF i <= Len(head) THEN head[i] ELSE q.body[i - Len(head)]
    BY <1>1, <1>2, ConcatProperties
  <2> HIDE DEF b, n
  <2> QED BY <1>2, <2>1
<1>4. p = [b EXCEPT ![8] = measurement_payload_crc(b)]
  BY DEF build_payload
<1> HIDE DEF b, p, head, n
<1>5. measurement_payload_crc(b) \in Int
  BY <1>1, <1>3, CoveredWords
<1>6. p \in Seq(Int) /\ Len(p) = 8 + n /\ \A i \in 1 .. 8 + n : i # 8 => p[i] = b[i]
  BY <1>1, <1>3, <1>4, <1>5
<1>7. p[8] = measurement_payload_crc(b)
  BY <1>1, <1>3, <1>4
<1>8. measurement_payload_crc(p) = measurement_payload_crc(b)
  <2>1. /\ Covered(p) \in Seq(Int) /\ Len(Covered(p)) = n + 3
        /\ Covered(b) \in Seq(Int) /\ Len(Covered(b)) = n + 3
    BY <1>1, <1>3, <1>6, CoveredWords
  <2>2. ASSUME NEW i \in 1 .. n + 3 PROVE Covered(p)[i] = Covered(b)[i]
    <3> DEFINE at == IF i <= 3 THEN i + 4 ELSE i + 5
    <3>1. at \in 1 .. 8 + n /\ at # 8
      BY <1>1
    <3>2. Covered(p)[i] = p[at] /\ Covered(b)[i] = b[at]
      BY <1>1, <1>3, <1>6, CoveredWords
    <3> QED BY <1>6, <3>1, <3>2
  <2>3. Covered(p) = Covered(b)
    BY <2>1, <2>2, SeqEqual
  <2> QED BY <1>1, <1>3, <1>6, <2>3, CoveredWords
<1>9. \A i \in 1 .. n : p[8 + i] = q.body[i]
  <2> TAKE i \in 1 .. n
  <2>1. 8 + i \in 1 .. 8 + n /\ 8 + i # 8 /\ ~(8 + i <= 8) /\ (8 + i) - 8 = i
    BY <1>1
  <2> QED BY <1>3, <1>6, <2>1
<1>10. \A i \in 1 .. 7 : p[i] = head[i]
  <2> TAKE i \in 1 .. 7
  <2>1. i \in 1 .. 8 + n /\ i # 8 /\ i <= 8
    BY <1>1
  <2> QED BY <1>3, <1>6, <2>1
<1>11. p[3] = Len(p)
  BY <1>2, <1>6, <1>10
<1>12. n = Len(q.body)
  BY DEF n
<1>13. /\ p[1] = RME_MAGIC /\ p[2] = ABI_VERSION /\ p[4] = HEADER_WORDS
       /\ p[5] = q.seq /\ p[6] = q.flags /\ p[7] = q.rc
  BY <1>2, <1>10
<1>14. p[8] = measurement_payload_crc(p)
  BY <1>7, <1>8
<1> QED BY <1>1, <1>6, <1>9, <1>11, <1>12, <1>13, <1>14, Zenon DEF p

\* The payload the runner makes of a question.
Payload(q) == build_payload(q.seq, q.flags, q.rc, q.body)

\* No number is its successor.
LEMMA Numbers == ASSUME NEW x \in Int PROVE x + 1 # x
OBVIOUS

\* A payload of the runner that arrives damaged is refused.
LEMMA DamagedIsRefused ==
  ASSUME NEW q \in Records
  PROVE  {parse_measurement_payload(d) : d \in Damaged(Payload(q))} = {Malformed}
<1> DEFINE p == Payload(q)
           n == Len(q.body)
<1>1. /\ p \in Seq(Int) /\ Len(p) = 8 + n /\ n \in Nat
      /\ p[1] = RME_MAGIC /\ p[2] = ABI_VERSION /\ p[3] = 8 + n /\ p[4] = HEADER_WORDS
      /\ p[8] = measurement_payload_crc(p)
  BY PayloadIs DEF Payload
<1> HIDE DEF p, n
<1>2. \A i \in 1 .. 8 + n : i \in DOMAIN p /\ p[i] \in Int
  BY <1>1
<1>3. DOMAIN p = 1 .. 8 + n
  BY <1>1
<1>4. ASSUME NEW j \in 1 .. 8 + n
      PROVE  parse_measurement_payload([p EXCEPT ![j] = @ + 1]) = Malformed
  <2> DEFINE d == [p EXCEPT ![j] = @ + 1]
  <2>1. /\ d \in Seq(Int) /\ Len(d) = 8 + n /\ d[j] = p[j] + 1
        /\ \A i \in 1 .. 8 + n : i # j => d[i] = p[i]
    BY <1>1
  <2>2. p[j] \in Int /\ d[j] # p[j]
    BY <1>2, <2>1, Numbers
  <2> SUFFICES parse_measurement_payload(d) = Malformed
    OBVIOUS
  <2> HIDE DEF d
  <2>3. CASE j \in {1, 2, 4}
    BY <1>1, <2>2, <2>3, Zenon DEF parse_measurement_payload
  <2>4. CASE j = 3
    <3>1. d[3] # Len(d)
      BY <1>1, <2>1, <2>2, <2>4
    <3> QED BY <3>1, Zenon DEF parse_measurement_payload
  <2>5. CASE j = 8
    <3>1. measurement_payload_crc(d) = measurement_payload_crc(p)
      <4>1. /\ Covered(p) \in Seq(Int) /\ Len(Covered(p)) = n + 3
            /\ Covered(d) \in Seq(Int) /\ Len(Covered(d)) = n + 3
        BY <1>1, <2>1, CoveredWords
      <4>2. ASSUME NEW i \in 1 .. n + 3 PROVE Covered(d)[i] = Covered(p)[i]
        <5> DEFINE at == IF i <= 3 THEN i + 4 ELSE i + 5
        <5>1. at \in 1 .. 8 + n /\ at # 8
          BY <1>1
        <5>2. Covered(p)[i] = p[at] /\ Covered(d)[i] = d[at]
          BY <1>1, <2>1, CoveredWords
        <5> QED BY <2>1, <2>5, <5>1, <5>2
      <4>3. Covered(d) = Covered(p)
        BY <4>1, <4>2, SeqEqual
      <4> QED BY <1>1, <2>1, <4>3, CoveredWords
    <3> QED BY <1>1, <2>2, <2>5, <3>1 DEF parse_measurement_payload
  <2>6. CASE j \in 5 .. 8 + n /\ j # 8
    <3>1. measurement_payload_crc(d) # measurement_payload_crc(p)
      BY <1>1, <2>6, DamageShows DEF d
    <3>2. d[8] = measurement_payload_crc(p)
      BY <1>1, <2>1, <2>6
    <3> QED BY <3>1, <3>2 DEF parse_measurement_payload
  <2>7. j \in {1, 2, 4} \/ j = 3 \/ j = 8 \/ (j \in 5 .. 8 + n /\ j # 8)
    BY <1>1
  <2> QED BY <2>3, <2>4, <2>5, <2>6, <2>7 DEF d
<1>5. parse_measurement_payload(SubSeq(p, 1, Len(p) - 1)) = Malformed
  <2> DEFINE d == SubSeq(p, 1, 7 + n)
  <2>1. d \in Seq(Int) /\ Len(d) = 7 + n /\ \A i \in 1 .. 7 + n : d[i] = p[i]
    BY <1>1, <1>2
  <2>2. Len(p) - 1 = 7 + n
    BY <1>1
  <2>3. d[3] = 8 + n /\ d[3] # Len(d)
    BY <1>1, <2>1
  <2>4. parse_measurement_payload(d) = Malformed
    <3> HIDE DEF d
    <3> QED BY <2>3 DEF parse_measurement_payload
  <2> QED BY <2>2, <2>4
<1>6. Damaged(p) = {[p EXCEPT ![i] = @ + 1] : i \in 1 .. 8 + n} \cup {SubSeq(p, 1, Len(p) - 1)}
  BY <1>3 DEF Damaged
<1> QED BY <1>4, <1>5, <1>6 DEF p

\* The piece of x from c to e is as long as that of y from a to b, and reads like it.
SamePiece(x, c, e, y, a, b) ==
  /\ x \in Seq(Int) /\ y \in Seq(Int) /\ c \in Nat /\ e \in Nat /\ a \in Nat /\ b \in Nat
  /\ c >= 1 /\ a >= 1 /\ e <= Len(x) /\ b <= Len(y) /\ e - c = b - a
  /\ \A i \in 1 .. b - a + 1 : x[c + i - 1] = y[a + i - 1]

\* The piece, under a name of its own.
Piece(x, c, e) == SubSeq(x, c, e)

\* Such pieces are the same.
LEMMA PieceOf ==
  ASSUME NEW x, NEW y, NEW c, NEW e, NEW a, NEW b, SamePiece(x, c, e, y, a, b)
  PROVE  Piece(x, c, e) = Piece(y, a, b)
<1>0. /\ x \in Seq(Int) /\ y \in Seq(Int) /\ c \in Nat /\ e \in Nat /\ a \in Nat /\ b \in Nat
      /\ c >= 1 /\ a >= 1 /\ e <= Len(x) /\ b <= Len(y) /\ e - c = b - a
      /\ \A i \in 1 .. b - a + 1 : x[c + i - 1] = y[a + i - 1]
  BY Zenon DEF SamePiece
<1> DEFINE u == SubSeq(x, c, e)
           v == SubSeq(y, a, b)
<1>1. Len(x) \in Nat /\ Len(y) \in Nat
  BY <1>0
<1>2. ASSUME b < a PROVE u = v
  <2>1. e < c
    BY <1>0, <1>2
  <2>2. u = <<>>
    BY <1>0, <2>1, SubSeqEmpty
  <2>3. v = <<>>
    BY <1>0, <1>2, SubSeqEmpty
  <2> HIDE DEF u, v
  <2> QED BY <2>2, <2>3
<1>3. ASSUME ~(b < a) PROVE u = v
  <2>1. u \in Seq(Int) /\ Len(u) = b - a + 1 /\ \A i \in 1 .. b - a + 1 : u[i] = x[c + i - 1]
    <3>1. \A i \in c .. e : x[i] \in Int
      <4> TAKE i \in c .. e
      <4>1. i \in 1 .. Len(x)
        BY <1>0, <1>1
      <4> QED BY <1>0, <4>1
    <3>2. /\ u \in Seq(Int) /\ Len(u) = IF c <= e THEN e - c + 1 ELSE 0
          /\ \A i \in 1 .. e - c + 1 : u[i] = x[c + i - 1]
      BY <1>0, <3>1, SubSeqProperties
    <3> HIDE DEF u
    <3>3. c <= e /\ e - c + 1 = b - a + 1
      BY <1>0, <1>3
    <3> QED BY <3>2, <3>3, Zenon
  <2>2. v \in Seq(Int) /\ Len(v) = b - a + 1 /\ \A i \in 1 .. b - a + 1 : v[i] = y[a + i - 1]
    <3>1. \A i \in a .. b : y[i] \in Int
      <4> TAKE i \in a .. b
      <4>1. i \in 1 .. Len(y)
        BY <1>0, <1>1
      <4> QED BY <1>0, <4>1
    <3>2. /\ v \in Seq(Int) /\ Len(v) = IF a <= b THEN b - a + 1 ELSE 0
          /\ \A i \in 1 .. b - a + 1 : v[i] = y[a + i - 1]
      BY <1>0, <3>1, SubSeqProperties
    <3> HIDE DEF v
    <3>3. a <= b
      BY <1>0, <1>3
    <3> QED BY <3>2, <3>3, Zenon
  <2> HIDE DEF u, v
  <2>3. \A i \in 1 .. b - a + 1 : u[i] = v[i]
    BY <1>0, <2>1, <2>2
  <2> QED BY <1>0, <2>1, <2>2, <2>3, SeqEqual
<1> QED BY <1>2, <1>3, Zenon DEF Piece

\* What a record m of the measurement q tells.
ReadAs(m, q) ==
  LET w == SubSeq(q.body, KnownFields + 1, Len(q.body)) IN
  /\ m.run_sequence = q.seq /\ m.run_rc = q.rc /\ m.valid_flags = q.flags
  /\ m.fields = SubSeq(q.body, 1, KnownFields)
  /\ Len(w) < PmuFields => m.pmu = NoPmu /\ m.trailing = <<>>
  /\ Len(w) >= PmuFields =>
       /\ \A n \in 1 .. Slots :
            IF Bit(w[1], n)
              THEN /\ m.pmu.event_codes[n] = w[2 + n]
                   /\ m.pmu.event_values[n] = w[2 + Slots + n]
                   /\ m.pmu.event_overflow[n] = IF Bit(w[2], n) THEN 1 ELSE 0
              ELSE /\ m.pmu.event_codes[n] = None
                   /\ m.pmu.event_values[n] = None
                   /\ m.pmu.event_overflow[n] = None
       /\ m.pmu.cycles = IF w[PmuFields] = 0 THEN None ELSE w[PmuFields - 1]
       /\ m.trailing = SubSeq(w, PmuFields + 1, Len(w))

\* A payload of the runner that arrives whole is read as it was made.
LEMMA WholeIsRead ==
  ASSUME NEW q \in Records
  PROVE  ReadAs(parse_measurement_payload(Payload(q)), q)
<1> DEFINE p == Payload(q)
           n == Len(q.body)
           r == parse_measurement_payload(p)
           w == SubSeq(q.body, KnownFields + 1, n)
           pw == SubSeq(p, 9 + KnownFields, PmuTotal)
<1>1. /\ p \in Seq(Int) /\ Len(p) = 8 + n /\ n \in Nat
      /\ p[1] = RME_MAGIC /\ p[2] = ABI_VERSION /\ p[3] = 8 + n /\ p[4] = HEADER_WORDS
      /\ p[5] = q.seq /\ p[6] = q.flags /\ p[7] = q.rc
      /\ p[8] = measurement_payload_crc(p)
      /\ \A i \in 1 .. n : p[8 + i] = q.body[i]
  BY PayloadIs DEF Payload
<1>2. /\ q.body \in Seq(Int) /\ KnownFields \in Nat /\ Slots \in Nat /\ MaxWords \in Nat
      /\ n \in KnownFields .. MaxWords - 8
  BY DecisionsAssumption, RecordAssumption DEF HEADER_WORDS
<1> HIDE DEF p, n
<1>3. r = [run_sequence |-> p[5], valid_flags |-> p[6], run_rc |-> p[7],
           fields |-> SubSeq(p, 9, 8 + KnownFields),
           pmu |-> IF p[3] >= PmuTotal THEN decode_pmu_block(pw) ELSE NoPmu,
           trailing |-> SubSeq(p, PmuTotal + 1, Len(p))]
  <2>1. /\ ~(8 + n < HEADER_WORDS) /\ ~(8 + n < HEADER_WORDS + KnownFields) /\ ~(8 + n > MaxWords)
    <3>1. \A i, k, m \in Nat : i \in k .. m - 8 =>
            ~(8 + i < 8) /\ ~(8 + i < 8 + k) /\ ~(8 + i > m)
      OBVIOUS
    <3> QED BY <1>1, <1>2, <3>1, Zenon DEF HEADER_WORDS
  <2> QED BY <1>1, <2>1, Zenon DEF parse_measurement_payload
<1>4. /\ r.run_sequence = q.seq /\ r.run_rc = q.rc /\ r.valid_flags = q.flags
      /\ r.fields = SubSeq(p, 9, 8 + KnownFields)
      /\ r.pmu = IF 8 + n >= PmuTotal THEN decode_pmu_block(pw) ELSE NoPmu
      /\ r.trailing = SubSeq(p, PmuTotal + 1, 8 + n)
  <2> HIDE DEF r, pw
  <2> QED BY <1>1, <1>3
<1> HIDE DEF r
<1>5. /\ PmuFields = 4 + 2 * Slots /\ PmuTotal = 12 + KnownFields + 2 * Slots
      /\ PmuTotal = 8 + (KnownFields + PmuFields) /\ PmuFields \in Nat
  BY <1>2 DEF PmuFields, PmuTotal, HEADER_WORDS
<1>6. r.fields = SubSeq(q.body, 1, KnownFields)
  <2> HIDE DEF r, pw
  <2>1. /\ 9 \in Nat /\ 8 + KnownFields \in Nat /\ 1 \in Nat /\ 8 + KnownFields <= Len(p)
        /\ KnownFields <= Len(q.body) /\ (8 + KnownFields) - 9 = KnownFields - 1 /\ 9 >= 1 /\ 1 >= 1
    BY <1>1, <1>2 DEF n
  <2>2. SamePiece(p, 9, 8 + KnownFields, q.body, 1, KnownFields)
    <3> SUFFICES ASSUME NEW i \in 1 .. KnownFields - 1 + 1 PROVE p[9 + i - 1] = q.body[1 + i - 1]
      BY <1>1, <1>2, <2>1, Zenon DEF SamePiece
    <3>1. i \in 1 .. n /\ 9 + i - 1 = 8 + i /\ 1 + i - 1 = i
      BY <1>1, <1>2
    <3> QED BY <1>1, <3>1
  <2>3. Piece(p, 9, 8 + KnownFields) = Piece(q.body, 1, KnownFields)
    BY <2>2, PieceOf
  <2> QED BY <1>4, <2>3, Zenon DEF Piece
<1>7. /\ w \in Seq(Int) /\ Len(w) = n - KnownFields
      /\ \A i \in 1 .. n - KnownFields : w[i] = q.body[KnownFields + i]
  <2>1. \A i \in KnownFields + 1 .. n : q.body[i] \in Int
    <3>1. ASSUME NEW i \in KnownFields + 1 .. n PROVE i \in 1 .. n
      BY <1>1, <1>2
    <3> QED BY <1>2, <3>1 DEF n
  <2>2. /\ w \in Seq(Int) /\ Len(w) = IF KnownFields + 1 <= n THEN n - (KnownFields + 1) + 1 ELSE 0
        /\ \A i \in 1 .. n - (KnownFields + 1) + 1 : w[i] = q.body[(KnownFields + 1) + i - 1]
    BY <1>1, <1>2, <2>1, SubSeqProperties
  <2> HIDE DEF w
  <2>3. n - KnownFields = IF KnownFields + 1 <= n THEN n - (KnownFields + 1) + 1 ELSE 0
    BY <1>1, <1>2
  <2>4. ASSUME NEW i \in 1 .. n - KnownFields PROVE w[i] = q.body[KnownFields + i]
    <3>1. i \in 1 .. n - (KnownFields + 1) + 1 /\ (KnownFields + 1) + i - 1 = KnownFields + i
      BY <1>1, <1>2
    <3> QED BY <2>2, <3>1
  <2> QED BY <2>2, <2>3, <2>4
<1> HIDE DEF w
<1>8. ASSUME Len(w) < PmuFields PROVE r.pmu = NoPmu /\ r.trailing = <<>>
  <2>1. ~(8 + n >= PmuTotal) /\ 8 + n < PmuTotal + 1 /\ PmuTotal + 1 \in Int /\ 8 + n \in Int
    BY <1>1, <1>2, <1>5, <1>7, <1>8
  <2>2. SubSeq(p, PmuTotal + 1, 8 + n) = <<>>
    BY <2>1, SubSeqEmpty
  <2> QED BY <1>4, <2>1, <2>2, Zenon
<1>9. ASSUME Len(w) >= PmuFields
      PROVE  /\ \A k \in 1 .. Slots :
                  IF Bit(w[1], k)
                    THEN /\ r.pmu.event_codes[k] = w[2 + k]
                         /\ r.pmu.event_values[k] = w[2 + Slots + k]
                         /\ r.pmu.event_overflow[k] = IF Bit(w[2], k) THEN 1 ELSE 0
                    ELSE /\ r.pmu.event_codes[k] = None
                         /\ r.pmu.event_values[k] = None
                         /\ r.pmu.event_overflow[k] = None
             /\ r.pmu.cycles = IF w[PmuFields] = 0 THEN None ELSE w[PmuFields - 1]
             /\ r.trailing = SubSeq(w, PmuFields + 1, Len(w))
  <2>1. 8 + n >= PmuTotal /\ n >= KnownFields + 4 + 2 * Slots
    BY <1>1, <1>2, <1>5, <1>7, <1>9
  <2>2. r.pmu = decode_pmu_block(pw)
    BY <1>4, <2>1, Zenon
  <2>3. ASSUME NEW i \in 1 .. 4 + 2 * Slots PROVE pw[i] = w[i]
    <3>1. pw[i] = p[8 + (KnownFields + i)]
      <4>1. pw = SubSeq(p, 9 + KnownFields, 12 + KnownFields + 2 * Slots)
        BY <1>5
      <4>2. /\ 12 + KnownFields + 2 * Slots \in Nat /\ 9 + KnownFields \in Nat
            /\ i \in 1 .. (12 + KnownFields + 2 * Slots) - (9 + KnownFields) + 1
            /\ 9 + KnownFields + i - 1 = 8 + (KnownFields + i)
        BY <1>2
      <4>3. \A j \in 9 + KnownFields .. 12 + KnownFields + 2 * Slots : p[j] \in Int
        <5>1. ASSUME NEW j \in 9 + KnownFields .. 12 + KnownFields + 2 * Slots PROVE j \in 1 .. 8 + n
          BY <1>1, <1>2, <2>1
        <5> QED BY <1>1, <5>1
      <4> HIDE DEF pw
      <4> QED BY <4>1, <4>2, <4>3
    <3>2. KnownFields + i \in 1 .. n /\ i \in 1 .. n - KnownFields
      BY <1>1, <1>2, <2>1
    <3> HIDE DEF pw
    <3> QED BY <1>1, <1>7, <3>1, <3>2
  <2> HIDE DEF pw
  <2>4. ASSUME NEW k \in 1 .. Slots
        PROVE  IF Bit(w[1], k)
                 THEN /\ r.pmu.event_codes[k] = w[2 + k]
                      /\ r.pmu.event_values[k] = w[2 + Slots + k]
                      /\ r.pmu.event_overflow[k] = IF Bit(w[2], k) THEN 1 ELSE 0
                 ELSE /\ r.pmu.event_codes[k] = None
                      /\ r.pmu.event_values[k] = None
                      /\ r.pmu.event_overflow[k] = None
    <3> DEFINE m == decode_pmu_block(pw)
               over == IF Bit(pw[2], k) THEN 1 ELSE 0
    <3>1. /\ m.event_codes[k] = IF Bit(pw[1], k) THEN pw[2 + k] ELSE None
          /\ m.event_values[k] = IF Bit(pw[1], k) THEN pw[2 + Slots + k] ELSE None
          /\ m.event_overflow[k] = IF Bit(pw[1], k) THEN over ELSE None
      BY Zenon DEF decode_pmu_block
    <3>2. /\ 1 \in 1 .. 4 + 2 * Slots /\ 2 \in 1 .. 4 + 2 * Slots
          /\ 2 + k \in 1 .. 4 + 2 * Slots /\ 2 + Slots + k \in 1 .. 4 + 2 * Slots
      BY <1>2
    <3>3. pw[1] = w[1] /\ pw[2] = w[2] /\ pw[2 + k] = w[2 + k] /\ pw[2 + Slots + k] = w[2 + Slots + k]
      BY <2>3, <3>2, Zenon
    <3> QED BY <2>2, <3>1, <3>3, Zenon
  <2>5. r.pmu.cycles = IF w[PmuFields] = 0 THEN None ELSE w[PmuFields - 1]
    <3>1. decode_pmu_block(pw).cycles = IF pw[PmuFields] # 0 THEN pw[PmuFields - 1] ELSE None
      BY Zenon DEF decode_pmu_block
    <3>2. PmuFields \in 1 .. 4 + 2 * Slots /\ PmuFields - 1 \in 1 .. 4 + 2 * Slots
      BY <1>2, <1>5
    <3>3. pw[PmuFields] = w[PmuFields] /\ pw[PmuFields - 1] = w[PmuFields - 1]
      BY <2>3, <3>2, Zenon
    <3> QED BY <2>2, <3>1, <3>3, Zenon
  <2>6. r.trailing = SubSeq(w, PmuFields + 1, Len(w))
    <3>1. /\ PmuTotal + 1 \in Nat /\ 8 + n \in Nat /\ PmuFields + 1 \in Nat /\ Len(w) \in Nat
          /\ PmuTotal + 1 >= 1 /\ PmuFields + 1 >= 1 /\ 8 + n <= Len(p) /\ Len(w) <= Len(w)
          /\ (8 + n) - (PmuTotal + 1) = Len(w) - (PmuFields + 1)
      BY <1>1, <1>2, <1>5, <1>7
    <3>2. SamePiece(p, PmuTotal + 1, 8 + n, w, PmuFields + 1, Len(w))
      <4> SUFFICES ASSUME NEW i \in 1 .. Len(w) - (PmuFields + 1) + 1
                   PROVE  p[(PmuTotal + 1) + i - 1] = w[(PmuFields + 1) + i - 1]
        BY <1>1, <1>7, <3>1, Zenon DEF SamePiece
      <4>1. /\ PmuFields + i \in 1 .. n - KnownFields /\ KnownFields + (PmuFields + i) \in 1 .. n
            /\ (PmuTotal + 1) + i - 1 = 8 + (KnownFields + (PmuFields + i))
            /\ (PmuFields + 1) + i - 1 = PmuFields + i
        BY <1>1, <1>2, <1>5, <1>7
      <4>2. p[8 + (KnownFields + (PmuFields + i))] = q.body[KnownFields + (PmuFields + i)]
        BY <1>1, <4>1
      <4>3. w[PmuFields + i] = q.body[KnownFields + (PmuFields + i)]
        BY <1>7, <4>1
      <4> QED BY <4>1, <4>2, <4>3, Zenon
    <3>3. Piece(p, PmuTotal + 1, 8 + n) = Piece(w, PmuFields + 1, Len(w))
      BY <3>2, PieceOf
    <3> QED BY <1>4, <3>3, Zenon DEF Piece
  <2> QED BY <2>4, <2>5, <2>6, Zenon
<1> QED BY <1>4, <1>6, <1>8, <1>9, Zenon DEF ReadAs, p, r, n, w

\* What the host makes of that payload, and of it damaged.
RecordAnswer(q) ==
  [whole   |-> parse_measurement_payload(Payload(q)),
   damaged |-> {parse_measurement_payload(d) : d \in Damaged(Payload(q))}]

\* That is what answers a record.
LEMMA RecordAnswered == Spec => [](question.kind = "record" =>
   question.of \in Records /\ answer \in {NoAnswer, RecordAnswer(question.of)})
<1> DEFINE I == question.kind = "record" =>
   question.of \in Records /\ answer \in {NoAnswer, RecordAnswer(question.of)}
<1>1. Init => I
  BY DEF Init, Questions
<1>2. I /\ [Next]_vars => I'
  BY DEF Next, vars, Decide, Gate, Pack, Record, Judge, Route, RecordAnswer, Payload
<1> QED BY <1>1, <1>2, PTL DEF Spec

\* RecordSurvives: whatever the runner measured, the host reads all of it as it was
\* sent, header, fields, slots, cycles and the words of a newer image, and refuses it
\* with any one word damaged or lost.
THEOREM RecordsSurvive == Spec => []RecordSurvives
<1>1. ASSUME question.kind = "record" =>
               question.of \in Records /\ answer \in {NoAnswer, RecordAnswer(question.of)}
      PROVE  RecordSurvives
  <2> SUFFICES ASSUME Answered("record") PROVE RecordSurvives
    BY DEF RecordSurvives
  <2>1. question.of \in Records /\ answer = RecordAnswer(question.of)
    BY <1>1 DEF Answered
  <2>2. /\ answer.damaged = {Malformed}
        /\ answer.whole = parse_measurement_payload(Payload(question.of))
    BY <2>1, DamagedIsRefused DEF RecordAnswer
  <2>3. ReadAs(answer.whole, question.of)
    BY <2>1, <2>2, WholeIsRead
  <2> QED BY <2>2, <2>3, Zenon DEF RecordSurvives, ReadAs
<1> QED BY <1>1, RecordAnswered, PTL

-----------------------------------------------------------------------------
(* Workload blobs.                                                         *)

\* Alignment rounds up.
LEMMA Aligned ==
  \A n \in Nat : /\ align(n) \in Nat /\ align(n) >= n /\ align(n) % 16 = 0
                 /\ al256(n) \in Nat /\ al256(n) >= n
BY DEF align, al256

\* Blocks are laid one behind the other, on 16-byte boundaries.
LEMMA LayIs ==
  ASSUME NEW off \in Nat, off % 16 = 0, NEW lens \in Seq(Nat), NEW N \in Nat, N = Len(lens)
  PROVE  LET at == Lay(off, lens) IN
         /\ at[0] = off
         /\ \A n \in 0 .. N : at[n] \in Nat /\ at[n] % 16 = 0
         /\ \A n \in 1 .. N : at[n - 1] + lens[n] <= at[n]
         /\ \A m, n \in 0 .. N : m <= n => at[m] <= at[n]
<1> DEFINE at == Lay(off, lens)
           step == [i \in 1 .. N |-> [x \in Nat |-> align(x + lens[i])]]
           Eqn(g) == g = [n \in 0 .. N |-> IF n = 0 THEN off ELSE align(g[n - 1] + lens[n])]
<1>1. \A i \in 1 .. N : lens[i] \in Nat /\ i \in Nat /\ i - 1 \in 0 .. N
  OBVIOUS
<1>2. \A x \in Nat, i \in 1 .. N : align(x + lens[i]) \in Nat
  <2> TAKE x \in Nat, i \in 1 .. N
  <2>1. x + lens[i] \in Nat
    BY <1>1
  <2> QED BY <2>1, Aligned, Zenon
<1>3. PICK g \in Iterations(Nat, off, N, step) : TRUE
  <2>1. step \in [1 .. N -> [Nat -> Nat]]
    BY <1>2
  <2>2. Iterations(Nat, off, N, step) # {}
    <3> HIDE DEF step
    <3> QED BY <2>1, Recursion
  <2> QED BY <2>2
<1>4. g \in [0 .. N -> Nat] /\ g[0] = off /\ \A i \in 1 .. N : g[i] = step[i][g[i - 1]]
  BY <1>3 DEF Iterations
<1>5. ASSUME NEW i \in 1 .. N PROVE g[i] = align(g[i - 1] + lens[i])
  BY <1>1, <1>4
<1>6. Eqn(g)
  <2> DEFINE h == [n \in 0 .. N |-> IF n = 0 THEN off ELSE align(g[n - 1] + lens[n])]
  <2>1. \A i \in 0 .. N : g[i] = h[i]
    BY <1>4, <1>5
  <2> QED BY <1>4, <2>1
<1>7. Eqn(at)
  <2> HIDE DEF Eqn
  <2>1. at = CHOOSE f : Eqn(f)
    <3>1. at = CHOOSE f : f = [n \in 0 .. Len(lens) |-> IF n = 0 THEN off ELSE align(f[n - 1] + lens[n])]
      BY Zenon DEF Lay
    <3> QED BY <3>1 DEF Eqn
  <2> QED BY <1>6, <2>1
<1> HIDE DEF at
<1>8. at[0] = off
  <2>1. 0 \in 0 .. N
    OBVIOUS
  <2> QED BY <1>7, <2>1, Zenon
<1>9. ASSUME NEW n \in 1 .. N PROVE at[n] = align(at[n - 1] + lens[n])
  <2>1. n \in 0 .. N /\ n # 0
    OBVIOUS
  <2> QED BY <1>7, <2>1, Zenon
<1>10. \A n \in 0 .. N : at[n] \in Nat
  <2>1. ASSUME NEW n \in 1 .. N, at[n - 1] \in Nat PROVE at[n] \in Nat
    <3>1. lens[n] \in Nat
      BY <1>1
    <3>2. \A x, y \in Nat : align(x + y) \in Nat
      <4>1. \A x, y \in Nat : x + y \in Nat
        OBVIOUS
      <4> QED BY <4>1, Aligned, Zenon
    <3> QED BY <1>9, <2>1, <3>1, <3>2, Zenon
  <2>2. at[0] \in Nat
    BY <1>8
  <2> QED BY <2>1, <2>2, Carried
<1>11. ASSUME NEW n \in 1 .. N
       PROVE  at[n - 1] + lens[n] <= at[n] /\ at[n - 1] <= at[n] /\ at[n] % 16 = 0
  <2>1. at[n - 1] \in Nat /\ lens[n] \in Nat /\ at[n] = align(at[n - 1] + lens[n])
    BY <1>1, <1>9, <1>10
  <2>2. \A x, y \in Nat : x + y <= align(x + y) /\ x <= align(x + y) /\ align(x + y) % 16 = 0
    <3> TAKE x, y \in Nat
    <3>1. x + y \in Nat
      OBVIOUS
    <3>2. align(x + y) \in Nat /\ align(x + y) >= x + y /\ align(x + y) % 16 = 0
      BY <3>1, Aligned, Zenon
    <3> DEFINE z == align(x + y)
    <3> HIDE DEF z
    <3>3. z \in Nat /\ z >= x + y /\ z % 16 = 0
      BY <3>2 DEF z
    <3>4. x + y <= z /\ x <= z
      BY <3>3
    <3> QED BY <3>3, <3>4 DEF z
  <2> QED BY <2>1, <2>2, Zenon
<1>13. \A n \in 0 .. N : at[n] % 16 = 0
  <2> TAKE n \in 0 .. N
  <2>1. CASE n = 0
    BY <1>8, <2>1
  <2>2. CASE n # 0
    BY <1>11, <2>2
  <2> QED BY <2>1, <2>2
<1>12. ASSUME NEW m \in 0 .. N, NEW n \in 0 .. N, m <= n PROVE at[m] <= at[n]
  <2> DEFINE T == {k \in Nat : m + k <= N => at[m] <= at[m + k]}
  <2>1. 0 \in T
    BY <1>10
  <2>2. ASSUME NEW k \in Nat, k \in T PROVE k + 1 \in T
    <3> SUFFICES ASSUME m + (k + 1) <= N PROVE at[m] <= at[m + (k + 1)]
      OBVIOUS
    <3>1. m + (k + 1) \in 1 .. N /\ (m + (k + 1)) - 1 = m + k /\ m + k \in 0 .. N
      OBVIOUS
    <3>2. at[m + k] <= at[m + (k + 1)]
      BY <1>11, <3>1
    <3>3. at[m] \in Nat /\ at[m + k] \in Nat /\ at[m + (k + 1)] \in Nat /\ at[m] <= at[m + k]
      <4>1. m + k <= N
        BY <3>1
      <4> QED BY <1>10, <2>2, <3>1, <4>1
    <3> QED BY <3>2, <3>3
  <2>3. n - m \in T
    <3> HIDE DEF T
    <3>1. n - m \in Nat
      BY <1>12
    <3> QED BY <2>1, <2>2, <3>1, Induction
  <2> QED BY <1>12, <2>3
<1> QED BY <1>8, <1>10, <1>11, <1>12, <1>13 DEF at

\* The knobs by name.
Named == {"axi_chan", "regioncfg", "qconfig", "mem_attr0", "mem_attr1", "mem_attr2", "mem_attr3",
          "axi_sram", "axi_ext", "power_ctrl", "fast_base", "ta_profile"}

\* KNOB_FIELDS names twelve knobs, no knob twice.
LEMMA KnobNames ==
  /\ Len(KNOB_FIELDS) = 12 /\ DOMAIN KNOB_FIELDS = 1 .. 12
  /\ Knob = Named
  /\ \A n \in 1 .. 12 : KNOB_FIELDS[n] \in Knob
  /\ \A k \in Knob : \E n \in 1 .. 12 : KNOB_FIELDS[n] = k
  /\ \A m, n \in 1 .. 12 : KNOB_FIELDS[m] = KNOB_FIELDS[n] => m = n
<1>1. Len(KNOB_FIELDS) = 12 /\ DOMAIN KNOB_FIELDS = 1 .. 12
  BY DEF KNOB_FIELDS
<1>2. Knob = {KNOB_FIELDS[n] : n \in 1 .. 12}
  BY <1>1 DEF Knob, ToSet
<1>3. 1 .. 12 = {1, 2, 3, 4, 5, 6, 7, 8, 9, 10, 11, 12}
  OBVIOUS
<1>4. Knob = Named
  BY <1>2, <1>3 DEF KNOB_FIELDS, Named
<1>5. \A m, n \in 1 .. 12 : KNOB_FIELDS[m] = KNOB_FIELDS[n] => m = n
  BY <1>3 DEF KNOB_FIELDS
<1> QED BY <1>1, <1>2, <1>4, <1>5

\* The words knobs() makes of its arguments.
LEMMA KnobsAre ==
  ASSUME NEW a, IsKnobArgs(a)
  PROVE  /\ knobs(a) \in [Knob -> Int]
         /\ knobs(a)["fast_base"] = a.fast_base /\ knobs(a)["ta_profile"] = a.ta_profile
         /\ knobs(a)["regioncfg"] = IF a.ports = {} THEN OFF ELSE PortKnobs(a).regioncfg
         /\ a.ports # {} => knobs(a)["mem_attr0"] = 0 /\ knobs(a)["mem_attr2"] = 4
<1> DEFINE given == [axi_chan |-> a.axi, axi_sram |-> a.axi_limit.sram, axi_ext |-> a.axi_limit.ext,
                     power_ctrl |-> a.power_ctrl, fast_base |-> a.fast_base,
                     ta_profile |-> a.ta_profile]
           ports == IF a.ports = {} THEN <<>> ELSE PortKnobs(a)
<1>1. knobs(a) = [k \in Knob |-> IF k \in DOMAIN given THEN given[k]
                                 ELSE IF k \in DOMAIN ports THEN ports[k] ELSE OFF]
  BY Zenon DEF knobs
<1>2. DOMAIN given = {"axi_chan", "axi_sram", "axi_ext", "power_ctrl", "fast_base", "ta_profile"}
  OBVIOUS
<1>3. \A k \in DOMAIN given : given[k] \in Int
  BY <1>2 DEF IsKnobArgs
<1>4. /\ DOMAIN ports = IF a.ports = {} THEN {} ELSE
            {"regioncfg", "qconfig", "mem_attr0", "mem_attr1", "mem_attr2", "mem_attr3"}
  BY DEF PortKnobs
<1>5. \A k \in DOMAIN ports : ports[k] \in Int
  <2>1. \A p : Attr(p) \in Int
    BY DEF Attr
  <2>2. \A x, y, z \in Int : 1 * x + 4 * y + 16 * z \in Int
    OBVIOUS
  <2>3. PortKnobs(a).regioncfg \in Int /\ PortKnobs(a).qconfig \in Int
    BY <2>1, <2>2 DEF PortKnobs, RegionShift
  <2>4. \A k \in {"mem_attr0", "mem_attr1", "mem_attr2", "mem_attr3"} : PortKnobs(a)[k] \in Int
    BY DEF PortKnobs
  <2> QED BY <1>4, <2>3, <2>4
<1> HIDE DEF given, ports
<1>8. ASSUME NEW k \in Knob
      PROVE  knobs(a)[k] = IF k \in DOMAIN given THEN given[k]
                           ELSE IF k \in DOMAIN ports THEN ports[k] ELSE OFF
  BY <1>1, Zenon
<1>9. \A k \in Knob : knobs(a)[k] \in Int
  BY <1>3, <1>5, <1>8 DEF OFF
<1>10. knobs(a) \in [Knob -> Int]
  <2>1. knobs(a) = [k \in Knob |-> knobs(a)[k]]
    BY <1>1
  <2> QED BY <1>9, <2>1
<1>11. knobs(a)["fast_base"] = a.fast_base /\ knobs(a)["ta_profile"] = a.ta_profile
  <2>1. given["fast_base"] = a.fast_base /\ given["ta_profile"] = a.ta_profile
    BY DEF given
  <2>2. "fast_base" \in Knob /\ "ta_profile" \in Knob
    BY KnobNames DEF Named
  <2> QED BY <1>2, <1>8, <2>1, <2>2
<1>12. knobs(a)["regioncfg"] = IF a.ports = {} THEN OFF ELSE PortKnobs(a).regioncfg
  <2>1. "regioncfg" \in Knob
    BY KnobNames DEF Named
  <2>2. a.ports # {} => ports["regioncfg"] = PortKnobs(a).regioncfg
    BY DEF ports
  <2> QED BY <1>2, <1>4, <1>8, <2>1, <2>2
<1>13. a.ports # {} => knobs(a)["mem_attr0"] = 0 /\ knobs(a)["mem_attr2"] = 4
  <2>1. "mem_attr0" \in Knob /\ "mem_attr2" \in Knob
    BY KnobNames DEF Named
  <2>2. a.ports # {} => ports["mem_attr0"] = 0 /\ ports["mem_attr2"] = 4
    BY DEF ports, PortKnobs
  <2> QED BY <1>2, <1>4, <1>8, <2>1, <2>2
<1> QED BY <1>10, <1>11, <1>12, <1>13

\* Each region goes to the port asked for, and to EXT if none was.
LEMMA PortsAre ==
  ASSUME NEW a, IsKnobArgs(a), NEW b, KnobsOf(b) = knobs(a), NEW r \in Regions
  PROVE  RegionExt(b, r) <=> PortOf(a, r) # "sram"
<1> DEFINE k == knobs(a)
           shift == CASE r = "const" -> 1 [] r = "arena" -> 4 [] r = "fast" -> 16
           attr == (k["regioncfg"] \div shift) % 4
           mem == k[<<"mem_attr0", "mem_attr1", "mem_attr2", "mem_attr3">>[attr + 1]]
<1>1. RegionExt(b, r) = (k["regioncfg"] = OFF \/ mem = OFF \/ (mem \div 4) % 2 = 1)
  BY DEF RegionExt
<1>2. CASE a.ports = {}
  <2>1. k["regioncfg"] = OFF /\ PortOf(a, r) = ""
    BY <1>2, KnobsAre DEF PortOf
  <2> QED BY <1>1, <2>1
<1>3. CASE a.ports # {}
  <2> DEFINE p == CHOOSE q \in a.ports : TRUE
             at(x) == Attr(p[x])
  <2>1. p \in [{"cmd", "const", "arena", "fast"} -> {"sram", "ext"}]
    BY <1>3 DEF IsKnobArgs
  <2>2. \A x \in {"cmd", "const", "arena", "fast"} : PortOf(a, x) = p[x]
    BY <1>3 DEF PortOf
  <2> HIDE DEF p
  <2>3. \A x \in Regions : at(x) = IF p[x] = "ext" THEN 2 ELSE 0
    BY DEF Attr
  <2>4. k["regioncfg"] = at("const") + 4 * at("arena") + 16 * at("fast")
    <3>1. k["regioncfg"] = PortKnobs(a).regioncfg
      BY <1>3, KnobsAre
    <3>2. PortKnobs(a).regioncfg = 1 * at("const") + 4 * at("arena") + 16 * at("fast")
      BY <2>2 DEF PortKnobs, RegionShift
    <3>3. at("const") \in Int
      BY <2>3 DEF Regions
    <3> QED BY <3>1, <3>2, <3>3
  <2>5. r \in {"const", "arena", "fast"} /\ p[r] \in {"sram", "ext"} /\ PortOf(a, r) = p[r]
    BY <2>1, <2>2 DEF Regions
  <2>6. at("const") \in {0, 2} /\ at("arena") \in {0, 2} /\ at("fast") \in {0, 2}
    BY <2>3 DEF Regions
  <2>7. attr = at(r) /\ k["regioncfg"] # OFF
    <3>1. \A x, y, z \in {0, 2} :
            /\ ((x + 4 * y + 16 * z) \div 1) % 4 = x
            /\ ((x + 4 * y + 16 * z) \div 4) % 4 = y
            /\ ((x + 4 * y + 16 * z) \div 16) % 4 = z
            /\ x + 4 * y + 16 * z # OFF
      BY DEF OFF
    <3>2. CASE r = "const"
      <4>1. shift = 1
        BY <3>2
      <4> HIDE DEF at, shift
      <4> QED BY <2>4, <2>6, <3>1, <3>2, <4>1
    <3>3. CASE r = "arena"
      <4>1. shift = 4
        BY <3>3
      <4> HIDE DEF at, shift
      <4> QED BY <2>4, <2>6, <3>1, <3>3, <4>1
    <3>4. CASE r = "fast"
      <4>1. shift = 16
        BY <3>4
      <4> HIDE DEF at, shift
      <4> QED BY <2>4, <2>6, <3>1, <3>4, <4>1
    <3> QED BY <2>5, <3>2, <3>3, <3>4
  <2>8. k["mem_attr0"] = 0 /\ k["mem_attr2"] = 4
    BY <1>3, KnobsAre
  <2>9. CASE p[r] = "sram"
    <3>1. attr = 0
      BY <2>3, <2>7, <2>9
    <3>2. mem = 0
      <4> HIDE DEF attr
      <4> QED BY <2>8, <3>1
    <3>3. ~(mem = OFF \/ (mem \div 4) % 2 = 1)
      <4> HIDE DEF mem
      <4> QED BY <3>2 DEF OFF
    <3> QED BY <1>1, <2>5, <2>7, <2>9, <3>3
  <2>10. CASE p[r] = "ext"
    <3>1. attr = 2
      BY <2>3, <2>7, <2>10
    <3>2. mem = 4
      <4> HIDE DEF attr
      <4> QED BY <2>8, <3>1
    <3>3. (mem \div 4) % 2 = 1
      <4> HIDE DEF mem
      <4> QED BY <3>2
    <3> QED BY <1>1, <2>5, <2>10, <3>3
  <2> QED BY <2>5, <2>9, <2>10
<1> QED BY <1>2, <1>3

\* The tensors of a workload, one after the other.
Io(i) == i.ins \o i.outs
Lens(i) == [n \in DOMAIN Io(i) |-> Io(i)[n].len]
DataOf(i, b) == Lay(align(b.const_off + i.const_len), Lens(i))

\* They are blocks of numbers, inputs first.
LEMMA Tensors ==
  ASSUME NEW i, IsWorkload(i)
  PROVE  /\ i.ins \in Seq(Block) /\ i.outs \in Seq(Block) /\ Io(i) \in Seq(Block)
         /\ Len(i.ins) \in Nat \ {0} /\ Len(i.outs) \in Nat \ {0}
         /\ Len(Io(i)) = Len(i.ins) + Len(i.outs) /\ DOMAIN Io(i) = 1 .. Len(Io(i))
         /\ \A n \in 1 .. Len(i.ins) : Io(i)[n] = i.ins[n]
         /\ \A n \in 1 .. Len(i.outs) : Io(i)[Len(i.ins) + n] = i.outs[n]
         /\ \A n \in 1 .. Len(Io(i)) : Io(i)[n] \in Block
         /\ Lens(i) \in Seq(Nat) /\ Len(Lens(i)) = Len(Io(i))
<1>1. i.ins \in Seq(Block) /\ i.outs \in Seq(Block) /\ i.ins # <<>> /\ i.outs # <<>>
  BY DEF IsWorkload
<1>2. Io(i) \in Seq(Block) /\ Len(Io(i)) = Len(i.ins) + Len(i.outs)
      /\ \A n \in 1 .. Len(i.ins) + Len(i.outs) :
           Io(i)[n] = IF n <= Len(i.ins) THEN i.ins[n] ELSE i.outs[n - Len(i.ins)]
  BY <1>1, ConcatProperties DEF Io
<1>3. Len(i.ins) \in Nat \ {0} /\ Len(i.outs) \in Nat \ {0}
  BY <1>1, EmptySeq
<1> DEFINE x == i.ins
           y == i.outs
           z == Io(i)
<1>4. x \in Seq(Block) /\ y \in Seq(Block) /\ z \in Seq(Block) /\ Len(z) = Len(x) + Len(y)
      /\ Len(x) \in Nat \ {0} /\ Len(y) \in Nat \ {0}
      /\ \A n \in 1 .. Len(x) + Len(y) : z[n] = IF n <= Len(x) THEN x[n] ELSE y[n - Len(x)]
  BY <1>1, <1>2, <1>3
<1>5. DOMAIN z = 1 .. Len(z) /\ \A n \in 1 .. Len(z) : z[n] \in Block
  <2> HIDE DEF x, y, z
  <2> QED BY <1>4
<1>6. \A n \in 1 .. Len(x) : z[n] = x[n]
  <2> HIDE DEF x, y, z
  <2> QED BY <1>4
<1>7. \A n \in 1 .. Len(y) : z[Len(x) + n] = y[n]
  <2> HIDE DEF x, y, z
  <2> TAKE n \in 1 .. Len(y)
  <2>1. Len(x) + n \in 1 .. Len(x) + Len(y) /\ ~(Len(x) + n <= Len(x)) /\ (Len(x) + n) - Len(x) = n
    BY <1>4
  <2> QED BY <1>4, <2>1, Zenon
<1>8. Lens(i) = [n \in 1 .. Len(z) |-> z[n].len]
  BY <1>5 DEF Lens
<1>9. Lens(i) \in Seq(Nat) /\ Len(Lens(i)) = Len(z)
  <2> HIDE DEF x, y, z
  <2>1. \A n \in 1 .. Len(z) : z[n].len \in Nat
    BY <1>5 DEF Block
  <2> QED BY <1>4, <1>8, <2>1
<1> QED BY <1>4, <1>5, <1>6, <1>7, <1>9

\* Is one of these knobs given?
Given(kw, from, to) == \E n \in from .. to : kw[KNOB_FIELDS[n]] # OFF

\* The entries of its tensors, and the number of its knob words.
EntriesOf(i, b) ==
  [n \in 1 .. Len(Io(i)) |->
     [off |-> Io(i)[n].off, len |-> Io(i)[n].len, data |-> DataOf(i, b)[n - 1]]]
Words(b) == <<0, 8, 16, 16>>[b.version]
KnobWords(kw, b) == [n \in 1 .. Words(b) |-> IF n <= 12 THEN kw[KNOB_FIELDS[n]] ELSE OFF]
HeaderLen(i, b) == HEADER_BYTES + 4 * Words(b) + IF Len(Io(i)) > 2 THEN IO_BYTES ELSE 0

\* The fields of a packed blob.
LEMMA Packed ==
  ASSUME NEW i, IsWorkload(i), NEW kw \in [Knob -> Int], ~PackRefused(i),
         NEW b, b = pack(i, kw)
  PROVE  /\ b.version \in 1 .. 4 /\ (b.version = 4 <=> Len(Io(i)) > 2)
         /\ b.version <= 2 => ~Given(kw, 8, 12)
         /\ b.version = 1 => ~Given(kw, 1, 7)
         /\ b.cms_off = HeaderLen(i, b)
         /\ b.cms_len = i.cms_len /\ b.const_off = align(b.cms_off + i.cms_len)
         /\ b.const_len = i.const_len
         /\ b.arena_size = i.arena_size /\ b.fast_size = i.fast_size
         /\ b.first_in = EntriesOf(i, b)[1] /\ b.first_out = EntriesOf(i, b)[Len(i.ins) + 1]
         /\ b.total_len = DataOf(i, b)[Len(Io(i))]
         /\ b.words = KnobWords(kw, b)
         /\ Len(Io(i)) > 2 => b.n_in = Len(i.ins) /\ b.table = EntriesOf(i, b)
<1> DEFINE version == IF Len(i.ins) + Len(i.outs) > 2 THEN 4
                      ELSE IF Given(kw, V2_KNOBS + 1, Len(KNOB_FIELDS)) THEN 3
                      ELSE IF Given(kw, 1, V2_KNOBS) THEN 2 ELSE 1
           knob_bytes == <<0, 32, 64, 64>>[version]
           cms_off == HEADER_BYTES + knob_bytes + IF version = 4 THEN IO_BYTES ELSE 0
           const_off == align(cms_off + i.cms_len)
           lay == Lay(align(const_off + i.const_len), [n \in DOMAIN Io(i) |-> Io(i)[n].len])
           entries == [n \in DOMAIN Io(i) |->
                         [off |-> Io(i)[n].off, len |-> Io(i)[n].len, data |-> lay[n - 1]]]
           words == [n \in 1 .. knob_bytes \div 4 |->
                       IF n <= Len(KNOB_FIELDS) THEN kw[KNOB_FIELDS[n]] ELSE OFF]
           B == [version |-> version, cms_off |-> cms_off, cms_len |-> i.cms_len,
      const_off |-> const_off, const_len |-> i.const_len,
      arena_size |-> i.arena_size, fast_size |-> i.fast_size,
      first_in |-> entries[1], first_out |-> entries[Len(i.ins) + 1],
      total_len |-> lay[Len(Io(i))],
      words |-> words,
      n_in |-> IF version = 4 THEN Len(i.ins) ELSE OFF,
      table |-> IF version = 4 THEN entries ELSE <<>>]
<1>1. b = B
  BY ZenonT(30) DEF pack, Io, Given
<1>2. /\ version \in 1 .. 4 /\ (version = 4 <=> Len(Io(i)) > 2)
      /\ version <= 2 => ~Given(kw, 8, 12)
      /\ version = 1 => ~Given(kw, 1, 7)
  <2>1. Len(KNOB_FIELDS) = 12 /\ V2_KNOBS = 7 /\ V2_KNOBS + 1 = 8
    BY KnobNames DEF V2_KNOBS
  <2>2. Len(Io(i)) = Len(i.ins) + Len(i.outs)
    BY Tensors
  <2> DEFINE s8 == Given(kw, 8, 12)
             s1 == Given(kw, 1, 7)
             many == Len(i.ins) + Len(i.outs) > 2
  <2>3. version = IF many THEN 4 ELSE IF s8 THEN 3 ELSE IF s1 THEN 2 ELSE 1
    BY <2>1, Zenon
  <2>4. many <=> Len(Io(i)) > 2
    BY <2>2, Zenon
  <2>5. /\ version \in 1 .. 4 /\ (version = 4 <=> many) /\ (version <= 2 => ~s8) /\ (version = 1 => ~s1)
    <3> HIDE DEF version, s8, s1, many
    <3>1. CASE many
      BY <2>3, <3>1
    <3>2. CASE ~many /\ s8
      BY <2>3, <3>2
    <3>3. CASE ~many /\ ~s8 /\ s1
      BY <2>3, <3>3
    <3>4. CASE ~many /\ ~s8 /\ ~s1
      BY <2>3, <3>4
    <3> QED BY <3>1, <3>2, <3>3, <3>4
  <2> QED BY <2>4, <2>5, Zenon
<1>3. knob_bytes = 4 * <<0, 8, 16, 16>>[version] /\ knob_bytes \div 4 = <<0, 8, 16, 16>>[version]
  <2> HIDE DEF version
  <2>1. version \in {1, 2, 3, 4}
    BY <1>2
  <2> QED BY <2>1
<1>4. b.version = version /\ b.cms_off = cms_off /\ b.cms_len = i.cms_len
      /\ b.const_off = const_off /\ b.const_len = i.const_len
      /\ b.arena_size = i.arena_size /\ b.fast_size = i.fast_size
      /\ b.first_in = entries[1] /\ b.first_out = entries[Len(i.ins) + 1]
      /\ b.total_len = lay[Len(Io(i))] /\ b.words = words
      /\ b.n_in = (IF version = 4 THEN Len(i.ins) ELSE OFF)
      /\ b.table = (IF version = 4 THEN entries ELSE <<>>)
  <2> HIDE DEF version, cms_off, const_off, entries, lay, words
  <2> QED BY <1>1
<1>5. DataOf(i, b) = lay
  <2>1. b.const_off = const_off
    BY <1>4
  <2> QED BY <2>1, Zenon DEF DataOf, Lens
<1>6. DOMAIN Io(i) = 1 .. Len(Io(i)) /\ Len(KNOB_FIELDS) = 12
  BY Tensors, KnobNames
<1> HIDE DEF version, knob_bytes, lay
<1>7. words = [n \in 1 .. Words(b) |-> IF n <= 12 THEN kw[KNOB_FIELDS[n]] ELSE OFF]
  BY <1>3, <1>4, <1>6 DEF Words
<1>8. b.cms_off = HeaderLen(i, b)
  <2>1. b.cms_off = cms_off /\ b.version = version
    BY <1>4
  <2>2. b.cms_off = HEADER_BYTES + knob_bytes + IF version = 4 THEN IO_BYTES ELSE 0
    BY <2>1, Zenon
  <2>3. knob_bytes = 4 * Words(b) /\ (version = 4 <=> Len(Io(i)) > 2)
    BY <1>2, <1>3, <2>1, Zenon DEF Words
  <2> QED BY <2>2, <2>3, Zenon DEF HeaderLen
<1> HIDE DEF words, cms_off
<1>9. b.const_off = align(b.cms_off + i.cms_len)
  BY <1>4
<1> HIDE DEF const_off
<1>10. b.n_in = (IF Len(Io(i)) > 2 THEN Len(i.ins) ELSE OFF)
       /\ b.table = (IF Len(Io(i)) > 2 THEN entries ELSE <<>>)
  BY <1>2, <1>4, Zenon
<1>11. entries = EntriesOf(i, b)
  BY <1>5, <1>6, Zenon DEF EntriesOf
<1> HIDE DEF entries
<1>12. /\ b.version \in 1 .. 4 /\ (b.version = 4 <=> Len(Io(i)) > 2)
       /\ b.version <= 2 => ~Given(kw, 8, 12)
       /\ b.version = 1 => ~Given(kw, 1, 7)
  BY <1>2, <1>4, Zenon
<1>13. /\ b.first_in = EntriesOf(i, b)[1] /\ b.first_out = EntriesOf(i, b)[Len(i.ins) + 1]
  BY <1>4, <1>11, Zenon
<1>14. /\ b.total_len = DataOf(i, b)[Len(Io(i))]
       /\ b.words = KnobWords(kw, b)
  BY <1>4, <1>5, <1>7, Zenon DEF KnobWords
<1>15. /\ b.cms_len = i.cms_len /\ b.const_len = i.const_len
       /\ b.arena_size = i.arena_size /\ b.fast_size = i.fast_size
  BY <1>4
<1>16. Len(Io(i)) > 2 => b.n_in = Len(i.ins) /\ b.table = EntriesOf(i, b)
  BY <1>10, <1>11, Zenon
<1> QED BY <1>8, <1>9, <1>12, <1>13, <1>14, <1>15, <1>16, Zenon

\* The blob carries the knobs it was packed with.
LEMMA KnobsBack ==
  ASSUME NEW i, IsWorkload(i), NEW kw \in [Knob -> Int], ~PackRefused(i),
         NEW b, b = pack(i, kw)
  PROVE  KnobsOf(b) = kw
<1> DEFINE num(k) == CHOOSE m \in DOMAIN KNOB_FIELDS : KNOB_FIELDS[m] = k
           word(k) == IF num(k) > Len(b.words) \/ (b.version = 2 /\ num(k) = 8)
                        THEN OFF ELSE b.words[num(k)]
<1>1. KnobsOf(b) = [k \in Knob |-> word(k)]
  BY Zenon DEF KnobsOf
<1>2. ASSUME NEW k \in Knob PROVE word(k) = kw[k]
  <2> DEFINE n == num(k)
  <2>1. n \in 1 .. 12 /\ KNOB_FIELDS[n] = k
    BY KnobNames
  <2>2. b.version \in {1, 2, 3, 4} /\ b.words = KnobWords(kw, b)
    BY Packed
  <2>3. Words(b) \in Nat /\ Words(b) = CASE b.version = 1 -> 0 [] b.version = 2 -> 8
                                         [] b.version = 3 -> 16 [] b.version = 4 -> 16
    BY <2>2 DEF Words
  <2>4. Len(b.words) = Words(b)
    BY <2>2, <2>3 DEF KnobWords
  <2>5. n <= Words(b) => b.words[n] = kw[k]
    <3>1. n <= Words(b) => n \in 1 .. Words(b)
      <4>1. \A w \in Nat, m \in 1 .. 12 : m <= w => m \in 1 .. w
        OBVIOUS
      <4> QED BY <2>1, <2>3, <4>1, Zenon
    <3>2. n <= 12
      <4> HIDE DEF n
      <4> QED BY <2>1
    <3> QED BY <2>1, <2>2, <3>1, <3>2, Zenon DEF KnobWords
  <2>6. b.version <= 2 /\ n >= 8 => kw[k] = OFF
    <3>1. n >= 8 => n \in 8 .. 12
      <4> HIDE DEF n
      <4> QED BY <2>1
    <3>2. b.version <= 2 => ~Given(kw, 8, 12)
      BY Packed
    <3> QED BY <2>1, <3>1, <3>2, Zenon DEF Given
  <2>7. b.version = 1 => kw[k] = OFF
    <3>1. n >= 8 \/ n \in 1 .. 7
      <4> HIDE DEF n
      <4> QED BY <2>1
    <3>2. b.version = 1 => ~Given(kw, 1, 7) /\ b.version <= 2
      BY <2>2, Packed
    <3> QED BY <2>1, <2>6, <3>1, <3>2, Zenon DEF Given
  <2>8. word(k) = IF n > Words(b) \/ (b.version = 2 /\ n = 8) THEN OFF ELSE b.words[n]
    BY <2>4
  <2> HIDE DEF n, word
  <2>9. CASE b.version = 1
    BY <2>1, <2>3, <2>7, <2>8, <2>9
  <2>10. CASE b.version = 2
    BY <2>1, <2>3, <2>5, <2>6, <2>8, <2>10
  <2>11. CASE b.version \in {3, 4}
    BY <2>1, <2>3, <2>5, <2>8, <2>11
  <2> QED BY <2>2, <2>9, <2>10, <2>11
<1> HIDE DEF word
<1>3. KnobsOf(b) = [k \in Knob |-> kw[k]]
  BY <1>1, <1>2, Zenon
<1> QED BY <1>3

\* Its entries are those of the packed tensors, in their order.
LEMMA EntriesBack ==
  ASSUME NEW i, IsWorkload(i), NEW kw \in [Knob -> Int], ~PackRefused(i),
         NEW b, b = pack(i, kw)
  PROVE  /\ Entries(b) = EntriesOf(i, b) /\ NumIn(b) = Len(i.ins)
         /\ TableWellFormed(b) /\ b.version \in 1 .. 4
<1> DEFINE es == EntriesOf(i, b)
           x == Len(i.ins)
           y == Len(i.outs)
           z == Len(Io(i))
<1>1. x \in Nat \ {0} /\ y \in Nat \ {0} /\ z = x + y
  BY Tensors
<1>2. /\ b.version \in 1 .. 4 /\ (b.version = 4 <=> z > 2)
      /\ b.first_in = es[1] /\ b.first_out = es[x + 1]
      /\ z > 2 => b.n_in = x /\ b.table = es
  BY Packed
<1>3. DOMAIN es = 1 .. z /\ es = [n \in 1 .. z |-> es[n]]
  BY DEF EntriesOf
<1>4. z <= IO_MAX
  <2>1. ~(x + y > IO_MAX)
    BY Zenon DEF PackRefused
  <2> HIDE DEF x, y, z
  <2> QED BY <1>1, <2>1, BlobAssumption
<1>5. Len(es) = z /\ es \in Seq({es[n] : n \in 1 .. z})
  <2> HIDE DEF es, x, y, z
  <2> QED BY <1>1, <1>3
<1>8. Entries(b) = IF b.version = 4 THEN b.table ELSE <<b.first_in, b.first_out>>
  BY DEF Entries
<1>9. NumIn(b) = IF b.version = 4 THEN b.n_in ELSE 1
  BY DEF NumIn
<1> HIDE DEF es, x, y, z
<1>6. CASE z > 2
  <2>1. b.n_in = x /\ b.table = es /\ b.version = 4
    BY <1>2, <1>6
  <2>2. TableWellFormed(b)
    <3>1. b.n_in >= 1 /\ Len(b.table) - b.n_in >= 1 /\ Len(b.table) <= IO_MAX
      <4>1. Len(b.table) = z
        BY <2>1, <1>5
      <4>2. z - x >= 1 /\ x >= 1
        BY <1>1
      <4> QED BY <2>1, <4>1, <4>2, <1>4
    <3>2. b.table[1] = b.first_in /\ b.table[b.n_in + 1] = b.first_out
      BY <1>2, <2>1
    <3> QED BY <3>1, <3>2, Zenon DEF TableWellFormed
  <2> QED BY <1>2, <1>8, <1>9, <2>1, <2>2, Zenon DEF es, x
<1>7. CASE ~(z > 2)
  <2>1. x = 1 /\ y = 1 /\ z = 2 /\ b.version # 4
    BY <1>1, <1>2, <1>7
  <2>2. es = <<es[1], es[2]>>
    BY <1>3, <2>1
  <2>3. x + 1 = 2
    BY <2>1
  <2>4. TableWellFormed(b)
    BY <2>1 DEF TableWellFormed
  <2>5. Entries(b) = es
    BY <1>2, <1>8, <2>1, <2>2, <2>3, Zenon
  <2>6. NumIn(b) = x
    BY <1>9, <2>1, Zenon
  <2> QED BY <1>2, <2>4, <2>5, <2>6, Zenon DEF es, x
<1> QED BY <1>6, <1>7

\* Where the sections of the blob lie: header, command stream, constants, and the
\* tensors' data behind them, on 16-byte boundaries and in this order.
LEMMA Offsets ==
  ASSUME NEW i, IsWorkload(i), NEW kw \in [Knob -> Int], ~PackRefused(i),
         NEW b, b = pack(i, kw)
  PROVE  LET at == DataOf(i, b)
             z == Len(Io(i))
         IN /\ HeaderLen(i, b) \in Nat /\ HeaderLen(i, b) % 16 = 0
            /\ b.const_off \in Nat /\ b.const_off % 16 = 0
            /\ b.cms_off + i.cms_len <= b.const_off
            /\ b.const_off + i.const_len <= at[0]
            /\ \A n \in 0 .. z : at[n] \in Nat /\ at[n] % 16 = 0
            /\ \A n \in 1 .. z : at[n - 1] + Io(i)[n].len <= at[n]
            /\ \A m, n \in 0 .. z : m <= n => at[m] <= at[n]
<1> DEFINE x == Len(i.ins)
           y == Len(i.outs)
           z == Len(Io(i))
           hl == HeaderLen(i, b)
           data == align(b.const_off + i.const_len)
           at == DataOf(i, b)
<1>1. hl \in Nat /\ hl % 16 = 0
  <2>1. Words(b) \in {0, 8, 16}
    <3>1. b.version \in {1, 2, 3, 4}
      BY Packed
    <3> QED BY <3>1 DEF Words
  <2>2. IO_BYTES \in Nat /\ IO_BYTES % 16 = 0
    <3>1. \A m \in Nat : m % 4 = 2 => (4 * (2 + 3 * m)) % 16 = 0
      <4> TAKE m \in Nat
      <4> HAVE m % 4 = 2
      <4> DEFINE q == m \div 4
      <4>1. q \in Nat /\ m = 4 * q + 2
        OBVIOUS
      <4> HIDE DEF q
      <4>2. 4 * (2 + 3 * m) = 16 * (3 * q + 2)
        BY <4>1
      <4>3. 3 * q + 2 \in Nat
        BY <4>1
      <4>4. \A r \in Nat : (16 * r) % 16 = 0
        OBVIOUS
      <4> QED BY <4>2, <4>3, <4>4, Zenon
    <3>2. \A m \in Nat : 4 * (2 + 3 * m) \in Nat
      OBVIOUS
    <3> QED BY <3>1, <3>2, BlobAssumption, Zenon DEF IO_BYTES
  <2>3. \A w \in {0, 8, 16}, m \in Nat :
          m % 16 = 0 => 64 + 4 * w + m \in Nat /\ (64 + 4 * w + m) % 16 = 0
    OBVIOUS
  <2>4. hl = 64 + 4 * Words(b) + IF z > 2 THEN IO_BYTES ELSE 0
    BY Zenon DEF HeaderLen, HEADER_BYTES
  <2>5. 0 \in Nat /\ 0 % 16 = 0
    OBVIOUS
  <2> DEFINE tl == IF z > 2 THEN IO_BYTES ELSE 0
  <2>6. tl \in Nat /\ tl % 16 = 0
    BY <2>2, <2>5, Zenon
  <2>7. hl = 64 + 4 * Words(b) + tl
    BY <2>4, Zenon
  <2> HIDE DEF tl, hl
  <2> QED BY <2>1, <2>3, <2>6, <2>7, ZenonT(60)
<1>2. i.cms_len \in Nat /\ i.const_len \in Nat
  BY DEF IsWorkload
<1>3. b.const_off = align(b.cms_off + i.cms_len) /\ b.cms_off = hl
  BY Packed
<1>4. \A p, q \in Nat : /\ align(p + q) \in Nat /\ align(p + q) % 16 = 0
                        /\ p + q <= align(p + q)
  <2>1. \A p, q \in Nat : p + q \in Nat
    OBVIOUS
  <2>2. \A p \in Nat : p <= align(p)
    <3> TAKE p \in Nat
    <3> DEFINE r == align(p)
    <3>1. r \in Nat /\ r >= p
      BY Aligned, Zenon
    <3>2. p <= r
      <4> HIDE DEF r
      <4> QED BY <3>1
    <3> QED BY <3>2
  <2> QED BY <2>1, <2>2, Aligned, Zenon
<1>5. /\ b.const_off \in Nat /\ b.const_off % 16 = 0
      /\ b.cms_off + i.cms_len <= b.const_off
  BY <1>1, <1>2, <1>3, <1>4, Zenon
<1>6. data \in Nat /\ data % 16 = 0 /\ b.const_off + i.const_len <= data
  BY <1>2, <1>4, <1>5, Zenon
<1>7. Lens(i) \in Seq(Nat) /\ z \in Nat /\ z = Len(Lens(i))
      /\ \A n \in 1 .. z : Lens(i)[n] = Io(i)[n].len
  <2>1. Lens(i) \in Seq(Nat) /\ z = Len(Lens(i)) /\ DOMAIN Io(i) = 1 .. z
    BY Tensors
  <2>2. z \in Nat
    BY <2>1
  <2> QED BY <2>1, <2>2, Zenon DEF Lens
<1>8. /\ at[0] = data
      /\ \A n \in 0 .. z : at[n] \in Nat /\ at[n] % 16 = 0
      /\ \A n \in 1 .. z : at[n - 1] + Lens(i)[n] <= at[n]
      /\ \A m, n \in 0 .. z : m <= n => at[m] <= at[n]
  <2>1. at = Lay(data, Lens(i))
    BY Zenon DEF DataOf
  <2> HIDE DEF at, data
  <2> QED BY <1>6, <1>7, <2>1, LayIs
<1>9. \A n \in 1 .. z : at[n - 1] + Io(i)[n].len <= at[n]
  BY <1>7, <1>8, Zenon
<1> QED BY <1>1, <1>5, <1>6, <1>8, <1>9, Zenon

\* Every tensor lies inside the arena, and its data inside the blob.
LEMMA EntriesInside ==
  ASSUME NEW i, IsWorkload(i), NEW kw \in [Knob -> Int], ~PackRefused(i),
         NEW b, b = pack(i, kw), NEW e \in ToSet(Entries(b))
  PROVE  EntryInside(b, e)
<1> DEFINE z == Len(Io(i))
           at == DataOf(i, b)
<1>1. z \in Nat /\ DOMAIN Io(i) = 1 .. z
  BY Tensors
<1>2. PICK n \in 1 .. z : e = EntriesOf(i, b)[n]
  <2>1. Entries(b) = EntriesOf(i, b)
    BY EntriesBack
  <2>2. DOMAIN EntriesOf(i, b) = 1 .. z
    BY DEF EntriesOf
  <2> QED BY <2>1, <2>2, Zenon DEF ToSet
<1>3. e.off = Io(i)[n].off /\ e.len = Io(i)[n].len /\ e.data = at[n - 1]
  BY <1>2 DEF EntriesOf
<1>4. /\ at[n - 1] \in Nat /\ at[n] \in Nat /\ at[z] \in Nat
      /\ at[n - 1] + Io(i)[n].len <= at[n] /\ at[n] <= at[z]
  <2>1. n - 1 \in 0 .. z /\ n \in 0 .. z /\ z \in 0 .. z /\ n <= z
    <3> HIDE DEF z
    <3> QED BY <1>1
  <2> QED BY <2>1, Offsets, Zenon
<1>5. Io(i)[n].off \in Nat /\ Io(i)[n].len \in Nat
  BY Tensors DEF Block
<1>6. e.off + e.len <= b.arena_size
  <2>1. Io(i)[n] \in ToSet(i.ins \o i.outs)
    BY <1>1, Zenon DEF Io, ToSet
  <2>2. ~(Io(i)[n].off + Io(i)[n].len > i.arena_size)
    BY <2>1, Zenon DEF PackRefused
  <2>3. b.arena_size = i.arena_size /\ i.arena_size \in Nat
    BY Packed DEF IsWorkload
  <2>4. \A p, q, r \in Nat : ~(p + q > r) => p + q <= r
    OBVIOUS
  <2> QED BY <1>3, <1>5, <2>2, <2>3, <2>4, Zenon
<1>7. e.data + e.len <= b.total_len
  <2>1. b.total_len = at[z]
    BY Packed
  <2>2. \A p, q, r, w \in Nat : p + q <= r /\ r <= w => p + q <= w
    OBVIOUS
  <2> QED BY <1>3, <1>4, <1>5, <2>1, <2>2, Zenon
<1> QED BY <1>6, <1>7, Zenon DEF EntryInside

\* The host's parser gives back the knobs and tensors that were packed.
LEMMA ReadsBack ==
  ASSUME NEW i, IsWorkload(i), NEW a, IsKnobArgs(a), ~PackRefused(i),
         NEW b, b = pack(i, knobs(a))
  PROVE  RoundTrip(i, a, b)
<1> DEFINE es == EntriesOf(i, b)
           x == Len(i.ins)
           y == Len(i.outs)
           z == Len(Io(i))
           io(s) == [n \in DOMAIN s |-> [off |-> s[n].off, len |-> s[n].len]]
           ins == SubSeq(es, 1, x)
           outs == SubSeq(es, x + 1, z)
<1>1. knobs(a) \in [Knob -> Int]
  BY KnobsAre
<1>2. KnobsOf(b) = knobs(a)
  BY <1>1, KnobsBack
<1>3. Entries(b) = es /\ NumIn(b) = x /\ TableWellFormed(b) /\ b.version \in 1 .. 4
  BY <1>1, EntriesBack
<1>4. /\ x \in Nat \ {0} /\ y \in Nat \ {0} /\ z = x + y
      /\ i.ins \in Seq(Block) /\ i.outs \in Seq(Block)
      /\ \A n \in 1 .. x : Io(i)[n] = i.ins[n]
      /\ \A n \in 1 .. y : Io(i)[x + n] = i.outs[n]
  BY Tensors
<1>5. /\ DOMAIN es = 1 .. z /\ es = [n \in 1 .. z |-> es[n]]
      /\ \A n \in 1 .. z : es[n].off = Io(i)[n].off /\ es[n].len = Io(i)[n].len
  BY DEF EntriesOf
<1>6. es \in Seq({es[n] : n \in 1 .. z}) /\ Len(es) = z
  <2> HIDE DEF es, x, y, z
  <2> QED BY <1>4, <1>5
<1>7. parse_header(b) = [version |-> b.version, knobs |-> KnobsOf(b),
                         inputs |-> ins, outputs |-> outs]
  <2>1. \A e \in ToSet(Entries(b)) : EntryInside(b, e)
    BY <1>1, EntriesInside
  <2> QED BY <1>3, <1>6, <2>1, Zenon DEF parse_header
<1>8. io(ins) = i.ins
  <2>1. ins = [n \in 1 .. x |-> es[n]]
    <3> HIDE DEF es, x, y, z
    <3>1. 1 \in 1 .. z + 1 /\ x \in 0 .. z /\ 1 <= x + 1
      BY <1>4
    <3> QED BY <1>4, <1>6, <3>1, SubSeqProperties
  <2>2. \A n \in 1 .. x : ins[n].off = i.ins[n].off /\ ins[n].len = i.ins[n].len
    <3>1. \A n \in 1 .. x : n \in 1 .. z
      <4> HIDE DEF x, y, z
      <4> QED BY <1>4
    <3> HIDE DEF es
    <3> QED BY <1>4, <1>5, <2>1, <3>1
  <2>3. i.ins = [n \in 1 .. x |-> i.ins[n]] /\ \A n \in 1 .. x : i.ins[n] \in Block
    BY <1>4
  <2>4. \A n \in 1 .. x : i.ins[n] = [off |-> i.ins[n].off, len |-> i.ins[n].len]
    BY <2>3 DEF Block
  <2>5. DOMAIN ins = 1 .. x
    BY <2>1
  <2> HIDE DEF ins, x
  <2>6. io(ins) = [n \in 1 .. x |-> [off |-> i.ins[n].off, len |-> i.ins[n].len]]
    BY <2>2, <2>5, Zenon
  <2>7. i.ins = [n \in 1 .. x |-> [off |-> i.ins[n].off, len |-> i.ins[n].len]]
    BY <2>3, <2>4, Zenon
  <2> QED BY <2>6, <2>7, Zenon
<1>9. io(outs) = i.outs
  <2>1. outs = [n \in 1 .. y |-> es[x + n]]
    <3> HIDE DEF es, x, y, z
    <3>1. x + 1 \in 1 .. z + 1 /\ z \in 0 .. z /\ x + 1 <= z + 1
      BY <1>4
    <3>2. outs \in Seq({es[n] : n \in 1 .. z}) /\ Len(outs) = y
          /\ \A n \in 1 .. y : outs[n] = es[x + n]
      <4>1. /\ Len(outs) = IF x + 1 <= z THEN z - (x + 1) + 1 ELSE 0
            /\ \A n \in 1 .. z - (x + 1) + 1 : outs[n] = es[(x + 1) + n - 1]
            /\ outs \in Seq({es[n] : n \in 1 .. z})
        BY <1>4, <1>6, <3>1, SubSeqProperties
      <4>2. x + 1 <= z /\ z - (x + 1) + 1 = y
        BY <1>4
      <4>3. \A n \in 1 .. y : (x + 1) + n - 1 = x + n
        BY <1>4
      <4> QED BY <4>1, <4>2, <4>3, Zenon
    <3> HIDE DEF outs
    <3> QED BY <3>2
  <2>2. \A n \in 1 .. y : outs[n].off = i.outs[n].off /\ outs[n].len = i.outs[n].len
    <3>1. \A n \in 1 .. y : x + n \in 1 .. z
      <4> HIDE DEF x, y, z
      <4> QED BY <1>4
    <3> TAKE n \in 1 .. y
    <3>2. outs[n] = es[x + n]
      <4> HIDE DEF outs, es
      <4> QED BY <2>1, Zenon
    <3>3. es[x + n].off = Io(i)[x + n].off /\ es[x + n].len = Io(i)[x + n].len
      BY <1>5, <3>1, Zenon
    <3>4. Io(i)[x + n] = i.outs[n]
      BY Tensors, Zenon
    <3> HIDE DEF outs, es, x
    <3> QED BY <3>2, <3>3, <3>4
  <2>3. i.outs = [n \in 1 .. y |-> i.outs[n]] /\ \A n \in 1 .. y : i.outs[n] \in Block
    BY <1>4
  <2>4. \A n \in 1 .. y : i.outs[n] = [off |-> i.outs[n].off, len |-> i.outs[n].len]
    BY <2>3 DEF Block
  <2>5. DOMAIN outs = 1 .. y
    BY <2>1
  <2> HIDE DEF outs, y
  <2>6. io(outs) = [n \in 1 .. y |-> [off |-> i.outs[n].off, len |-> i.outs[n].len]]
    BY <2>2, <2>5, Zenon
  <2>7. i.outs = [n \in 1 .. y |-> [off |-> i.outs[n].off, len |-> i.outs[n].len]]
    BY <2>3, <2>4, Zenon
  <2> QED BY <2>6, <2>7, Zenon
<1>10. LET h == parse_header(b) IN
       /\ h # Refused /\ h.knobs = knobs(a) /\ h.inputs = ins /\ h.outputs = outs
  <2> HIDE DEF ins, outs
  <2>1. /\ parse_header(b).version = b.version /\ parse_header(b).knobs = knobs(a)
        /\ parse_header(b).inputs = ins /\ parse_header(b).outputs = outs
    BY <1>2, <1>7
  <2>2. Refused.version = 0 /\ b.version # 0
    BY <1>3 DEF Refused
  <2> QED BY <2>1, <2>2, Zenon
<1> HIDE DEF ins, outs
<1> QED BY <1>8, <1>9, <1>10, Zenon DEF RoundTrip

\* No two sections share a byte, and each is aligned and inside the blob.
LEMMA LiesApart ==
  ASSUME NEW i, IsWorkload(i), NEW kw \in [Knob -> Int], ~PackRefused(i),
         NEW b, b = pack(i, kw)
  PROVE  SectionsApart(b)
<1> DEFINE z == Len(Io(i))
           at == DataOf(i, b)
           es == EntriesOf(i, b)
           hl == HeaderLen(i, b)
           data == [n \in DOMAIN es |-> [at |-> es[n].data, len |-> es[n].len]]
           head == <<[at |-> 0, len |-> hl], [at |-> b.cms_off, len |-> b.cms_len],
                     [at |-> b.const_off, len |-> b.const_len]>>
           s == Sections(b)
           Span == [at : Nat, len : Nat]
<1>1. z \in Nat /\ \A n \in 1 .. z : Io(i)[n].len \in Nat
  <2>1. \A n \in 1 .. z : Io(i)[n] \in Block
    BY Tensors, Zenon
  <2>2. \A n \in 1 .. z : Io(i)[n].len \in Nat
    BY <2>1 DEF Block
  <2>3. z \in Nat
    BY Tensors
  <2> QED BY <2>2, <2>3, Zenon
<1>2. /\ hl \in Nat /\ hl % 16 = 0 /\ b.cms_off = hl
      /\ b.cms_len = i.cms_len /\ b.const_len = i.const_len
      /\ i.cms_len \in Nat /\ i.const_len \in Nat
      /\ b.const_off \in Nat /\ b.const_off % 16 = 0
      /\ b.cms_off + b.cms_len <= b.const_off
      /\ b.const_off + b.const_len <= at[0]
      /\ b.total_len = at[z]
  <2>1. b.cms_off = hl /\ b.cms_len = i.cms_len /\ b.const_len = i.const_len /\ b.total_len = at[z]
    BY Packed
  <2>2. i.cms_len \in Nat /\ i.const_len \in Nat
    BY DEF IsWorkload
  <2>3. /\ hl \in Nat /\ hl % 16 = 0
        /\ b.const_off \in Nat /\ b.const_off % 16 = 0
        /\ b.cms_off + i.cms_len <= b.const_off
        /\ b.const_off + i.const_len <= at[0]
    BY Offsets, Zenon
  <2> QED BY <2>1, <2>2, <2>3, Zenon
<1>3. /\ \A n \in 0 .. z : at[n] \in Nat /\ at[n] % 16 = 0
      /\ \A n \in 1 .. z : at[n - 1] + Io(i)[n].len <= at[n]
      /\ \A m, n \in 0 .. z : m <= n => at[m] <= at[n]
  BY Offsets, Zenon
<1>4. data = [n \in 1 .. z |-> [at |-> at[n - 1], len |-> Io(i)[n].len]]
  <2>1. DOMAIN es = 1 .. z
    BY DEF EntriesOf
  <2>2. \A n \in 1 .. z : es[n].data = at[n - 1] /\ es[n].len = Io(i)[n].len
    BY DEF EntriesOf
  <2> HIDE DEF es, at
  <2> QED BY <2>1, <2>2, Zenon
<1>5. s = head \o data
  <2>1. Entries(b) = es /\ b.version \in 1 .. 4
    BY EntriesBack
  <2>2. hl = HEADER_BYTES + 4 * Len(b.words) + IF b.version = 4 THEN IO_BYTES ELSE 0
    <3>1. b.words = KnobWords(kw, b) /\ (b.version = 4 <=> z > 2)
      BY Packed
    <3>2. Words(b) \in Nat
      <4>1. b.version \in {1, 2, 3, 4}
        BY <2>1
      <4> QED BY <4>1 DEF Words
    <3>3. Len(b.words) = Words(b)
      BY <3>1, <3>2 DEF KnobWords
    <3> QED BY <3>1, <3>3, Zenon DEF HeaderLen
  <2> HIDE DEF es, hl
  <2> QED BY <2>1, <2>2, Zenon DEF Sections
<1> HIDE DEF es
<1>6. /\ s \in Seq(Span) /\ DOMAIN s = 1 .. z + 3
      /\ s[1] = [at |-> 0, len |-> hl] /\ s[2] = [at |-> hl, len |-> b.cms_len]
      /\ s[3] = [at |-> b.const_off, len |-> b.const_len]
      /\ \A n \in 1 .. z : s[n + 3] = [at |-> at[n - 1], len |-> Io(i)[n].len]
  <2>1. head \in Seq(Span) /\ Len(head) = 3
    BY <1>2
  <2>2. data \in Seq(Span) /\ Len(data) = z
        /\ \A n \in 1 .. z : data[n] = [at |-> at[n - 1], len |-> Io(i)[n].len]
    <3>1. \A n \in 1 .. z : [at |-> at[n - 1], len |-> Io(i)[n].len] \in Span
      <4>1. \A n \in 1 .. z : n - 1 \in 0 .. z
        <5> HIDE DEF z
        <5> QED BY <1>1
      <4>2. \A p, q \in Nat : [at |-> p, len |-> q] \in Span
        OBVIOUS
      <4> QED BY <1>1, <1>3, <4>1, <4>2, Zenon
    <3>2. data \in [1 .. z -> Span]
      <4> HIDE DEF Span, z, at
      <4> QED BY <1>4, <3>1
    <3>3. \A n \in 1 .. z : data[n] = [at |-> at[n - 1], len |-> Io(i)[n].len]
      <4> HIDE DEF Span, z, at
      <4> QED BY <1>4, Zenon
    <3> HIDE DEF data, Span, z, at
    <3>4. data \in Seq(Span) /\ Len(data) = z
      BY <1>1, <3>2
    <3> QED BY <3>3, <3>4, Zenon
  <2>3. head[1] = [at |-> 0, len |-> hl] /\ head[2] = [at |-> hl, len |-> b.cms_len]
        /\ head[3] = [at |-> b.const_off, len |-> b.const_len]
    BY <1>2
  <2> HIDE DEF head, data, Span, s, z
  <2>4. /\ s \in Seq(Span) /\ Len(s) = 3 + z
        /\ \A n \in 1 .. 3 + z : s[n] = IF n <= 3 THEN head[n] ELSE data[n - 3]
    <3>1. head \o data \in Seq(Span) /\ Len(head \o data) = Len(head) + Len(data)
          /\ \A n \in 1 .. Len(head) + Len(data) :
               (head \o data)[n] = IF n <= Len(head) THEN head[n] ELSE data[n - Len(head)]
      <4>1. head \in Seq(Span) /\ data \in Seq(Span)
        BY <2>1, <2>2
      <4> QED BY <4>1, ConcatProperties
    <3> QED BY <1>5, <2>1, <2>2, <3>1, Zenon
  <2>5. DOMAIN s = 1 .. z + 3
    BY <1>1, <2>4
  <2>6. s[1] = head[1] /\ s[2] = head[2] /\ s[3] = head[3]
    BY <1>1, <2>4
  <2>7. ASSUME NEW n \in 1 .. z PROVE s[n + 3] = data[n]
    <3>1. n + 3 \in 1 .. 3 + z /\ ~(n + 3 <= 3) /\ (n + 3) - 3 = n
      BY <1>1
    <3> QED BY <2>4, <3>1, Zenon
  <2> QED BY <2>2, <2>3, <2>4, <2>5, <2>6, <2>7, Zenon
<1> HIDE DEF s, at, hl
\* Where each section starts and ends; the n-th one ends before the next begins.
<1>7. /\ at[0] \in Nat /\ at[z] \in Nat /\ at[0] <= at[z]
  <2>1. 0 \in 0 .. z /\ z \in 0 .. z /\ 0 <= z
    <3> HIDE DEF z
    <3> QED BY <1>1
  <2> QED BY <1>3, <2>1, Zenon
<1>11. ASSUME NEW n \in 1 .. z
       PROVE  s[n + 3].at = at[n - 1] /\ s[n + 3].len = Io(i)[n].len
  <2>1. s[n + 3] = [at |-> at[n - 1], len |-> Io(i)[n].len]
    BY <1>6, Zenon
  <2> HIDE DEF z
  <2> QED BY <2>1
<1>8. \A n \in 1 .. z + 3 :
        /\ s[n].at \in Nat /\ s[n].len \in Nat /\ s[n].at % 16 = 0
        /\ s[n].at + s[n].len <= at[z]
  <2>1. s[1].at \in Nat /\ s[1].len \in Nat /\ s[1].at % 16 = 0 /\ s[1].at + s[1].len <= at[z]
    <3>1. s[1].at = 0 /\ s[1].len = hl
      <4> HIDE DEF z
      <4> QED BY <1>6
    <3>4. hl + b.cms_len <= b.const_off
      BY <1>2, Zenon
    <3>3. 0 + hl = hl /\ hl <= at[z]
      <4>1. \A p, q, r, k, e, d \in Nat :
              p + q <= r /\ r + k <= d /\ d <= e => 0 + p = p /\ p <= e
        OBVIOUS
      <4> QED BY <1>2, <1>7, <3>4, <4>1, Zenon
    <3>2. 0 \in Nat /\ 0 % 16 = 0
      OBVIOUS
    <3> QED BY <1>2, <3>1, <3>2, <3>3, Zenon
  <2>2. s[2].at \in Nat /\ s[2].len \in Nat /\ s[2].at % 16 = 0 /\ s[2].at + s[2].len <= at[z]
    <3> HIDE DEF z
    <3> QED BY <1>2, <1>6, <1>7, SMTT(30)
  <2>3. s[3].at \in Nat /\ s[3].len \in Nat /\ s[3].at % 16 = 0 /\ s[3].at + s[3].len <= at[z]
    <3> HIDE DEF z
    <3> QED BY <1>2, <1>6, <1>7
  <2>4. ASSUME NEW n \in 1 .. z
        PROVE  /\ s[n + 3].at \in Nat /\ s[n + 3].len \in Nat /\ s[n + 3].at % 16 = 0
               /\ s[n + 3].at + s[n + 3].len <= at[z]
    <3>1. s[n + 3].at = at[n - 1] /\ s[n + 3].len = Io(i)[n].len
      BY <1>11
    <3>2. n - 1 \in 0 .. z /\ n \in 0 .. z /\ z \in 0 .. z /\ n <= z
      <4> HIDE DEF z
      <4> QED BY <1>1
    <3>3. /\ at[n - 1] \in Nat /\ at[n - 1] % 16 = 0 /\ at[n] \in Nat /\ at[n] <= at[z]
          /\ at[n - 1] + Io(i)[n].len <= at[n]
      BY <1>3, <3>2, Zenon
    <3>4. \A p, q, r, w \in Nat : p + q <= r /\ r <= w => p + q <= w
      OBVIOUS
    <3> QED BY <1>1, <1>7, <3>1, <3>3, <3>4, Zenon
  <2>5. \A n \in 1 .. z + 3 : n = 1 \/ n = 2 \/ n = 3 \/ (n - 3 \in 1 .. z /\ n = (n - 3) + 3)
    <3> HIDE DEF z
    <3> QED BY <1>1
  <2> QED BY <2>1, <2>2, <2>3, <2>4, <2>5, Zenon
<1>9. ASSUME NEW m \in 1 .. z + 3, NEW n \in 1 .. z + 3, m < n
      PROVE  s[m].at + s[m].len <= s[n].at
  <2>1. CASE n <= 3
    <3>1. (m = 1 /\ n = 2) \/ (m = 1 /\ n = 3) \/ (m = 2 /\ n = 3)
      <4> HIDE DEF z
      <4> QED BY <1>9, <2>1
    <3>2. 0 + hl = hl /\ hl + b.cms_len <= b.const_off /\ 0 + hl <= b.const_off
      <4> HIDE DEF z
      <4> QED BY <1>2
    <3>3. /\ s[1].at = 0 /\ s[1].len = hl /\ s[2].at = hl /\ s[2].len = b.cms_len
          /\ s[3].at = b.const_off
      <4> HIDE DEF z
      <4> QED BY <1>6
    <3>4. 0 + hl <= hl
      <4> HIDE DEF z
      <4> QED BY <1>2
    <3> QED BY <3>1, <3>2, <3>3, <3>4, Zenon
  <2>2. CASE ~(n <= 3)
    <3> DEFINE k == n - 3
    <3>1. k \in 1 .. z /\ n = k + 3 /\ k - 1 \in 0 .. z
      <4> HIDE DEF z
      <4> QED BY <1>1, <2>2
    <3> HIDE DEF k
    <3>2. s[n].at = at[k - 1]
      BY <1>11, <3>1, Zenon
    <3>3. at[k - 1] \in Nat /\ at[0] <= at[k - 1]
      <4>1. 0 \in 0 .. z /\ 0 <= k - 1
        <5> HIDE DEF z
        <5> QED BY <1>1, <3>1
      <4> QED BY <1>3, <3>1, <4>1, Zenon
    <3>4. CASE m <= 3
      <4>1. m = 1 \/ m = 2 \/ m = 3
        <5> HIDE DEF z
        <5> QED BY <3>4
      <4>2. s[m].at + s[m].len <= at[0]
        <5>1. 0 + hl <= at[0] /\ hl + b.cms_len <= at[0] /\ b.const_off + b.const_len <= at[0]
          <6> HIDE DEF z
          <6> QED BY <1>2, <1>7
        <5>2. /\ s[1].at = 0 /\ s[1].len = hl /\ s[2].at = hl /\ s[2].len = b.cms_len
              /\ s[3].at = b.const_off /\ s[3].len = b.const_len
          <6> HIDE DEF z
          <6> QED BY <1>6
        <5> QED BY <4>1, <5>1, <5>2, Zenon
      <4>3. s[m].at \in Nat /\ s[m].len \in Nat
        BY <1>8
      <4>4. \A p, q, r, w \in Nat : p + q <= r /\ r <= w => p + q <= w
        OBVIOUS
      <4> QED BY <1>7, <3>2, <3>3, <4>2, <4>3, <4>4, Zenon
    <3>5. CASE ~(m <= 3)
      <4> DEFINE j == m - 3
      <4>1. j \in 1 .. z /\ m = j + 3 /\ j <= k - 1 /\ j - 1 \in 0 .. z /\ j \in 0 .. z
        <5> HIDE DEF z
        <5> QED BY <1>1, <1>9, <3>1, <3>5
      <4> HIDE DEF j
      <4>2. s[m].at = at[j - 1] /\ s[m].len = Io(i)[j].len
        BY <1>11, <4>1, Zenon
      <4>3. at[j - 1] + Io(i)[j].len <= at[j] /\ at[j] <= at[k - 1] /\ at[j] \in Nat /\ at[j - 1] \in Nat
        BY <1>3, <3>1, <4>1, Zenon
      <4>4. \A p, q, r, w \in Nat : p + q <= r /\ r <= w => p + q <= w
        OBVIOUS
      <4> QED BY <1>1, <3>2, <3>3, <4>1, <4>2, <4>3, <4>4, Zenon
    <3> QED BY <3>4, <3>5
  <2> QED BY <2>1, <2>2
<1>10. ASSUME NEW n \in DOMAIN s
       PROVE  /\ s[n].at % 16 = 0 /\ s[n].at + s[n].len <= b.total_len
              /\ \A m \in DOMAIN s : n = m \/ Apart(s[n], s[m])
  <2>1. n \in 1 .. z + 3
    BY <1>6
  <2>2. ASSUME NEW m \in DOMAIN s PROVE n = m \/ Apart(s[n], s[m])
    <3>1. m \in 1 .. z + 3
      BY <1>6
    <3>2. n = m \/ n < m \/ m < n
      <4> HIDE DEF z
      <4> QED BY <1>1, <2>1, <3>1
    <3> QED BY <1>9, <2>1, <3>1, <3>2, Zenon DEF Apart
  <2> QED BY <1>2, <1>8, <2>1, <2>2, Zenon
<1> QED BY <1>10, Zenon DEF SectionsApart, s

\* The loader does with the blob what its knobs asked for.
LEMMA Honoured ==
  ASSUME NEW i, IsWorkload(i), NEW a, IsKnobArgs(a), ~KnobsRefused(a), ~PackRefused(i),
         NEW b, b = pack(i, knobs(a))
  PROVE  PortsHonoured(a, b)
<1> DEFINE k == knobs(a)
           z == Len(Io(i))
<1>1. k \in [Knob -> Int] /\ k["fast_base"] = a.fast_base /\ k["ta_profile"] = a.ta_profile
  BY KnobsAre
<1>2. KnobsOf(b) = k
  BY <1>1, KnobsBack
<1>3. \A r \in Regions : RegionExt(b, r) <=> PortOf(a, r) # "sram"
  BY <1>2, PortsAre
<1>4. /\ b.version \in 1 .. 4 /\ TableWellFormed(b)
      /\ \A e \in ToSet(Entries(b)) : EntryInside(b, e)
  BY <1>1, EntriesBack, EntriesInside
<1>5. b.fast_size \in Nat /\ b.arena_size \in Nat /\ b.total_len \in Nat
  <2>1. b.fast_size = i.fast_size /\ b.arena_size = i.arena_size /\ b.total_len = DataOf(i, b)[z]
    BY <1>1, Packed
  <2>2. z \in 0 .. z
    <3>1. z \in Nat
      BY Tensors
    <3> HIDE DEF z
    <3> QED BY <3>1
  <2>3. DataOf(i, b)[z] \in Nat
    BY <1>1, <2>2, Offsets, Zenon
  <2> QED BY <2>1, <2>3 DEF IsWorkload
<1>6. \/ LoaderAccepts(b)
      \/ a.fast_base # OFF /\ (a.fast_base < StackTop \/ a.fast_base + b.fast_size > SramEnd)
  <2> DEFINE f == a.fast_base
  <2> SUFFICES ASSUME f = OFF \/ (~(f < StackTop) /\ ~(f + b.fast_size > SramEnd))
               PROVE  LoaderAccepts(b)
    BY Zenon
  <2>1. k["ta_profile"] # OFF => k["ta_profile"] \in TaProfiles
    BY <1>1, Zenon DEF KnobsRefused
  <2>2. ASSUME f # OFF
        PROVE  /\ ~RegionExt(b, "fast") /\ f % 256 = 0
               /\ f \in StackTop .. SramEnd /\ b.fast_size <= SramEnd - f
    <3>1. f % 256 = 0 /\ f \in 0 .. SramEnd - 1 /\ PortOf(a, "fast") = "sram"
      BY <2>2, Zenon DEF KnobsRefused
    <3>2. ~RegionExt(b, "fast")
      BY <1>3, <3>1 DEF Regions
    <3>3. ~(f < StackTop) /\ ~(f + b.fast_size > SramEnd)
      BY <2>2
    <3>4. \A e, l \in Nat : \A s \in 0 .. e, g \in 0 .. e - 1 :
            ~(g < s) /\ ~(g + l > e) => g \in s .. e /\ l <= e - g
      OBVIOUS
    <3> HIDE DEF f
    <3> QED BY <1>5, <3>1, <3>2, <3>3, <3>4, BlobAssumption, Zenon
  <2> HIDE DEF k
  <2> QED BY <1>1, <1>2, <1>4, <2>1, <2>2, Zenon DEF LoaderAccepts
<1>7. LET p == Placed(b) IN
       \A r, q \in DOMAIN p :
         /\ p[r].at >= b.total_len
         /\ r = q \/ Apart(p[r], p[q])
  <2> DEFINE near == al256(b.total_len)
             far == near + (IF RegionExt(b, "arena") THEN 0 ELSE al256(b.arena_size))
             p == Placed(b)
  <2>1. /\ near \in Nat /\ near >= b.total_len
        /\ al256(b.arena_size) \in Nat /\ al256(b.arena_size) >= b.arena_size
    BY <1>5, Aligned, Zenon
  <2>2. /\ DOMAIN p \subseteq {"arena", "fast"} /\ \A r \in DOMAIN p : ~RegionExt(b, r)
        /\ \A r \in DOMAIN p :
             p[r] = IF r = "arena" THEN [at |-> near, len |-> b.arena_size]
                    ELSE [at |-> far, len |-> b.fast_size]
    BY DEF Placed
  <2>3. "arena" \in DOMAIN p => p["arena"].at = near /\ p["arena"].len = b.arena_size
    <3> HIDE DEF p, near, far
    <3> QED BY <2>2
  <2>4. "fast" \in DOMAIN p => p["fast"].at = far /\ p["fast"].len = b.fast_size
    <3> HIDE DEF p, near, far
    <3> QED BY <2>2
  <2>5. far \in Nat /\ far >= b.total_len
    <3>1. \A m, t, g \in Nat : m >= t => m + g \in Nat /\ m + g >= t /\ m + 0 \in Nat /\ m + 0 >= t
      OBVIOUS
    <3>2. CASE RegionExt(b, "arena")
      <4>1. far = near + 0
        BY <3>2, Zenon
      <4> HIDE DEF near, far
      <4> QED BY <1>5, <2>1, <3>1, <4>1, Zenon
    <3>3. CASE ~RegionExt(b, "arena")
      <4>1. far = near + al256(b.arena_size)
        BY <3>3, Zenon
      <4> HIDE DEF near, far
      <4> QED BY <1>5, <2>1, <3>1, <4>1, Zenon
    <3> QED BY <3>2, <3>3
  <2>6. "arena" \in DOMAIN p => near + b.arena_size <= far
    <3>1. \A m, s, g \in Nat : g >= s => m + s <= m + g
      OBVIOUS
    <3>2. "arena" \in DOMAIN p => far = near + al256(b.arena_size)
      BY <2>2, Zenon
    <3> HIDE DEF near, far, p
    <3> QED BY <1>5, <2>1, <3>1, <3>2, Zenon
  <2>7. ASSUME NEW r \in DOMAIN p, NEW q \in DOMAIN p
        PROVE  p[r].at >= b.total_len /\ (r = q \/ Apart(p[r], p[q]))
    <3> HIDE DEF p, near, far
    <3>1. r \in {"arena", "fast"} /\ q \in {"arena", "fast"}
      BY <2>2
    <3>2. p[r].at >= b.total_len
      BY <2>1, <2>3, <2>4, <2>5, <3>1, Zenon
    <3>3. r = q \/ (r = "arena" /\ q = "fast") \/ (r = "fast" /\ q = "arena")
      BY <3>1
    <3>4. r = q \/ Apart(p[r], p[q])
      BY <2>3, <2>4, <2>6, <3>3, Zenon DEF Apart
    <3> QED BY <3>2, <3>4
  <2> QED BY <2>7, Zenon
<1> QED BY <1>3, <1>6, <1>7, Zenon DEF PortsHonoured

-----------------------------------------------------------------------------
\* A question is one of those asked, and what answers a call of the packer is what
\* the packer makes of it.
PackAnswer ==
  question.kind = "pack" =>
    /\ question.of \in Packings
    /\ answer \in {NoAnswer, PackVela(question.of.profs, question.of.flags, question.of.info)}

LEMMA PackAnswered == Spec => []PackAnswer
<1>1. Init => PackAnswer
  BY DEF Init, PackAnswer, Questions
<1>2. PackAnswer /\ [Next]_vars => PackAnswer'
  <2> SUFFICES ASSUME PackAnswer, [Next]_vars, question.kind = "pack"
               PROVE  /\ question' = question
                      /\ answer' \in {answer, PackVela(question.of.profs, question.of.flags, question.of.info)}
    <3> USE DEF PackAnswer
    <3>1. CASE question.kind = "pack"
      BY <3>1, Zenon
    <3>2. CASE question.kind # "pack"
      BY <3>2 DEF Next, Decide, Gate, vars
    <3> QED BY <3>1, <3>2
  <2>1. CASE Decide
    BY <2>1 DEF Decide, Pack, Record, Judge, Route
  <2>2. CASE Gate
    BY <2>2 DEF Gate
  <2>3. CASE UNCHANGED vars
    BY <2>3 DEF vars
  <2> QED BY <2>1, <2>2, <2>3 DEF Next
<1> QED BY <1>1, <1>2, PTL DEF Spec

\* A blob that answers was packed from a workload the packer accepts, with the
\* knobs that were asked for, none of them refused.
LEMMA PackedFrom ==
  ASSUME PackAnswer, Answered("pack"), answer # Refused
  PROVE  LET i == question.of.info
             a == Kargs(question.of)
         IN /\ IsWorkload(i) /\ IsKnobArgs(a) /\ ~KnobsRefused(a) /\ ~PackRefused(i)
            /\ answer = pack(i, knobs(a))
<1> DEFINE q == question.of
           i == q.info
           a == Kargs(q)
<1>1. q \in Packings /\ answer = PackVela(q.profs, q.flags, i)
  BY Zenon DEF PackAnswer, Answered
<1>2. IsWorkload(i) /\ IsKnobArgs(q.flags) /\ \A p \in q.profs : IsKnobArgs(knob_args(p))
  BY <1>1, DecisionsAssumption, Zenon
<1>3. IsKnobArgs(a)
  <2>1. CASE q.profs = {}
    BY <1>2, <2>1, Zenon DEF Kargs
  <2>2. CASE q.profs # {}
    <3>1. (CHOOSE p \in q.profs : TRUE) \in q.profs
      BY <2>2, Zenon
    <3> QED BY <1>2, <2>2, <3>1, Zenon DEF Kargs
  <2> QED BY <2>1, <2>2
<1>4. ~KnobsRefused(a) /\ answer = pack(i, knobs(a))
  BY <1>1, Zenon DEF PackVela, Kargs
<1>5. ~PackRefused(i)
  BY <1>4, Zenon DEF pack
<1> QED BY <1>2, <1>3, <1>4, <1>5, Zenon

\* BlobReadsBack: for every workload and every knobs that are not refused, the
\* header parser of the host gives back the knobs and tensors that were packed.
THEOREM BlobAlwaysReadsBack == Spec => []BlobReadsBack
<1>1. PackAnswer => BlobReadsBack
  BY PackedFrom, ReadsBack, Zenon DEF BlobReadsBack
<1> QED BY <1>1, PackAnswered, PTL

\* BlobSectionsApart: no two sections of a packed blob overlap, for any lengths and
\* any number of tensors; each is aligned and inside the blob.
THEOREM BlobSectionsNeverOverlap == Spec => []BlobSectionsApart
<1>1. PackAnswer => BlobSectionsApart
  <2> SUFFICES ASSUME PackAnswer, Answered("pack"), answer # Refused PROVE SectionsApart(answer)
    BY Zenon DEF BlobSectionsApart
  <2>1. knobs(Kargs(question.of)) \in [Knob -> Int]
    BY PackedFrom, KnobsAre, Zenon
  <2> QED BY <2>1, PackedFrom, LiesApart, Zenon
<1> QED BY <1>1, PackAnswered, PTL

\* LoaderHonoursBlob: the loader sends each region where the knobs asked, refuses a
\* packed blob only for a fast scratch that does not fit, and places the arena and
\* the fast scratch behind the blob and apart.
THEOREM LoaderAlwaysHonoursBlob == Spec => []LoaderHonoursBlob
<1>1. PackAnswer => LoaderHonoursBlob
  BY PackedFrom, Honoured, Zenon DEF LoaderHonoursBlob
<1> QED BY <1>1, PackAnswered, PTL
=============================================================================
