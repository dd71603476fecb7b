------------------------------ MODULE ElfGates ------------------------------
(***************************************************************************)
(* The build-time gates over a linked image (check_measure_symbols.py): no *)
(* logging function is reachable from the measured path, .sec_noinit may   *)
(* be poisoned, no injection marker and no test-only command handler is in *)
(* a normal image.  An image is what objdump, nm and the linker's map tell *)
(* of it:                                                                  *)
(*   defined   functions with a disassembly                                *)
(*   calls     pairs <<f, t>> where an instruction of f is annotated <t>   *)
(*   blx       functions with a bl or blx through a register               *)
(*   symbols   names nm lists                                              *)
(*   noinit    what the map says of .sec_noinit                            *)
(***************************************************************************)
EXTENDS Naturals, FiniteSets

CONSTANTS
  Names,          \* names of functions and markers
  Denied,         \* names is_denied refuses
  MeasuredRoots, DispatchRoots, KnownIndirect,
  TestHooks,      \* test-only command handlers
  Markers,        \* names with the prefix runner_inject_
  NpuEntry,       \* NPU_ENTRY_SYMBOL
  AllowedObjects, \* SEC_NOINIT_ALLOWED_OBJECTS
  Elfs            \* the images examined

ASSUME ElfAssumption ==
  /\ MeasuredRoots \subseteq Names /\ DispatchRoots \subseteq Names
  /\ \A e \in Elfs : /\ e.defined \subseteq Names
                     /\ e.calls \subseteq e.defined \X Names

VARIABLES
  elf,
  phase,    \* "measured", "dispatch", then "done"
  seen,     \* reachable(): names found so far
  queue,    \* reachable(): names found whose calls are not looked at yet
  measured  \* the result of reachable() from the measured roots

elfVars == <<elf, phase, seen, queue, measured>>

-----------------------------------------------------------------------------
\* Mutant: a root that is missing from the image is passed over.
Missing_Ignored(roots) == {}

Missing(roots) == roots \ elf.defined

\* The search starts from the roots the image has.
Enqueue(roots) ==
  /\ seen'  = roots \cap elf.defined
  /\ queue' = roots \cap elf.defined

ElfInit ==
  /\ elf \in Elfs
  /\ phase = "measured"
  /\ seen  = MeasuredRoots \cap elf.defined
  /\ queue = MeasuredRoots \cap elf.defined
  /\ measured = {}

\* Mutant: calls of functions that are found, but are no roots, are not followed.
Follow_RootsOnly(new) == {}

Follow(new) == new

\* One turn of reachable()'s loop.  A target without a disassembly is found too.
Visit ==
  \E f \in queue :
    LET new == {t \in Names : <<f, t>> \in elf.calls} \ seen IN
      /\ seen'  = seen \cup new
      /\ queue' = (queue \ {f}) \cup Follow(new)
      /\ UNCHANGED <<elf, phase, measured>>

MeasuredDone ==
  /\ phase = "measured" /\ queue = {}
  /\ phase' = "dispatch"
  /\ measured' = seen
  /\ Enqueue(DispatchRoots)
  /\ UNCHANGED elf

DispatchDone ==
  /\ phase = "dispatch" /\ queue = {}
  /\ phase' = "done"
  /\ UNCHANGED <<elf, seen, queue, measured>>

ElfNext == Visit \/ MeasuredDone \/ DispatchDone
ElfSpec == ElfInit /\ [][ElfNext]_elfVars

-----------------------------------------------------------------------------
(* The verdicts, once both searches are over: seen is then what dispatch   *)
(* reaches.                                                                *)

\* Sites the regular expression INDIRECT finds: bl and blx, not bx.
Reported == measured \cap elf.blx

Verdict ==
  IF Missing(MeasuredRoots) # {} THEN "NO_ROOT"
  ELSE IF measured \cap Denied # {} THEN "FAIL"
  ELSE IF Reported \subseteq KnownIndirect THEN "PASS" ELSE "INCOMPLETE"

denylist_verdict(args) ==
  CASE Verdict = "NO_ROOT" -> 2
    [] Verdict = "FAIL"    -> IF args.advisory THEN 0 ELSE 1
    [] OTHER               -> 0

\* Objects that contributed nothing are only noted.
check_sec_noinit ==
  /\ elf.noinit.found
  /\ ~elf.noinit.moved
  /\ elf.noinit.objects \subseteq AllowedObjects

check_injections(args) ==
  LET marked == elf.symbols \cap Markers # {}
      npu    == NpuEntry \in measured
  IN  CASE args.expect_hooks                       -> marked /\ npu
        [] ~args.expect_hooks /\ args.expect_skip  -> marked /\ ~npu
        [] ~args.expect_hooks /\ ~args.expect_skip -> ~marked /\ npu

check_test_hooks(args) ==
  /\ Missing(DispatchRoots) = {}
  /\ IF args.expect_hooks
       THEN elf.symbols \cap TestHooks # {} /\ seen \cap TestHooks # {}
       ELSE elf.symbols \cap TestHooks = {} /\ seen \cap TestHooks = {}

Args == [advisory: BOOLEAN, expect_skip: BOOLEAN, expect_hooks: BOOLEAN]

\* Mutant: --advisory excuses every gate.
ExitCode_AdvisoryFirst(args) ==
  IF args.advisory THEN denylist_verdict(args)
  ELSE IF check_sec_noinit /\ check_injections(args) /\ check_test_hooks(args)
       THEN denylist_verdict(args) ELSE 1

ExitCode(args) ==
  IF check_sec_noinit /\ check_injections(args) /\ check_test_hooks(args)
    THEN denylist_verdict(args) ELSE 1

-----------------------------------------------------------------------------
(* What reachability means, without the search: the names in every set that *)
(* holds the roots and is closed under calls.                              *)
Closed(S) == \A f, t \in Names : f \in S /\ <<f, t>> \in elf.calls => t \in S
Reach(roots) ==
  {n \in Names : \A S \in SUBSET Names : roots \subseteq S /\ Closed(S) => n \in S}

\* A build that passes, and is not excused, has its measured roots and no chain
\* of direct calls from one of them to a logging function; in a normal build none
\* leads from the dispatcher to a test-only handler, and one leads to the NPU.
CleanMeansSilent ==
  phase = "done" =>
    \A args \in Args : ExitCode(args) = 0 /\ ~args.advisory =>
      /\ MeasuredRoots \subseteq elf.defined
      /\ Reach(MeasuredRoots) \cap Denied = {}
      /\ ~args.expect_hooks => Reach(DispatchRoots) \cap TestHooks = {}
      /\ ~args.expect_hooks /\ ~args.expect_skip => NpuEntry \in Reach(MeasuredRoots)

\* --advisory lets through only an image that fails for its logging calls and
\* passes every other gate (the docstring: "--advisory excuses gate 1 only").
AdvisoryExcusesOneGate ==
  phase = "done" =>
    \A args \in Args :
      LET strict == [args EXCEPT !.advisory = FALSE] IN
        ExitCode(args) = 0 /\ ExitCode(strict) # 0 =>
          /\ Reach(MeasuredRoots) \cap Denied # {}
          /\ check_sec_noinit /\ check_injections(strict) /\ check_test_hooks(strict)
=============================================================================
