---------------------------- MODULE MeasureWindow ----------------------------
(***************************************************************************)
(* The NPU's performance counters in one measured run: programming them    *)
(* before the inference (measure.c), reading them at the seam in the       *)
(* driver's printf (io_wrap.c, npu_pmu.c), the record (measure.c), and     *)
(* what the host then counts as a measurement (pmu_events_parse.py).       *)
(*                                                                         *)
(* The counters run on the NPU's clock beside the thread, between any two  *)
(* of its register accesses.  Slot 0 is the cycle counter, in two halves;  *)
(* slots 1, 2, ... count the event their type register selects.            *)
(***************************************************************************)
EXTENDS Integers, Sequences

CONSTANTS
  Slots,      \* pmu_effective_event_slots()
  Codes,      \* event codes
  ClockCodes, \* those that count without a job: cycles, idle cycles
  Configs,    \* [mode, codes]: what a host configures
  LoWrap,     \* 2^32, the low half of the cycle counter
  HiWrap,     \* 2^16, the high half
  EvWrap,     \* 2^32, an event counter
  READ_TRIES, \* NPU_PMU_CYCLE_READ_TRIES
  MaxRuns,    \* bound on runs
  MaxTicks    \* bound on clock ticks in a run

Slot == 1 .. Slots
Modes == {"OFF", "END_ONLY", "EVENTS"}

ASSUME WindowAssumption ==
  /\ {LoWrap, HiWrap, EvWrap, READ_TRIES} \subseteq Nat \ {0}
  /\ {Slots, MaxRuns, MaxTicks} \subseteq Nat
  /\ ClockCodes \subseteq Codes
  /\ Configs \subseteq [mode : Modes, codes : UNION {[1 .. n -> Codes] : n \in 0 .. Slots}]

VARIABLES
  power,    \* CMD holds the clock and power requests
  engaged,  \* the counters were reset under that power
  cnt_en,   \* PMCR.cnt_en
  cnten,    \* PMCNTENSET
  evtyper,  \* PMEVTYPER, the code each slot counts
  hi, lo,   \* PMCCNTR
  evcnt,    \* PMEVCNTR
  ovs,      \* PMOVSSET
  npu,      \* "idle" or "busy"
  npu_irq,  \* irq_triggered: a job has ended since the last wait
  qread,    \* QREAD equals the length of the command stream
  pc,       \* where handle_run is
  slot,     \* the slot of a loop over slots, or the try of a read
  instr_cfg,\* the configuration of this run
  armed,    \* the read-backs of PMCNTENSET and PMCR
  verified,
  hi1, lo1, \* npu_pmu_read_cycles' locals
  seam,     \* the seam variables
  rc,       \* [queue, gave_up, vendor, run]: return codes
  record,   \* what RUN_COMPLETE carries, until the next command
  runs, ticks,
  cycles, own, prior, busy, abandoned \* history, see below

pmuVars == <<power, engaged, cnt_en, cnten, evtyper, hi, lo, evcnt, ovs>>
npuVars == <<npu, npu_irq, qread>>
runVars == <<slot, instr_cfg, armed, verified, hi1, lo1, seam, rc, record, runs>>
history == <<ticks, cycles, own, prior, busy, abandoned>>
vars == <<pmuVars, npuVars, pc, runVars, history>>

(* History: cycles counted since the counters were reset, and how many when  *)
(* the low half was read (seam.seen); the events of each slot's own code     *)
(* since the slots were armed, and what the slot was set to count then       *)
(* (own, prior); whether a job was still at work when the seam was reached   *)
(* (busy); whether a wait was ever given up (abandoned).                     *)

NoCode == "none"
Zeros == [s \in Slot |-> 0]
NoSeam == [fired |-> 0, hi |-> 0, lo |-> 0, stable |-> FALSE, ovf |-> {}, ev |-> Zeros,
           ended |-> FALSE, seen |-> 0, own |-> Zeros]
NoRc == [queue |-> 0, gave_up |-> FALSE, vendor |-> -1, run |-> 0]
NoRecord == [mode |-> "OFF", codes |-> <<>>, rc |-> NoRc, seam |-> NoSeam, busy |-> FALSE,
             prior |-> [s \in Slot |-> NoCode], late |-> FALSE, cycle_valid |-> FALSE,
             hi |-> 0, lo |-> 0, applied |-> 0, valid |-> {}, fired |-> 0]

RC_REFUSED == 126
RC_KNOB    == 125

Events == instr_cfg.mode = "EVENTS"
Used   == DOMAIN instr_cfg.codes

-----------------------------------------------------------------------------
(* The device.                                                             *)
Counting(s) == power /\ engaged /\ cnt_en /\ s \in cnten

Happens(c, work) == c \in ClockCodes \/ (work /\ c \in Codes)

\* One tick of the NPU's clock that some counter counts; work: the job at work
\* causes its events.
Tick ==
  /\ ticks < MaxTicks
  /\ ticks' = ticks + 1
  /\ \E s \in {0} \cup Slot : Counting(s)
  /\ \E work \in {FALSE, npu = "busy"} :
       LET fires(s) == Counting(s) /\ Happens(evtyper[s], work)
       IN /\ evcnt' = [s \in Slot |-> IF fires(s) THEN (evcnt[s] + 1) % EvWrap ELSE evcnt[s]]
          /\ ovs' = ovs \cup {s \in Slot : fires(s) /\ evcnt[s] + 1 = EvWrap}
                        \cup {s \in {0} : Counting(0) /\ lo + 1 = LoWrap /\ hi + 1 = HiWrap}
          /\ own' = [s \in Slot |-> IF Counting(s) /\ s \in Used /\ Happens(instr_cfg.codes[s], work)
                                      THEN own[s] + 1 ELSE own[s]]
  /\ \/ /\ Counting(0)
        /\ cycles' = cycles + 1
        /\ \/ lo + 1 < LoWrap /\ lo' = lo + 1 /\ hi' = hi
           \/ lo + 1 = LoWrap /\ lo' = 0 /\ hi' = (IF hi + 1 = HiWrap THEN 0 ELSE hi + 1)
     \/ ~Counting(0) /\ UNCHANGED <<hi, lo, cycles>>
  /\ UNCHANGED <<power, engaged, cnt_en, cnten, evtyper, npuVars, pc, runVars, prior, busy, abandoned>>

\* The job ends, its queue consumed or, after a fault, not.
JobEnds ==
  /\ npu = "busy"
  /\ npu' = "idle" /\ npu_irq' = TRUE
  /\ qread' \in {TRUE, qread}
  /\ UNCHANGED <<pmuVars, pc, runVars, history>>

-----------------------------------------------------------------------------
(* handle_run up to the inference.                                         *)
Thread(from, to) == pc = from /\ pc' = to

\* SET_INSTRUMENTATION_MODE, and RESET_RUNNER, which also stops the counters.
Configure ==
  /\ pc = "parser"
  /\ instr_cfg' \in Configs
  /\ record' = NoRecord
  /\ UNCHANGED <<pmuVars, npuVars, pc, slot, armed, verified, hi1, lo1, seam, rc, runs, history>>

ResetRunner ==
  /\ pc = "parser"
  /\ instr_cfg' = [mode |-> "OFF", codes |-> <<>>]
  /\ cnt_en' = FALSE /\ ovs' = {} /\ cnten' = {}
  /\ record' = NoRecord
  /\ UNCHANGED <<power, engaged, evtyper, hi, lo, evcnt, npuVars, pc, slot, armed, verified, hi1, lo1,
                 seam, rc, runs, history>>

\* The seam variables are cleared with the return codes.
OpenWindow ==
  /\ runs < MaxRuns
  /\ Thread("parser", "open")
  /\ runs' = runs + 1 /\ ticks' = 0
  /\ seam' = NoSeam /\ rc' = NoRc
  /\ armed' = FALSE /\ verified' = FALSE
  /\ hi1' = 0 /\ lo1' = 0 /\ slot' = 1
  /\ record' = NoRecord
  /\ own' = Zeros /\ prior' = NoRecord.prior /\ busy' = FALSE
  /\ UNCHANGED <<pmuVars, npuVars, instr_cfg, cycles, abandoned>>

\* CMD = 0: both Q interfaces are held before the counters are touched.
HoldPower ==
  /\ Events
  /\ Thread("open", "held")
  /\ power' = TRUE
  /\ UNCHANGED <<engaged, cnt_en, cnten, evtyper, hi, lo, evcnt, ovs, npuVars, runVars, history>>

\* PMCR's reset bits: every counter is zero.
ResetBits == hi' = 0 /\ lo' = 0 /\ evcnt' = Zeros

\* Stop, clear the overflows and the enables, reset; in EVENTS mode the same
\* write enables globally.  Counters reset without power may never engage.
ResetCounters ==
  /\ instr_cfg.mode # "OFF"
  /\ Thread(IF Events THEN "held" ELSE "open", "reset")
  /\ cnt_en' = Events
  /\ cnten' = {} /\ ovs' = {}
  /\ ResetBits
  /\ engaged' \in {TRUE, power}
  /\ cycles' = 0
  /\ UNCHANGED <<power, evtyper, npuVars, runVars, ticks, own, prior, busy, abandoned>>

\* PMCNTENSET, in one write: from here the slots count what they were set to.
ArmCounters ==
  /\ Thread("reset", IF Events THEN "armed" ELSE "selected")
  /\ cnten' = {0} \cup (IF Events THEN Used ELSE {})
  /\ own' = Zeros /\ prior' = evtyper
  /\ slot' = 1
  /\ UNCHANGED <<power, engaged, cnt_en, evtyper, hi, lo, evcnt, ovs, npuVars,
                 instr_cfg, armed, verified, hi1, lo1, seam, rc, record, runs, ticks, cycles, busy, abandoned>>

\* PMEVTYPER, one slot after the other.
SelectEvent ==
  /\ pc = "armed"
  /\ \/ /\ slot \in Used
        /\ evtyper' = [evtyper EXCEPT ![slot] = instr_cfg.codes[slot]]
        /\ slot' = slot + 1 /\ UNCHANGED pc
     \/ slot \notin Used /\ pc' = "selected" /\ UNCHANGED <<evtyper, slot>>
  /\ UNCHANGED <<power, engaged, cnt_en, cnten, hi, lo, evcnt, ovs, npuVars,
                 instr_cfg, armed, verified, hi1, lo1, seam, rc, record, runs, history>>

\* Both read-backs, around the enable; OFF touches nothing.
EnableCounters ==
  /\ \/ instr_cfg.mode # "OFF" /\ Thread("selected", "ready")
        /\ armed' = (0 \in cnten) /\ cnt_en' = TRUE /\ verified' = cnt_en'
     \/ instr_cfg.mode = "OFF" /\ Thread("open", "ready") /\ UNCHANGED <<armed, cnt_en, verified>>
  /\ UNCHANGED <<power, engaged, cnten, evtyper, hi, lo, evcnt, ovs, npuVars,
                 slot, instr_cfg, hi1, lo1, seam, rc, record, runs, history>>

-----------------------------------------------------------------------------
(* The inference: __wrap_test_u85 and test_u85.                            *)

\* A header the loader refuses: the driver is never called.
RefuseWorkload ==
  /\ Thread("ready", "returned")
  /\ rc' = [rc EXCEPT !.run = RC_REFUSED]
  /\ UNCHANGED <<pmuVars, npuVars, slot, instr_cfg, armed, verified, hi1, lo1, seam, record, runs, history>>

\* CMD = 0, then CMD = 1, which a device still at work may ignore.
StartJob ==
  /\ Thread("ready", "waiting")
  /\ power' = TRUE
  /\ \/ npu' = "busy" /\ qread' = FALSE
     \/ npu = "busy" /\ UNCHANGED <<npu, qread>>
  /\ UNCHANGED <<npu_irq, engaged, cnt_en, cnten, evtyper, hi, lo, evcnt, ovs, runVars, history>>

\* The wait sees the flag, or its polls run out under the job.
EndWait ==
  /\ Thread("waiting", "woken")
  /\ rc' = [rc EXCEPT !.gave_up = ~npu_irq]
  /\ npu_irq' = FALSE
  /\ abandoned' = (abandoned \/ ~npu_irq)
  /\ UNCHANGED <<npu, qread, pmuVars, slot, instr_cfg, armed, verified, hi1, lo1, seam, record, runs,
                 ticks, cycles, own, prior, busy>>

\* Mutant: a queue that was not consumed does not reach the return code.
QueueRc_Ignored == 0

QueueRc == IF qread THEN 0 ELSE 1

\* QREAD against QSIZE, CMD = 0; then the printf with the seam, which samples in
\* EVENTS mode alone.
ReadQread ==
  /\ Thread("woken", IF Events THEN "cycle_hi" ELSE "sampled")
  /\ rc' = [rc EXCEPT !.queue = QueueRc]
  /\ slot' = 1
  /\ busy' = (npu = "busy")
  /\ UNCHANGED <<npuVars, pmuVars, instr_cfg, armed, verified, hi1, lo1, seam, record, runs,
                 ticks, cycles, own, prior, abandoned>>

-----------------------------------------------------------------------------
(* The seam: npu_pmu_read_cycles, overflow, events, STATUS and QREAD.      *)
SeamOnly == UNCHANGED <<pmuVars, npuVars, instr_cfg, armed, verified, rc, record, runs, history>>

ReadHi ==
  /\ Thread("cycle_hi", "cycle_lo")
  /\ hi1' = hi
  /\ SeamOnly /\ UNCHANGED <<slot, lo1, seam>>

ReadLo ==
  /\ Thread("cycle_lo", "cycle_hi2")
  /\ lo1' = lo
  /\ seam' = [seam EXCEPT !.seen = cycles]
  /\ SeamOnly /\ UNCHANGED <<slot, hi1>>

\* Mutant: the second reading of the high half is not compared with the first.
Stable_Always == TRUE

Stable == hi1 = hi

\* The same high half twice: done.  Else once more, to the bound.
ReadHiAgain ==
  /\ pc = "cycle_hi2"
  /\ \/ /\ ~Stable /\ slot < READ_TRIES
        /\ slot' = slot + 1 /\ pc' = "cycle_hi" /\ UNCHANGED seam
     \/ /\ Stable \/ slot >= READ_TRIES
        /\ seam' = [seam EXCEPT !.hi = IF Stable THEN hi1 ELSE hi, !.lo = lo1, !.stable = Stable]
        /\ slot' = 1 /\ pc' = "overflow"
  /\ SeamOnly /\ UNCHANGED <<hi1, lo1>>

ReadOverflow ==
  /\ Thread("overflow", "events")
  /\ seam' = [seam EXCEPT !.ovf = ovs]
  /\ SeamOnly /\ UNCHANGED <<slot, hi1, lo1>>

ReadEvent ==
  /\ pc = "events"
  /\ \/ /\ slot \in Used
        /\ seam' = [seam EXCEPT !.ev[slot] = evcnt[slot], !.own[slot] = own[slot]]
        /\ slot' = slot + 1 /\ UNCHANGED pc
     \/ slot \notin Used /\ pc' = "status" /\ UNCHANGED <<slot, seam>>
  /\ SeamOnly /\ UNCHANGED <<hi1, lo1>>

ReadStatus ==
  /\ Thread("status", "sampled")
  /\ seam' = [seam EXCEPT !.ended = npu = "idle" /\ qread, !.fired = @ + 1]
  /\ SeamOnly /\ UNCHANGED <<slot, hi1, lo1>>

-----------------------------------------------------------------------------
(* From the seam to the record.                                            *)

\* CMD = 0xC releases clock and power; the output and the interrupt mask are
\* compared; the knobs are checked.
EndDriver ==
  /\ Thread("sampled", "returned")
  /\ power' = FALSE /\ engaged' = FALSE
  /\ \E right, mask, knobs \in BOOLEAN :
       LET vendor == (IF ~mask THEN 3 ELSE IF ~right THEN 2 ELSE rc.queue)
                       + (IF rc.gave_up THEN 1 ELSE 0)
       IN rc' = [rc EXCEPT !.vendor = vendor, !.run = IF knobs THEN vendor ELSE RC_KNOB]
  /\ UNCHANGED <<cnt_en, cnten, evtyper, hi, lo, evcnt, ovs, npuVars,
                 slot, instr_cfg, armed, verified, hi1, lo1, seam, record, runs, history>>

\* npu_pmu_cycle_overflow: bit 31, which is slot 0 here.
CycleOverflow(ovf) == 0 \in ovf

\* What the counters hold once they are disabled; without power they read zero.
Dead(x) == IF power THEN x ELSE 0

\* Mutant: an armed slot is valid, whether it overflowed or not.
EventValidMask_Armed == Used

EventValidMask == Used \ seam.ovf

\* The record: in EVENTS mode the seam's sample takes the place of the one
\* after the call, and the mask says valid of every armed slot that did not
\* overflow.
CloseWindow ==
  /\ Thread("returned", "parser")
  /\ cnt_en' = (instr_cfg.mode = "OFF" /\ cnt_en)
  /\ record' =
       [NoRecord EXCEPT !.mode = instr_cfg.mode, !.codes = instr_cfg.codes, !.rc = rc,
          !.seam = seam, !.busy = busy, !.prior = prior, !.late = abandoned,
          !.cycle_valid =
            /\ instr_cfg.mode # "OFF" /\ armed /\ verified
            /\ Events => seam.stable
            /\ ~CycleOverflow(IF Events THEN seam.ovf ELSE ovs),
          !.hi = IF Events THEN seam.hi ELSE IF instr_cfg.mode = "OFF" THEN 0 ELSE Dead(hi),
          !.lo = IF Events THEN seam.lo ELSE IF instr_cfg.mode = "OFF" THEN 0 ELSE Dead(lo),
          !.applied = IF Events THEN Len(instr_cfg.codes) ELSE 0,
          !.valid = IF Events THEN EventValidMask ELSE {},
          !.fired = IF Events THEN seam.fired ELSE 0]
  /\ UNCHANGED <<power, engaged, cnten, evtyper, hi, lo, evcnt, ovs, npuVars,
                 slot, instr_cfg, armed, verified, hi1, lo1, seam, rc, runs, history>>

Init ==
  /\ power = FALSE /\ engaged = FALSE
  /\ cnt_en = FALSE /\ cnten = {} /\ evtyper = [s \in Slot |-> NoCode]
  /\ hi = 0 /\ lo = 0 /\ evcnt = Zeros /\ ovs = {}
  /\ npu = "idle" /\ npu_irq = FALSE /\ qread = FALSE
  /\ pc = "parser" /\ slot = 1
  /\ instr_cfg = [mode |-> "OFF", codes |-> <<>>]
  /\ armed = FALSE /\ verified = FALSE /\ hi1 = 0 /\ lo1 = 0
  /\ seam = NoSeam /\ rc = NoRc /\ record = NoRecord
  /\ runs = 0 /\ ticks = 0 /\ cycles = 0 /\ own = Zeros
  /\ prior = [s \in Slot |-> NoCode] /\ busy = FALSE /\ abandoned = FALSE

Next ==
  \/ Tick \/ JobEnds
  \/ Configure \/ ResetRunner
  \/ OpenWindow \/ HoldPower \/ ResetCounters \/ ArmCounters \/ SelectEvent \/ EnableCounters
  \/ RefuseWorkload \/ StartJob \/ EndWait \/ ReadQread
  \/ ReadHi \/ ReadLo \/ ReadHiAgain \/ ReadOverflow \/ ReadEvent \/ ReadStatus
  \/ EndDriver \/ CloseWindow

Spec == Init /\ [][Next]_vars

-----------------------------------------------------------------------------
(* What the host takes for a measurement (pmu_events_parse.py).            *)
Mask == 1 .. Len(record.codes)

\* run_validity's terms about the counters, and those about completion: the
\* return code, or for a model that need not be exact its own.
run_validity(mode) ==
  /\ record.cycle_valid
  /\ record.hi + record.lo > 0
  /\ record.fired = 1
  /\ record.mode = "EVENTS"
  /\ record.applied = Len(record.codes)
  /\ record.valid = Mask
  /\ IF mode = "exact" THEN record.rc.run = 0
     ELSE /\ record.rc.vendor \in {0, 2} /\ record.rc.run # RC_KNOB
          /\ record.seam.ended

-----------------------------------------------------------------------------
\* A cycle count that the record calls valid is the number of cycles since this
\* run reset the counter, at one moment of the reading, although the counter runs
\* on while its halves are read and may wrap between any two accesses
\* (npu_pmu.c:107-149, measure.c:683-691).
CyclesAreWhole ==
  record.mode = "EVENTS" /\ record.cycle_valid =>
    record.hi * LoWrap + record.lo = record.seam.seen

\* A run the host counts as exact was counted to its end: no job was at work
\* when the seam was reached, though the wait may end by an old job's flag or
\* give up.  A run it counts as complete only, likewise, unless a wait has been
\* given up since power-up (pmu_events_parse.py:43-70, u85.c:117-127, 291-302).
AcceptedCoversJob ==
  run_validity("exact") \/ (run_validity("model") /\ ~record.late) => ~record.busy

\* What the host counts of an event the job causes is how often that event came,
\* in this run alone, without a wrap, if its slot counted the same event in the
\* run before: the counters run before their events are selected
\* (measure.c:588-596, io_wrap.c:29-33).
EventsAreOwn ==
  run_validity("exact") =>
    \A s \in Mask : record.codes[s] \notin ClockCodes /\ record.prior[s] = record.codes[s] =>
      record.seam.ev[s] = record.seam.own[s]
=============================================================================
