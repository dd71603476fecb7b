------------------------ MODULE MeasureWindowProofs ------------------------
(***************************************************************************)
(* That a cycle count the record calls valid is whole, although its halves *)
(* are read while it runs, and that a run the host accepts was counted to  *)
(* its end, with its own events: for counters of any width, any number of  *)
(* slots and tries.                                                        *)
(***************************************************************************)
EXTENDS MeasureWindow, TLAPS

SeamType ==
  [fired : Nat, hi : Nat, lo : Nat, stable : BOOLEAN, ovf : SUBSET ({0} \cup Slot),
   ev : [Slot -> Nat], ended : BOOLEAN, seen : Nat, own : [Slot -> Nat]]

RcType == [queue : {0, 1}, gave_up : BOOLEAN, vendor : Int, run : Int]

\* Types, as far as the proofs need them.
WindowTypes ==
  /\ hi \in Nat /\ lo \in Nat /\ cycles \in Nat
  /\ evcnt \in [Slot -> Nat] /\ own \in [Slot -> Nat]
  /\ ovs \subseteq {0} \cup Slot
  /\ npu \in {"idle", "busy"} /\ npu_irq \in BOOLEAN /\ qread \in BOOLEAN
  /\ instr_cfg.mode \in Modes /\ Used \subseteq Slot
  /\ hi1 \in Nat /\ lo1 \in Nat /\ slot \in Nat
  /\ seam \in SeamType /\ rc \in RcType

BeforeSample == {"open", "held", "reset", "armed", "selected", "ready", "waiting", "woken",
                 "cycle_hi", "cycle_lo", "cycle_hi2"}
SampleTaken  == {"events", "status", "sampled", "returned"}
AfterReset   == (BeforeSample \ {"open", "held"}) \cup {"overflow"} \cup SampleTaken

\* The sample the seam holds is the count at the moment its low half was read.
WholeSample == seam.seen = seam.hi * LoWrap + seam.lo

\* The counter holds the cycles since its reset until it overflows, which stays
\* on record; so between two readings of the high half it only grows, and if they
\* agree the low half was read under the same high half.
ReadingInv ==
  /\ Events /\ pc \in AfterReset => 0 \in ovs \/ cycles = hi * LoWrap + lo
  /\ Events /\ pc = "cycle_lo" => 0 \in ovs \/ hi1 <= hi
  /\ Events /\ pc = "cycle_hi2" =>
       0 \in ovs \/ \E h \in Nat : hi1 <= h /\ h <= hi /\ seam.seen = h * LoWrap + lo1
  /\ pc \in BeforeSample => ~seam.stable
  /\ Events /\ pc = "overflow" /\ seam.stable => 0 \in ovs \/ WholeSample
  /\ Events /\ pc \in SampleTaken /\ seam.stable => 0 \in seam.ovf \/ WholeSample
  /\ CyclesAreWhole

AfterQread == {"cycle_hi", "cycle_lo", "cycle_hi2", "overflow", "events", "status", "sampled"}

\* A job at work has not consumed its queue; and until a wait is given up a job
\* is at work only under the wait.
CoveredInv ==
  /\ npu = "busy" => ~qread
  /\ pc \in AfterQread /\ rc.queue = 0 => ~busy
  /\ pc = "returned" /\ rc.run = 0 => ~busy
  /\ record.rc.run = 0 => ~record.busy
  /\ ~abandoned =>
       /\ npu_irq => npu = "idle"
       /\ pc # "waiting" => npu = "idle" /\ ~npu_irq
       /\ ~busy
  /\ ~record.late => ~record.busy

\* Slot s counts an event of the job, and was selected for it before it was armed.
Kept(s) ==
  s \in Used /\ instr_cfg.codes[s] \notin ClockCodes /\ prior[s] = instr_cfg.codes[s]

AfterArm == {"armed", "selected", "ready", "waiting", "woken", "cycle_hi", "cycle_lo",
             "cycle_hi2", "overflow", "events"}

\* The sample holds, of each slot that did not overflow, the events of its own.
EventsSampled == \A s \in Slot : Kept(s) => s \in seam.ovf \/ seam.ev[s] = seam.own[s]

\* From the arming on, a slot selected before holds its own events until it
\* overflows; and once the overflows are read, an idle NPU causes no more.
OwnInv ==
  /\ DOMAIN evtyper = Slot /\ \A s \in Slot : evcnt[s] < EvWrap
  /\ Events /\ pc = "reset" => evcnt = Zeros /\ cnten = {}
  /\ Events /\ pc \in AfterArm =>
       \A s \in Used : prior[s] = instr_cfg.codes[s] =>
         evtyper[s] = instr_cfg.codes[s] /\ (s \in ovs \/ evcnt[s] = own[s])
  /\ pc \in AfterQread /\ ~busy => npu = "idle"
  /\ Events /\ pc = "events" /\ ~busy =>
       \A s \in Slot : Kept(s) => s \in seam.ovf \/ evcnt[s] = own[s]
  /\ pc \in BeforeSample \cup {"overflow"} => seam.ev = seam.own
  /\ Events /\ pc \in SampleTaken /\ ~busy => EventsSampled
  /\ EventsAreOwn

-----------------------------------------------------------------------------
\* Configure, or the configuration RESET leaves, arms no slot that is not there.
LEMMA ConfigTypes == ASSUME NEW c \in Configs PROVE c.mode \in Modes /\ DOMAIN c.codes \subseteq Slot
<1>1. PICK n \in 0 .. Slots : c.codes \in [1 .. n -> Codes]
  BY WindowAssumption
<1>2. DOMAIN c.codes = 1 .. n /\ n \in Nat /\ Slots \in Nat
  BY <1>1, WindowAssumption
<1> QED BY <1>2, WindowAssumption DEF Slot

LEMMA EmptyTypes == DOMAIN <<>> \subseteq Slot /\ NoSeam \in SeamType /\ NoRc \in RcType
                      /\ Zeros \in [Slot -> Nat]
BY DEF NoSeam, SeamType, NoRc, RcType, Zeros

LEMMA TypesInit == Init => WindowTypes
<1>1. SUFFICES ASSUME Init PROVE WindowTypes
  OBVIOUS
<1>2. instr_cfg.mode = "OFF" /\ instr_cfg.codes = <<>>
  BY <1>1 DEF Init
<1>3. instr_cfg.mode \in Modes /\ Used \subseteq Slot
  BY <1>2, EmptyTypes DEF Used, Modes
<1>4. seam \in SeamType /\ rc \in RcType /\ evcnt \in [Slot -> Nat] /\ own \in [Slot -> Nat]
  BY <1>1, EmptyTypes DEF Init
<1> QED BY <1>1, <1>3, <1>4 DEF Init, WindowTypes

\* Each action keeps the types.
LEMMA TypesStep == ASSUME WindowTypes, [Next]_vars PROVE WindowTypes'
<1> USE DEF pmuVars, npuVars, runVars, history, Used, Thread
<1>1. CASE UNCHANGED vars
  BY <1>1 DEF WindowTypes, vars
<1>2. CASE Tick
  <2>1. /\ hi' \in Nat /\ lo' \in Nat /\ cycles' \in Nat
    BY <1>2 DEF Tick, WindowTypes
  <2>2. PICK work \in {FALSE, npu = "busy"} :
          LET fires(s) == Counting(s) /\ Happens(evtyper[s], work)
          IN /\ evcnt' = [s \in Slot |-> IF fires(s) THEN (evcnt[s] + 1) % EvWrap ELSE evcnt[s]]
             /\ ovs' = ovs \cup {s \in Slot : fires(s) /\ evcnt[s] + 1 = EvWrap}
                           \cup {s \in {0} : Counting(0) /\ lo + 1 = LoWrap /\ hi + 1 = HiWrap}
             /\ own' = [s \in Slot |-> IF Counting(s) /\ s \in Used /\ Happens(instr_cfg.codes[s], work)
                                         THEN own[s] + 1 ELSE own[s]]
    BY <1>2 DEF Tick
  <2>3. EvWrap \in Nat \ {0}
    BY WindowAssumption
  <2>4. \A n \in Nat : (n + 1) % EvWrap \in Nat
    BY <2>3
  <2>5. evcnt' \in [Slot -> Nat]
    BY <2>2, <2>4 DEF WindowTypes
  <2>6. own' \in [Slot -> Nat]
    BY <2>2 DEF WindowTypes
  <2>7. ovs' \subseteq {0} \cup Slot
    BY <2>2 DEF WindowTypes
  <2> QED BY <1>2, <2>1, <2>5, <2>6, <2>7 DEF Tick, WindowTypes
<1>3. CASE JobEnds
  BY <1>3 DEF JobEnds, WindowTypes
<1>4. CASE Configure
  BY <1>4, ConfigTypes DEF Configure, WindowTypes
<1>5. CASE ResetRunner
  BY <1>5, EmptyTypes DEF ResetRunner, WindowTypes, Modes
<1>6. CASE OpenWindow
  BY <1>6, EmptyTypes DEF OpenWindow, WindowTypes
<1>7. CASE HoldPower
  BY <1>7 DEF HoldPower, WindowTypes
<1>8. CASE ResetCounters
  BY <1>8, EmptyTypes DEF ResetCounters, ResetBits, WindowTypes
<1>9. CASE ArmCounters
  BY <1>9, EmptyTypes DEF ArmCounters, WindowTypes
<1>10. CASE SelectEvent
  BY <1>10 DEF SelectEvent, WindowTypes
<1>11. CASE EnableCounters
  BY <1>11 DEF EnableCounters, WindowTypes
<1>12. CASE RefuseWorkload
  BY <1>12 DEF RefuseWorkload, RC_REFUSED, WindowTypes, RcType
<1>13. CASE StartJob
  BY <1>13 DEF StartJob, WindowTypes
<1>14. CASE EndWait
  BY <1>14 DEF EndWait, WindowTypes, RcType
<1>15. CASE ReadQread
  BY <1>15 DEF ReadQread, QueueRc, WindowTypes, RcType
<1>16. CASE ReadHi
  BY <1>16 DEF ReadHi, SeamOnly, WindowTypes
<1>17. CASE ReadLo
  BY <1>17 DEF ReadLo, SeamOnly, WindowTypes, SeamType
<1>18. CASE ReadHiAgain
  <2>1. seam' = seam \/ \E h, l \in Nat, st \in BOOLEAN :
                          seam' = [seam EXCEPT !.hi = h, !.lo = l, !.stable = st]
    BY <1>18 DEF ReadHiAgain, Stable, WindowTypes
  <2>2. seam' \in SeamType
    BY <2>1 DEF WindowTypes, SeamType
  <2> QED BY <1>18, <2>2 DEF ReadHiAgain, SeamOnly, WindowTypes
<1>19. CASE ReadOverflow
  BY <1>19 DEF ReadOverflow, SeamOnly, WindowTypes, SeamType
<1>20. CASE ReadEvent
  <2>1. seam' = seam \/ \E s \in Slot, n, k \in Nat : seam' = [seam EXCEPT !.ev[s] = n, !.own[s] = k]
    BY <1>20 DEF ReadEvent, WindowTypes
  <2>2. \A s \in Slot, n, k \in Nat : [seam EXCEPT !.ev[s] = n, !.own[s] = k] \in SeamType
    <3>1. TAKE s \in Slot, n, k \in Nat
    <3>2. [seam.ev EXCEPT ![s] = n] \in [Slot -> Nat] /\ [seam.own EXCEPT ![s] = k] \in [Slot -> Nat]
      BY DEF WindowTypes, SeamType
    <3>3. [seam EXCEPT !.ev[s] = n, !.own[s] = k]
            = [seam EXCEPT !.ev = [seam.ev EXCEPT ![s] = n], !.own = [seam.own EXCEPT ![s] = k]]
      BY DEF WindowTypes, SeamType
    <3> QED BY <3>2, <3>3 DEF WindowTypes, SeamType
  <2>3. CASE seam' # seam
    <3>1. PICK s \in Slot, n, k \in Nat : seam' = [seam EXCEPT !.ev[s] = n, !.own[s] = k]
      BY <2>1, <2>3
    <3>2. [seam EXCEPT !.ev[s] = n, !.own[s] = k] \in SeamType
      BY <2>2
    <3>3. seam' \in SeamType
      BY <3>1, <3>2, Zenon
    <3> QED BY <1>20, <3>3 DEF ReadEvent, SeamOnly, WindowTypes
  <2> QED BY <1>20, <2>3 DEF ReadEvent, SeamOnly, WindowTypes
<1>21. CASE ReadStatus
  <2>1. PICK b \in BOOLEAN : seam' = [seam EXCEPT !.ended = b, !.fired = seam.fired + 1]
    BY <1>21 DEF ReadStatus, WindowTypes
  <2>2. seam.fired + 1 \in Nat
    BY DEF WindowTypes, SeamType
  <2>3. \A n \in Nat : [seam EXCEPT !.ended = b, !.fired = n] \in SeamType
    BY DEF WindowTypes, SeamType
  <2>4. seam' \in SeamType
    BY <2>1, <2>2, <2>3
  <2> QED BY <1>21, <2>4 DEF ReadStatus, SeamOnly, WindowTypes
<1>22. CASE EndDriver
  <2>1. PICK right, mask, knobs \in BOOLEAN :
          LET vendor == (IF ~mask THEN 3 ELSE IF ~right THEN 2 ELSE rc.queue)
                          + (IF rc.gave_up THEN 1 ELSE 0)
          IN rc' = [rc EXCEPT !.vendor = vendor, !.run = IF knobs THEN vendor ELSE RC_KNOB]
    BY <1>22 DEF EndDriver
  <2>2. rc.queue \in Int /\ RC_KNOB \in Int
    BY DEF WindowTypes, RcType, RC_KNOB
  <2> DEFINE vendor == (IF ~mask THEN 3 ELSE IF ~right THEN 2 ELSE rc.queue)
                         + (IF rc.gave_up THEN 1 ELSE 0)
  <2>3. vendor \in Int /\ (IF knobs THEN vendor ELSE RC_KNOB) \in Int
    BY <2>2
  <2>4. rc' = [rc EXCEPT !.vendor = vendor, !.run = IF knobs THEN vendor ELSE RC_KNOB]
    BY <2>1
  <2>5. \E v, n \in Int : rc' = [rc EXCEPT !.vendor = v, !.run = n]
    <3> HIDE DEF vendor
    <3> QED BY <2>3, <2>4
  <2>6. rc' \in RcType
    BY <2>5 DEF WindowTypes, RcType
  <2> QED BY <1>22, <2>6 DEF EndDriver, WindowTypes
<1>23. CASE CloseWindow
  BY <1>23 DEF CloseWindow, WindowTypes
<1> QED BY <1>1, <1>2, <1>3, <1>4, <1>5, <1>6, <1>7, <1>8, <1>9, <1>10, <1>11, <1>12, <1>13,
           <1>14, <1>15, <1>16, <1>17, <1>18, <1>19, <1>20, <1>21, <1>22, <1>23 DEF Next

LEMMA Types == Spec => []WindowTypes
BY TypesInit, TypesStep, PTL DEF Spec

-----------------------------------------------------------------------------
\* A tick of the cycle counter keeps hi and lo the halves of a count, one larger,
\* or leaves the overflow on record.
LEMMA TickCounts ==
  ASSUME WindowTypes, Tick
  PROVE  /\ ovs \subseteq ovs'
         /\ \/ hi' = hi /\ lo' = lo /\ cycles' = cycles
            \/ 0 \in ovs'
            \/ hi <= hi' /\ cycles' = cycles + 1 /\ hi' * LoWrap + lo' = hi * LoWrap + lo + 1
<1> USE DEF WindowTypes
<1>1. LoWrap \in Nat
  BY WindowAssumption
<1>2. ovs \subseteq ovs' /\ (Counting(0) /\ lo + 1 = LoWrap /\ hi + 1 = HiWrap => 0 \in ovs')
  BY DEF Tick
<1>3. CASE ~Counting(0)
  BY <1>2, <1>3 DEF Tick
<1>4. CASE Counting(0) /\ lo + 1 < LoWrap /\ lo' = lo + 1 /\ hi' = hi
  BY <1>1, <1>2, <1>4 DEF Tick
<1>5. CASE Counting(0) /\ lo + 1 = LoWrap /\ hi + 1 = HiWrap
  BY <1>2, <1>5
<1>6. CASE Counting(0) /\ lo + 1 = LoWrap /\ lo' = 0 /\ hi' = hi + 1
  <2>1. (hi + 1) * LoWrap = hi * LoWrap + LoWrap
    BY <1>1
  <2> QED BY <1>1, <1>2, <1>6, <2>1 DEF Tick
<1> QED BY <1>3, <1>4, <1>5, <1>6 DEF Tick

LEMMA ReadingInit == Init => ReadingInv
BY DEF Init, ReadingInv, AfterReset, BeforeSample, SampleTaken, CyclesAreWhole, NoRecord

\* Each action keeps ReadingInv; the record is written by CloseWindow alone.
LEMMA ReadingStep == ASSUME WindowTypes, ReadingInv, [Next]_vars PROVE ReadingInv'
<1> USE DEF pmuVars, npuVars, runVars, history, Thread, Events, WholeSample,
            AfterReset, BeforeSample, SampleTaken, CyclesAreWhole
<1>1. CASE UNCHANGED vars
  BY <1>1 DEF ReadingInv, vars
<1>2. CASE Tick
  <2>1. UNCHANGED <<pc, seam, instr_cfg, record, hi1, lo1>>
    BY <1>2 DEF Tick
  <2>2. UNCHANGED <<Events, WholeSample>> /\ CyclesAreWhole'
    BY <2>1 DEF ReadingInv
  <2>3. ovs \subseteq ovs' /\ (0 \in ovs' \/ hi <= hi')
    BY <1>2, TickCounts DEF WindowTypes
  <2>4. 0 \in ovs' \/ (cycles = hi * LoWrap + lo => cycles' = hi' * LoWrap + lo')
    BY <1>2, TickCounts DEF WindowTypes
  <2>5. hi \in Nat /\ hi' \in Nat /\ hi1 \in Nat
    BY <1>2, TypesStep DEF WindowTypes, Next
  <2>6. Events' /\ pc' \in AfterReset => 0 \in ovs' \/ cycles' = hi' * LoWrap + lo'
    BY <2>1, <2>2, <2>3, <2>4 DEF ReadingInv
  <2>7. Events' /\ pc' = "cycle_lo" => 0 \in ovs' \/ hi1' <= hi'
    BY <2>1, <2>2, <2>3, <2>5 DEF ReadingInv
  <2>8. Events' /\ pc' = "cycle_hi2" =>
          0 \in ovs' \/ \E h \in Nat : hi1' <= h /\ h <= hi' /\ seam'.seen = h * LoWrap' + lo1'
    BY <2>1, <2>2, <2>3, <2>5 DEF ReadingInv
  <2>9. /\ pc' \in BeforeSample => ~seam'.stable
        /\ Events' /\ pc' = "overflow" /\ seam'.stable => 0 \in ovs' \/ WholeSample'
        /\ Events' /\ pc' \in SampleTaken /\ seam'.stable => 0 \in seam'.ovf \/ WholeSample'
    BY <2>1, <2>2, <2>3 DEF ReadingInv
  <2> QED BY <2>2, <2>6, <2>7, <2>8, <2>9 DEF ReadingInv
<1>3. CASE JobEnds
  BY <1>3 DEF JobEnds, ReadingInv
<1>4. CASE Configure
  BY <1>4 DEF Configure, ReadingInv, NoRecord
<1>5. CASE ResetRunner
  BY <1>5 DEF ResetRunner, ReadingInv, NoRecord
<1>6. CASE OpenWindow
  BY <1>6 DEF OpenWindow, ReadingInv, NoRecord, NoSeam
<1>7. CASE HoldPower
  BY <1>7 DEF HoldPower, ReadingInv
<1>8. CASE ResetCounters
  BY <1>8, WindowAssumption DEF ResetCounters, ResetBits, ReadingInv
<1>9. CASE ArmCounters
  BY <1>9 DEF ArmCounters, ReadingInv
<1>10. CASE SelectEvent
  BY <1>10 DEF SelectEvent, ReadingInv
<1>11. CASE EnableCounters
  BY <1>11 DEF EnableCounters, ReadingInv
<1>12. CASE RefuseWorkload
  BY <1>12 DEF RefuseWorkload, ReadingInv
<1>13. CASE StartJob
  BY <1>13 DEF StartJob, ReadingInv
<1>14. CASE EndWait
  BY <1>14 DEF EndWait, ReadingInv
<1>15. CASE ReadQread
  BY <1>15 DEF ReadQread, ReadingInv
<1>16. CASE ReadHi
  BY <1>16 DEF ReadHi, SeamOnly, ReadingInv, WindowTypes
<1>17. CASE ReadLo
  BY <1>17 DEF ReadLo, SeamOnly, ReadingInv, WindowTypes, SeamType
<1>18. CASE ReadHiAgain
  <2>1. UNCHANGED <<instr_cfg, ovs, hi, lo, cycles, record, hi1, lo1>>
    BY <1>18 DEF ReadHiAgain, SeamOnly
  <2>2. CASE pc' = "cycle_hi" /\ UNCHANGED seam
    BY <1>18, <2>1, <2>2 DEF ReadHiAgain, ReadingInv
  <2>3. CASE pc' = "overflow" /\ seam' = [seam EXCEPT !.hi = IF Stable THEN hi1 ELSE hi, !.lo = lo1, !.stable = Stable]
    <3>1. seam'.stable = (hi1 = hi) /\ seam'.seen = seam.seen /\ seam'.lo = lo1 /\ (hi1 = hi => seam'.hi = hi)
      BY <2>3 DEF Stable, WindowTypes, SeamType
    <3>2. Events /\ seam'.stable => 0 \in ovs \/ seam.seen = hi * LoWrap + lo1
      <4>1. SUFFICES ASSUME Events, hi1 = hi, 0 \notin ovs PROVE seam.seen = hi * LoWrap + lo1
        BY <3>1
      <4>2. PICK h \in Nat : hi1 <= h /\ h <= hi /\ seam.seen = h * LoWrap + lo1
        BY <1>18, <4>1 DEF ReadHiAgain, ReadingInv
      <4>3. h = hi
        BY <4>1, <4>2 DEF WindowTypes
      <4> QED BY <4>2, <4>3
    <3> QED BY <1>18, <2>1, <2>3, <3>1, <3>2 DEF ReadHiAgain, ReadingInv
  <2> QED BY <1>18, <2>2, <2>3 DEF ReadHiAgain
<1>19. CASE ReadOverflow
  BY <1>19 DEF ReadOverflow, SeamOnly, ReadingInv, WindowTypes, SeamType
<1>20. CASE ReadEvent
  BY <1>20 DEF ReadEvent, SeamOnly, ReadingInv, WindowTypes, SeamType
<1>21. CASE ReadStatus
  BY <1>21 DEF ReadStatus, SeamOnly, ReadingInv, WindowTypes, SeamType
<1>22. CASE EndDriver
  BY <1>22 DEF EndDriver, ReadingInv
<1>23. CASE CloseWindow
  <2>1. /\ record'.mode = instr_cfg.mode
        /\ record'.seam = seam
        /\ Events => record'.hi = seam.hi /\ record'.lo = seam.lo
        /\ record'.cycle_valid /\ Events => seam.stable /\ 0 \notin seam.ovf
    BY <1>23 DEF CloseWindow, NoRecord, CycleOverflow
  <2> QED BY <1>23, <2>1 DEF CloseWindow, ReadingInv
<1> QED BY <1>1, <1>2, <1>3, <1>4, <1>5, <1>6, <1>7, <1>8, <1>9, <1>10, <1>11, <1>12, <1>13,
           <1>14, <1>15, <1>16, <1>17, <1>18, <1>19, <1>20, <1>21, <1>22, <1>23 DEF Next

\* A valid cycle count in a record is the number of cycles since this run's
\* reset, at one moment, for counters of any width (npu_pmu.c:118-149).
THEOREM WholeCycles == Spec => []CyclesAreWhole
<1>1. ReadingInv => CyclesAreWhole
  BY DEF ReadingInv
<1> QED BY <1>1, Types, ReadingInit, ReadingStep, PTL DEF Spec

-----------------------------------------------------------------------------
LEMMA CoveredInit == Init => CoveredInv
BY DEF Init, CoveredInv, AfterQread, NoRecord

\* Each action keeps CoveredInv.
LEMMA CoveredStep == ASSUME WindowTypes, CoveredInv, [Next]_vars PROVE CoveredInv'
<1> USE DEF pmuVars, npuVars, runVars, history, Thread, Events, AfterQread
<1>1. CASE UNCHANGED vars
  BY <1>1 DEF CoveredInv, vars
<1>2. CASE Tick
  BY <1>2 DEF Tick, CoveredInv
<1>3. CASE JobEnds
  BY <1>3 DEF JobEnds, CoveredInv
<1>4. CASE Configure
  BY <1>4 DEF Configure, CoveredInv, NoRecord
<1>5. CASE ResetRunner
  BY <1>5 DEF ResetRunner, CoveredInv, NoRecord
<1>6. CASE OpenWindow
  BY <1>6 DEF OpenWindow, CoveredInv, NoRecord
<1>7. CASE HoldPower
  BY <1>7 DEF HoldPower, CoveredInv
<1>8. CASE ResetCounters
  BY <1>8 DEF ResetCounters, CoveredInv
<1>9. CASE ArmCounters
  BY <1>9 DEF ArmCounters, CoveredInv
<1>10. CASE SelectEvent
  BY <1>10 DEF SelectEvent, CoveredInv
<1>11. CASE EnableCounters
  BY <1>11 DEF EnableCounters, CoveredInv
<1>12. CASE RefuseWorkload
  BY <1>12 DEF RefuseWorkload, RC_REFUSED, CoveredInv, WindowTypes, RcType
<1>13. CASE StartJob
  BY <1>13 DEF StartJob, CoveredInv, WindowTypes
<1>14. CASE EndWait
  BY <1>14 DEF EndWait, CoveredInv
<1>15. CASE ReadQread
  <2>1. rc'.queue = 0 => qread
    BY <1>15 DEF ReadQread, QueueRc, WindowTypes, RcType
  <2>2. /\ pc = "woken" /\ pc' \in {"cycle_hi", "sampled"}
        /\ UNCHANGED <<npu, npu_irq, qread, record, abandoned>>
    BY <1>15 DEF ReadQread
  <2>3. busy' => npu = "busy"
    BY <1>15, Zenon DEF ReadQread
  <2>4. rc'.queue = 0 => ~busy'
    BY <2>1, <2>3 DEF CoveredInv
  <2>5. ~abandoned => ~busy' /\ npu = "idle" /\ ~npu_irq
    BY <2>2, <2>3 DEF CoveredInv
  <2> QED BY <2>2, <2>4, <2>5 DEF CoveredInv
<1>16. CASE ReadHi
  BY <1>16 DEF ReadHi, SeamOnly, CoveredInv
<1>17. CASE ReadLo
  BY <1>17 DEF ReadLo, SeamOnly, CoveredInv
<1>18. CASE ReadHiAgain
  BY <1>18 DEF ReadHiAgain, SeamOnly, CoveredInv
<1>19. CASE ReadOverflow
  BY <1>19 DEF ReadOverflow, SeamOnly, CoveredInv
<1>20. CASE ReadEvent
  BY <1>20 DEF ReadEvent, SeamOnly, CoveredInv
<1>21. CASE ReadStatus
  BY <1>21 DEF ReadStatus, SeamOnly, CoveredInv
<1>22. CASE EndDriver
  <2>1. rc'.run = 0 => rc.queue = 0
    BY <1>22 DEF EndDriver, RC_KNOB, WindowTypes, RcType
  <2> QED BY <1>22, <2>1 DEF EndDriver, CoveredInv
<1>23. CASE CloseWindow
  <2>1. record'.rc = rc /\ record'.busy = busy /\ record'.late = abandoned
    BY <1>23 DEF CloseWindow, NoRecord
  <2> QED BY <1>23, <2>1 DEF CloseWindow, CoveredInv
<1> QED BY <1>1, <1>2, <1>3, <1>4, <1>5, <1>6, <1>7, <1>8, <1>9, <1>10, <1>11, <1>12, <1>13,
           <1>14, <1>15, <1>16, <1>17, <1>18, <1>19, <1>20, <1>21, <1>22, <1>23 DEF Next

\* No job is at work when the counters of a run the host counts as exact are
\* read; nor of one it counts as complete only, unless a wait has been given up
\* (pmu_events_parse.py:43-70, u85.c:117-127).
THEOREM JobIsCovered == Spec => []AcceptedCoversJob
<1>1. CoveredInv => AcceptedCoversJob
  BY DEF CoveredInv, AcceptedCoversJob, run_validity
<1> QED BY <1>1, Types, CoveredInit, CoveredStep, PTL DEF Spec

-----------------------------------------------------------------------------
LEMMA OwnInit == Init => OwnInv
<1> SUFFICES ASSUME Init PROVE OwnInv
  OBVIOUS
<1>1. EvWrap \in Nat /\ EvWrap > 0
  BY WindowAssumption
<1>2. record.fired = 0
  BY DEF Init, NoRecord
<1>3. EventsAreOwn
  BY <1>2 DEF EventsAreOwn, run_validity
<1> QED BY <1>1, <1>3 DEF Init, OwnInv, AfterArm, AfterQread, BeforeSample, SampleTaken, Zeros

\* A tick adds to a slot's counter and to its own events alike, or leaves its
\* overflow on record.
LEMMA TickOwn ==
  ASSUME WindowTypes, OwnInv, Tick,
         NEW s \in Used, Events, evtyper[s] = instr_cfg.codes[s], evcnt[s] = own[s]
  PROVE  /\ s \in ovs' \/ evcnt'[s] = own'[s]
         /\ npu = "idle" /\ instr_cfg.codes[s] \notin ClockCodes => evcnt'[s] = own'[s]
<1> USE DEF WindowTypes
<1>1. EvWrap \in Nat \ {0} /\ s \in Slot /\ evcnt[s] \in Nat /\ evcnt[s] < EvWrap
  BY WindowAssumption DEF OwnInv
<1>2. evcnt[s] + 1 = EvWrap \/ (evcnt[s] + 1) % EvWrap = evcnt[s] + 1
  BY <1>1
<1>3. PICK work \in {FALSE, npu = "busy"} :
        LET fires(t) == Counting(t) /\ Happens(evtyper[t], work)
        IN /\ evcnt' = [t \in Slot |-> IF fires(t) THEN (evcnt[t] + 1) % EvWrap ELSE evcnt[t]]
           /\ ovs' = ovs \cup {t \in Slot : fires(t) /\ evcnt[t] + 1 = EvWrap}
                         \cup {t \in {0} : Counting(0) /\ lo + 1 = LoWrap /\ hi + 1 = HiWrap}
           /\ own' = [t \in Slot |-> IF Counting(t) /\ t \in Used /\ Happens(instr_cfg.codes[t], work)
                                       THEN own[t] + 1 ELSE own[t]]
  BY DEF Tick
<1> DEFINE fires == Counting(s) /\ Happens(instr_cfg.codes[s], work)
<1>4. /\ evcnt'[s] = IF fires THEN (evcnt[s] + 1) % EvWrap ELSE evcnt[s]
      /\ fires /\ evcnt[s] + 1 = EvWrap => s \in ovs'
      /\ own'[s] = IF fires THEN own[s] + 1 ELSE own[s]
  BY <1>1, <1>3
<1>5. npu = "idle" /\ instr_cfg.codes[s] \notin ClockCodes => ~fires
  BY DEF Happens
<1> QED
  <2> HIDE DEF fires
  <2> QED BY <1>2, <1>4, <1>5

\* Each action keeps OwnInv; ReadEvent fills the sample slot by slot.
LEMMA OwnStep == ASSUME WindowTypes, CoveredInv, OwnInv, [Next]_vars PROVE OwnInv'
<1> USE DEF pmuVars, npuVars, runVars, history, Thread, Events, AfterQread, AfterArm,
            BeforeSample, SampleTaken
<1>1. CASE UNCHANGED vars
  BY <1>1 DEF OwnInv, vars, Kept, EventsSampled, Used, EventsAreOwn, run_validity, Mask
<1>2. CASE Tick
  <2>1. UNCHANGED <<pc, npu, seam, instr_cfg, record, prior, busy, evtyper>> /\ ovs \subseteq ovs'
    BY <1>2 DEF Tick
  <2>2. UNCHANGED <<Used, EventsAreOwn, EventsSampled>> /\ \A s : Kept(s)' = Kept(s)
    BY <2>1 DEF Used, EventsAreOwn, EventsSampled, Kept, run_validity, Mask
  <2>3. \A s \in Slot : evcnt'[s] < EvWrap
    <3>1. EvWrap \in Nat \ {0}
      BY WindowAssumption
    <3>2. \A n \in Nat : (n + 1) % EvWrap < EvWrap
      BY <3>1
    <3>3. PICK F : evcnt' = [s \in Slot |-> IF F[s] THEN (evcnt[s] + 1) % EvWrap ELSE evcnt[s]]
      <4>1. PICK work \in {FALSE, npu = "busy"} :
              evcnt' = [s \in Slot |-> IF Counting(s) /\ Happens(evtyper[s], work)
                                          THEN (evcnt[s] + 1) % EvWrap ELSE evcnt[s]]
        BY <1>2 DEF Tick
      <4> WITNESS [s \in Slot |-> Counting(s) /\ Happens(evtyper[s], work)]
      <4> QED BY <4>1
    <3> QED BY <3>2, <3>3 DEF OwnInv, WindowTypes
  <2>4. Events /\ pc = "reset" => evcnt' = Zeros /\ cnten' = {}
    BY <1>2 DEF Tick, Counting, Zeros, OwnInv
  <2>5. Events /\ pc \in AfterArm =>
          \A s \in Used : prior[s] = instr_cfg.codes[s] =>
            evtyper[s] = instr_cfg.codes[s] /\ (s \in ovs' \/ evcnt'[s] = own'[s])
    BY <1>2, <2>1, TickOwn DEF OwnInv
  <2>6. Events /\ pc = "events" /\ ~busy =>
          \A s \in Slot : Kept(s) => s \in seam.ovf \/ evcnt'[s] = own'[s]
    <3> SUFFICES ASSUME Events, pc = "events", ~busy, NEW s \in Slot, Kept(s), s \notin seam.ovf
                 PROVE  evcnt'[s] = own'[s]
      OBVIOUS
    <3>1. npu = "idle" /\ evcnt[s] = own[s] /\ evtyper[s] = instr_cfg.codes[s]
      BY DEF OwnInv, Kept
    <3> QED BY <1>2, <3>1, TickOwn DEF Kept
  <2> QED BY <2>1, <2>2, <2>3, <2>4, <2>5, <2>6 DEF OwnInv
<1>3. CASE JobEnds
  BY <1>3 DEF JobEnds, OwnInv, Kept, EventsSampled, Used, EventsAreOwn, run_validity, Mask
<1>4. CASE Configure
  <2>1. record'.fired = 0
    BY <1>4 DEF Configure, NoRecord
  <2>2. EventsAreOwn'
    BY <2>1 DEF EventsAreOwn, run_validity
  <2> QED BY <1>4, <2>2 DEF Configure, OwnInv
<1>5. CASE ResetRunner
  <2>1. record'.fired = 0
    BY <1>5 DEF ResetRunner, NoRecord
  <2>2. EventsAreOwn'
    BY <2>1 DEF EventsAreOwn, run_validity
  <2> QED BY <1>5, <2>2 DEF ResetRunner, OwnInv
<1>6. CASE OpenWindow
  <2>1. record'.fired = 0 /\ seam'.ev = seam'.own
    BY <1>6 DEF OpenWindow, NoRecord, NoSeam
  <2>2. EventsAreOwn'
    BY <2>1 DEF EventsAreOwn, run_validity
  <2> QED BY <1>6, <2>1, <2>2 DEF OpenWindow, OwnInv
<1> USE DEF OwnInv, Kept, EventsSampled, Used, EventsAreOwn, run_validity, Mask
<1>7. CASE HoldPower
  BY <1>7 DEF HoldPower
<1>8. CASE ResetCounters
  <2>1. EvWrap \in Nat \ {0}
    BY WindowAssumption
  <2> QED BY <1>8, <2>1 DEF ResetCounters, ResetBits, Zeros
<1>9. CASE ArmCounters
  BY <1>9 DEF ArmCounters, Zeros, WindowTypes
<1>10. CASE SelectEvent
  BY <1>10 DEF SelectEvent, WindowTypes
<1>11. CASE EnableCounters
  BY <1>11 DEF EnableCounters
<1>12. CASE RefuseWorkload
  BY <1>12 DEF RefuseWorkload
<1>13. CASE StartJob
  BY <1>13 DEF StartJob
<1>14. CASE EndWait
  BY <1>14 DEF EndWait
<1>15. CASE ReadQread
  BY <1>15 DEF ReadQread, WindowTypes
<1>16. CASE ReadHi
  BY <1>16 DEF ReadHi, SeamOnly
<1>17. CASE ReadLo
  BY <1>17 DEF ReadLo, SeamOnly, WindowTypes, SeamType
<1>18. CASE ReadHiAgain
  BY <1>18 DEF ReadHiAgain, SeamOnly, WindowTypes, SeamType
<1>19. CASE ReadOverflow
  BY <1>19 DEF ReadOverflow, SeamOnly, WindowTypes, SeamType
<1>20. CASE ReadEvent
  <2>1. /\ pc = "events" /\ pc' \in {"events", "status"}
        /\ UNCHANGED <<instr_cfg, prior, own, busy, npu, record, evtyper, evcnt, ovs, cnten>>
    BY <1>20 DEF ReadEvent, SeamOnly
  <2>2. \/ seam' = seam
        \/ slot \in Slot /\ seam' = [seam EXCEPT !.ev[slot] = evcnt[slot], !.own[slot] = own[slot]]
    BY <1>20 DEF ReadEvent, WindowTypes
  <2>3. /\ seam'.ovf = seam.ovf
        /\ \A s \in Slot : \/ seam'.ev[s] = seam.ev[s] /\ seam'.own[s] = seam.own[s]
                           \/ seam'.ev[s] = evcnt[s] /\ seam'.own[s] = own[s]
    <3>1. CASE seam' = seam
      BY <3>1
    <3>2. CASE slot \in Slot /\ seam' = [seam EXCEPT !.ev[slot] = evcnt[slot], !.own[slot] = own[slot]]
      <4>1. /\ seam'.ovf = seam.ovf
            /\ seam'.ev = [seam.ev EXCEPT ![slot] = evcnt[slot]]
            /\ seam'.own = [seam.own EXCEPT ![slot] = own[slot]]
        BY <3>2 DEF WindowTypes, SeamType
      <4>2. seam.ev \in [Slot -> Nat] /\ seam.own \in [Slot -> Nat]
        BY DEF WindowTypes, SeamType
      <4> QED BY <4>1, <4>2
    <3> QED BY <2>2, <3>1, <3>2
  <2>4. Events /\ ~busy => EventsSampled'
    BY <2>1, <2>3
  <2> QED BY <2>1, <2>3, <2>4
<1>21. CASE ReadStatus
  BY <1>21 DEF ReadStatus, SeamOnly, WindowTypes, SeamType
<1>22. CASE EndDriver
  BY <1>22 DEF EndDriver
<1>23. CASE CloseWindow
  <2>1. /\ record'.mode = instr_cfg.mode /\ record'.codes = instr_cfg.codes
        /\ record'.seam = seam /\ record'.prior = prior /\ record'.rc = rc
        /\ Events => record'.valid = Used \ seam.ovf
    BY <1>23 DEF CloseWindow, NoRecord, EventValidMask
  <2>2. rc.run = 0 => ~busy
    BY <1>23 DEF CloseWindow, CoveredInv
  <2>3. EventsAreOwn'
    <3> SUFFICES ASSUME run_validity("exact")', NEW s \in Mask',
                        instr_cfg.codes[s] \notin ClockCodes, prior[s] = instr_cfg.codes[s]
                 PROVE  seam.ev[s] = seam.own[s]
      BY <2>1
    <3>1. Events /\ ~busy /\ s \in Used \ seam.ovf
      BY <2>1, <2>2
    <3> QED BY <1>23, <3>1 DEF CloseWindow, WindowTypes
  <2> QED BY <1>23, <2>3 DEF CloseWindow
<1> QED BY <1>1, <1>2, <1>3, <1>4, <1>5, <1>6, <1>7, <1>8, <1>9, <1>10, <1>11, <1>12, <1>13,
           <1>14, <1>15, <1>16, <1>17, <1>18, <1>19, <1>20, <1>21, <1>22, <1>23 DEF Next

\* What a run the host counts as exact reports of an event of the job is how often
\* it came in that run, for a slot that had been selected for it before; with any
\* slots and counters of any width (measure.c:588-596, io_wrap.c:29-33).
THEOREM EventsCountOwn == Spec => []EventsAreOwn
<1>1. OwnInv => EventsAreOwn
  BY DEF OwnInv
<1> QED BY <1>1, Types, CoveredInit, CoveredStep, OwnInit, OwnStep, PTL DEF Spec
=============================================================================
