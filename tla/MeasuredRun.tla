---------------------------- MODULE MeasuredRun ----------------------------
(***************************************************************************)
(* One measured inference (firmware/runner/measure.c handle_run, pmwl.c    *)
(* __wrap_test_u85), the result and measurement it leaves behind, and the  *)
(* commands that read or configure them (proto.c handle_get_result,        *)
(* measure.c).                                                             *)
(*                                                                         *)
(* handle_run is cut where the NPU or an interrupt can intervene; run_pc   *)
(* goes parser, accepted, open, prepared, waiting, woken, read, stopped,   *)
(* verified, returned, closed and back to parser.                          *)
(***************************************************************************)
EXTENDS ModelUpload, VendorDriver

CONSTANTS
  Workloads,      \* images whose header __wrap_test_u85 accepts
  SramWorkloads,  \* those that keep their tensors in staging, behind the image
  ZeroPower,      \* those that ask for POWER_CTRL = 0
  EventSets,      \* event_set_id values a host uses
  EffectiveSlots, \* pmu_effective_event_slots()
  MaxRuns,        \* bound on run_sequence_counter
  MaxConfigs      \* bound on configuration_sequence

ASSUME RunAssumption ==
  /\ Workloads \subseteq Image
  /\ SramWorkloads \subseteq Workloads
  /\ ZeroPower \subseteq Workloads
  /\ EventSets \subseteq Nat
  /\ 0 \in EventSets
  /\ EffectiveSlots \in Nat
  /\ MaxRuns \in Nat
  /\ MaxConfigs \in Nat

VARIABLES
  run_sequence_counter,    \* runs accepted since power-up
  last_run_sequence,       \* the run accepted last
  last_run_completed,      \* the latch GET_RESULT reads, with the next five
  last_completed_sequence,
  last_valid_flags,
  last_poison_crc,
  last_output_crc,
  run_rc,                  \* what run_fixed_inference returned
  last_measurement,        \* the record GET_MEASUREMENT serves
  region,                  \* the result region of .sec_noinit
  original_u85_handler,    \* the vector the wrapper replaced, or "none"
  instr_cfg,               \* the instrumentation asked for
  run_cfg,                 \* handle_run's copy of it
  run_frame                \* the sequence number of the RUN command

latchVars ==
  <<last_run_sequence, last_run_completed, last_completed_sequence,
    last_valid_flags, last_poison_crc, last_output_crc, run_rc>>
runVars ==
  <<run_sequence_counter, latchVars, last_measurement, region,
    original_u85_handler, instr_cfg, run_cfg, run_frame>>

Modes == {"OFF", "END_ONLY", "EVENTS"}
Flags == {"COMPLETED", "RC_OK", "CHANGED", "WINDOW"}

RC_REFUSED == 126 \* PMWL_REFUSED
RC_KNOB    == 125 \* PMWL_KNOB_NOT_HONOURED

Config == [mode : Modes, event_set_id : EventSets,
           event_count : 0 .. EffectiveSlots, seq : Nat]

NoConfig == [mode |-> "OFF", event_set_id |-> 0, event_count |-> 0, seq |-> 0]

NoMeasurement == [valid |-> FALSE, run |-> 0, rc |-> 0, flags |-> {},
                  cfg |-> NoConfig, hijack_survived |-> FALSE]

StagedImage == Digest(staging, model_total_length)

\* A job that was given up has no tensors in staging, where an image uploaded
\* since may lie.
GivenUpWritesNothing == LateCompletion => SramWorkloads = {}

-----------------------------------------------------------------------------
(* handle_run up to the window.                                            *)

\* Mutant: the previous run's latch stays until this run has one of its own.
InvalidateResult_Omitted ==
  UNCHANGED <<last_run_completed, last_completed_sequence, last_valid_flags>>

InvalidateResult ==
  /\ last_run_completed' = FALSE
  /\ last_completed_sequence' = 0
  /\ last_valid_flags' = {}

\* Invalidate, number the run, poison the region, acknowledge; only then is
\* the UART closed.
AcceptRun(q) ==
  /\ Dispatch("RUN")
  /\ run_sequence_counter < MaxRuns
  /\ InvalidateResult
  /\ run_sequence_counter' = run_sequence_counter + 1
  /\ last_run_sequence' = run_sequence_counter'
  /\ region' = Poison(last_run_sequence')
  /\ run_frame' = q
  /\ runner_state' = "RUNNING"
  /\ Transmit(Ack("RUN", q, 0))
  /\ uart_tx_forbidden' = TRUE
  /\ run_pc' = "accepted"
  /\ UNCHANGED <<measurement_active, last_poison_crc, last_output_crc, run_rc,
                 last_measurement, original_u85_handler, instr_cfg, run_cfg>>
  /\ UNCHANGED <<uploadVars, vendorVars>>

\* Install the wrapper (never over itself), open the window, copy the
\* configuration.
OpenWindow ==
  /\ run_pc = "accepted"
  /\ run_pc' = "open"
  /\ original_u85_handler' =
       IF npu_vector = "wrapper" THEN original_u85_handler ELSE npu_vector
  /\ npu_vector' = "wrapper"
  /\ measurement_active' = TRUE
  /\ run_cfg' = instr_cfg
  /\ Silent
  /\ UNCHANGED <<runner_state, uart_tx_forbidden, run_sequence_counter,
                 latchVars, last_measurement, region, instr_cfg, run_frame>>
  /\ UNCHANGED <<uploadVars, boots, driverVars, deviceVars, knobs_honoured>>

-----------------------------------------------------------------------------
(* Inside the window: __wrap_test_u85 around test_u85.                     *)
InWindow(from, to) ==
  /\ run_pc = from
  /\ run_pc' = to
  /\ Silent
  /\ UNCHANGED <<runner_state, measurement_active, uart_tx_forbidden>>

\* Mutant: SRAM-port tensors are laid out from the start of staging.
ArenaWrite_OverImage(b) == [i \in Offset |-> b]

ArenaWrite(b) == BehindImage(b)

\* Fill every output tensor with 0xA5, copy every input: into DRAM, or into
\* staging behind the image.
PrepareWorkload ==
  /\ InWindow("open", "prepared")
  /\ StagedImage \in Workloads
  /\ \/ StagedImage \in SramWorkloads /\ \E b \in Byte : staging' = ArenaWrite(b)
     \/ StagedImage \notin SramWorkloads /\ UNCHANGED staging
  /\ ofm' = Fill
  /\ UNCHANGED <<contextVars, boots, driverVars, npu_vector, npu, npu_irq,
                 npu_qread, knobs_honoured, runVars>>

\* A header the loader does not accept.  A timing-adapter profile it does not
\* know is only found after the fill and the copies.
RefuseWorkload ==
  /\ InWindow("open", "returned")
  /\ StagedImage \notin Workloads
  /\ run_rc' = RC_REFUSED
  /\ \/ UNCHANGED <<ofm, staging>>
     \/ ofm' = Fill /\ UNCHANGED staging
     \/ ofm' = Fill /\ \E b \in Byte : staging' = ArenaWrite(b)
  /\ UNCHANGED <<contextVars, boots, driverVars, npu_vector, npu, npu_irq,
                 npu_qread, knobs_honoured>>
  /\ UNCHANGED <<run_sequence_counter, last_run_sequence, last_run_completed,
                 last_completed_sequence, last_valid_flags, last_poison_crc,
                 last_output_crc, last_measurement, region,
                 original_u85_handler, instr_cfg, run_cfg, run_frame>>

\* What the NPU does to staging until its job's last step: a workload that has
\* its arena or fast scratch there is written behind the image the job was
\* submitted with, whatever has been staged since.
JobWrites ==
  \/ UNCHANGED staging
  \/ /\ npu.image \in SramWorkloads
     /\ staging' \in {s \in [Offset -> Byte] :
                        \A i \in Offset : i < Len(npu.image) => s[i] = staging[i]}

\* memcmp against the reference output the image carries: the output of that
\* very image matches.  Of an image that was damaged in staging since its CRC
\* was checked, the reference may be whole or not.
OutputMatches ==
  IF StagedImage = model_expected_crc
    THEN {ofm.by = "good" /\ ofm.image = StagedImage}
    ELSE BOOLEAN

\* test_u85 on the staged image.
DriverRun ==
  /\ \/ Start(last_run_sequence, StagedImage)
     \/ WakeByIrq
     \/ GiveUp
     \/ ReadQread
     \/ StopNpu
     \/ \E matches \in OutputMatches : VerifyOutput(matches)
  /\ UNCHANGED <<uploadVars, runVars>>

\* The read seam samples POWER_CTRL in EVENTS mode only; in the other modes
\* what the check sees is the zero the window opened with.
KnobBad ==
  \/ ~knobs_honoured
  \/ run_cfg.mode # "EVENTS" /\ StagedImage \notin ZeroPower

\* Copy the output tensor to the result region, whatever it holds.
ReturnOutput ==
  /\ InWindow("verified", "returned")
  /\ region' = ofm
  /\ run_rc' = IF KnobBad THEN RC_KNOB ELSE ret_code
  /\ UNCHANGED <<uploadVars, vendorVars>>
  /\ UNCHANGED <<run_sequence_counter, last_run_sequence, last_run_completed,
                 last_completed_sequence, last_valid_flags, last_poison_crc,
                 last_output_crc, last_measurement, original_u85_handler,
                 instr_cfg, run_cfg, run_frame>>

-----------------------------------------------------------------------------
(* handle_run from the close of the window.                                *)

\* timed: the timestamp source was live and the window not empty.
RunFlags(timed) ==
  {"COMPLETED"}
  \cup (IF run_rc = 0 THEN {"RC_OK"} ELSE {})
  \cup (IF ~SameBytes(region, Poison(last_run_sequence)) THEN {"CHANGED"}
        ELSE {})
  \cup (IF timed THEN {"WINDOW"} ELSE {})

\* Mutant: the vendor's handler stays installed after the run.
RestoreVector_Omitted == UNCHANGED npu_vector

RestoreVector ==
  npu_vector' = IF original_u85_handler = "none" THEN npu_vector
                ELSE original_u85_handler

\* Mutant: the UART is reopened only after RUN_COMPLETE was handed to it.
ReopenUart_Late == UNCHANGED uart_tx_forbidden

ReopenUart == uart_tx_forbidden' = FALSE

CloseWindow(timed) ==
  /\ run_pc = "returned"
  /\ run_pc' = "closed"
  /\ measurement_active' = FALSE
  /\ RestoreVector
  /\ last_valid_flags' = RunFlags(timed)
  /\ last_poison_crc' = Poison(last_run_sequence)
  /\ last_output_crc' = region
  /\ last_measurement' =
       [valid |-> TRUE, run |-> last_run_sequence, rc |-> run_rc,
        flags |-> RunFlags(timed), cfg |-> run_cfg,
        hijack_survived |-> npu_vector = "wrapper"]
  /\ last_completed_sequence' = last_run_sequence
  /\ last_run_completed' = TRUE
  /\ runner_state' = "RESULT_READY"
  /\ ReopenUart
  /\ Silent
  /\ UNCHANGED <<run_sequence_counter, last_run_sequence, run_rc, region,
                 original_u85_handler, instr_cfg, run_cfg, run_frame>>
  /\ UNCHANGED <<uploadVars, boots, driverVars, deviceVars, knobs_honoured>>

SendRunComplete ==
  /\ run_pc = "closed"
  /\ run_pc' = "parser"
  /\ Transmit(RunComplete(run_frame, last_run_sequence))
  /\ UNCHANGED <<runner_state, measurement_active, uart_tx_forbidden>>
  /\ UNCHANGED <<uploadVars, vendorVars, runVars>>

-----------------------------------------------------------------------------
(* Commands on what the last run left.                                     *)

\* Mutant: the request's run sequence is not compared, as in the 8-byte form.
ResultValid_AnyRun(n) ==
  /\ last_run_completed
  /\ run_rc = 0
  /\ Flags \subseteq last_valid_flags
  /\ ~SameBytes(last_output_crc, last_poison_crc)

\* The five conditions of GET_RESULT on run n.
ResultValid(n) ==
  /\ last_run_completed
  /\ n = last_completed_sequence
  /\ run_rc = 0
  /\ Flags \subseteq last_valid_flags
  /\ ~SameBytes(last_output_crc, last_poison_crc)

GetResult(q, n, inside) ==
  /\ Dispatch("GET_RESULT")
  /\ \/ /\ ResultValid(n) /\ inside
        /\ Answer(AckOf("GET_RESULT", q, n, region))
     \/ /\ ~ResultValid(n)
        /\ Answer(Nack("GET_RESULT", q, "RESULT_NOT_VALID"))
     \/ /\ ResultValid(n) /\ ~inside
        /\ Answer(Nack("GET_RESULT", q, "RANGE"))
  /\ UNCHANGED <<uploadVars, vendorVars, runVars>>

GetMeasurement(q) ==
  /\ Dispatch("GET_MEASUREMENT")
  /\ \/ /\ last_measurement.valid
        /\ Answer(Ack("GET_MEASUREMENT", q, last_measurement.run))
     \/ /\ ~last_measurement.valid
        /\ Answer(Nack("GET_MEASUREMENT", q, "NO_MEASUREMENT"))
  /\ UNCHANGED <<uploadVars, vendorVars, runVars>>

\* Refused, in the order of the checks: a mode this image has not, more
\* counters than the device, counters in a mode that arms none.
ModeRefusal(mode, count) ==
  CASE mode \notin Modes -> "UNSUPPORTED"
    [] mode \in Modes /\ count > EffectiveSlots -> "RANGE"
    [] mode \in Modes \ {"EVENTS"} /\ count \in 1 .. EffectiveSlots ->
         "UNSUPPORTED"
    [] OTHER -> "NONE"

SetInstrumentationMode(q, mode, set, count) ==
  /\ Dispatch("SET_INSTRUMENTATION_MODE")
  /\ ModeRefusal(mode, count) = "NONE"
  /\ instr_cfg.seq < MaxConfigs
  /\ instr_cfg' = [mode |-> mode, event_set_id |-> set, event_count |-> count,
                   seq |-> instr_cfg.seq + 1]
  /\ Answer(Ack("SET_INSTRUMENTATION_MODE", q, instr_cfg'.seq))
  /\ UNCHANGED <<uploadVars, vendorVars, run_sequence_counter, latchVars,
                 last_measurement, region, original_u85_handler, run_cfg,
                 run_frame>>

RefuseMode(q, mode, count) ==
  /\ Dispatch("SET_INSTRUMENTATION_MODE")
  /\ ModeRefusal(mode, count) # "NONE"
  /\ Answer(Nack("SET_INSTRUMENTATION_MODE", q, ModeRefusal(mode, count)))
  /\ UNCHANGED <<uploadVars, vendorVars, runVars>>

\* The part of runner_reset_context that is about runs.
ClearLatch ==
  /\ last_run_sequence' = 0
  /\ last_run_completed' = FALSE
  /\ last_completed_sequence' = 0
  /\ last_valid_flags' = {}
  /\ last_poison_crc' = Unknown
  /\ last_output_crc' = Unknown
  /\ run_rc' = 0

\* Mutant: RESET restarts the run numbers with everything else.
CounterAfterReset_Zero == 0

CounterAfterReset == run_sequence_counter

\* The instrumentation returns to OFF with no counters; the event set id, the
\* configuration sequence, the record and the run counter are kept.
ResetRunner(q) ==
  /\ Dispatch("RESET_RUNNER")
  /\ instr_cfg' = [instr_cfg EXCEPT !.mode = "OFF", !.event_count = 0]
  /\ ClearUpload
  /\ ClearLatch
  /\ run_sequence_counter' = CounterAfterReset
  /\ Enter("IDLE", Ack("RESET_RUNNER", q, 0))
  /\ UNCHANGED <<staging, vendorVars, last_measurement, region,
                 original_u85_handler, run_cfg, run_frame>>

RunInit ==
  /\ run_sequence_counter = 0
  /\ last_run_sequence = 0
  /\ last_run_completed = FALSE
  /\ last_completed_sequence = 0
  /\ last_valid_flags = {}
  /\ last_poison_crc = Unknown
  /\ last_output_crc = Unknown
  /\ run_rc = 0
  /\ last_measurement = NoMeasurement
  /\ region = Unknown
  /\ original_u85_handler = "none"
  /\ instr_cfg = NoConfig
  /\ run_cfg = NoConfig
  /\ run_frame = 0

Measurement ==
  [valid : BOOLEAN, run : Nat, rc : Nat, flags : SUBSET Flags, cfg : Config,
   hijack_survived : BOOLEAN]

RunTypeOK ==
  /\ run_sequence_counter \in Nat
  /\ last_run_sequence \in Nat
  /\ last_run_completed \in BOOLEAN
  /\ last_completed_sequence \in Nat
  /\ last_valid_flags \in SUBSET Flags
  /\ last_poison_crc \in Content(Image)
  /\ last_output_crc \in Content(Image)
  /\ run_rc \in Nat
  /\ last_measurement \in Measurement
  /\ region \in Content(Image)
  /\ original_u85_handler \in Handlers \cup {"none"}
  /\ instr_cfg \in Config
  /\ run_cfg \in Config
  /\ run_frame \in Nat
=============================================================================
