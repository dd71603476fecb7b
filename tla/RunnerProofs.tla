---------------------------- MODULE RunnerProofs ----------------------------
(***************************************************************************)
(* The types and the safety of Runner for every value of its constants.    *)
(* Three inductive invariants, each resting on the one before: where the   *)
(* thread is fixes the protocol state, the UART and the vector; the staged *)
(* image; and, when no job ends after it was given up, whose output is     *)
(* where.                                                                  *)
(***************************************************************************)
EXTENDS Runner, TLAPS

-----------------------------------------------------------------------------
(* Types of what the operators build.                                      *)

\* A content nobody in particular wrote is a content.
LEMMA BlankType ==
  ASSUME NEW who \in {"unknown", "poison", "fill"}, NEW n \in Nat
  PROVE  Blank(who, n) \in Content(Image)
BY DEF Blank, Content, Image

\* An acknowledgement carrying data is a frame.
LEMMA AckOfType ==
  ASSUME NEW c \in Commands, NEW q \in Nat, NEW n \in Nat,
         NEW d \in Content(Image)
  PROVE  AckOf(c, q, n, d) \in Frame(Image)
BY DEF AckOf, Frame, Errors

\* An acknowledgement of any command is a frame.
LEMMA AckType ==
  ASSUME NEW c \in Commands, NEW q \in Nat, NEW n \in Nat
  PROVE  Ack(c, q, n) \in Frame(Image)
BY BlankType, AckOfType DEF Ack, Unknown

\* A refusal of any command, or of none that parses, is a frame.
LEMMA NackType ==
  ASSUME NEW c \in Commands \cup {"UNKNOWN"}, NEW q \in Nat, NEW e \in Errors
  PROVE  Nack(c, q, e) \in Frame(Image)
BY BlankType DEF Nack, Frame, Unknown

\* No frame, and RUN_COMPLETE, are frames.
LEMMA OtherFrameTypes ==
  /\ NoFrame \in Frame(Image)
  /\ \A q, n \in Nat : RunComplete(q, n) \in Frame(Image)
BY BlankType DEF NoFrame, RunComplete, Frame, Unknown, Errors, Commands

\* The CRC over a prefix of staging is an image.
LEMMA DigestType ==
  ASSUME NEW mem \in [Offset -> Byte], NEW n \in 0 .. StagingSize
  PROVE  Digest(mem, n) \in Image
<1>1. \A i \in 1 .. n : i - 1 \in Offset
  BY StagingAssumption DEF Offset
<1>2. Digest(mem, n) \in [1 .. n -> Byte]
  BY <1>1 DEF Digest
<1> QED
  BY <1>2 DEF Image

-----------------------------------------------------------------------------
(* Types of the shared steps: what a handler does to the protocol, and     *)
(* what clears the upload and the latch.                                   *)

\* A handler that only answers keeps the protocol variables typed.
LEMMA AnswerType ==
  ASSUME ProtocolTypeOK(Image), NEW f \in Frame(Image), Answer(f)
  PROVE  ProtocolTypeOK(Image)'
BY OtherFrameTypes DEF Answer, Transmit, ProtocolTypeOK

\* A handler that answers from a new state keeps them typed.
LEMMA EnterType ==
  ASSUME ProtocolTypeOK(Image), NEW f \in Frame(Image), NEW s \in States,
         Enter(s, f)
  PROVE  ProtocolTypeOK(Image)'
BY OtherFrameTypes DEF Enter, Transmit, ProtocolTypeOK

\* A step of the thread that sends nothing keeps them typed.
LEMMA SilentType ==
  ASSUME ProtocolTypeOK(Image), Silent,
         run_pc' \in Pcs, runner_state' \in States,
         measurement_active' \in BOOLEAN, uart_tx_forbidden' \in BOOLEAN
  PROVE  ProtocolTypeOK(Image)'
BY OtherFrameTypes DEF Silent, ProtocolTypeOK

\* The configuration of a fresh boot is a configuration.
LEMMA NoConfigType == NoConfig \in Config
BY RunAssumption DEF NoConfig, Config, Modes

\* Clearing the upload leaves it typed, whatever staging holds.
LEMMA ClearUploadType ==
  ASSUME ClearUpload, staging' \in [Offset -> Byte]
  PROVE  UploadTypeOK'
BY StagingAssumption DEF ClearUpload, UploadTypeOK, NoChunk, Image

\* A step that leaves the upload alone leaves it typed.
LEMMA SameUploadType ==
  ASSUME UploadTypeOK, UNCHANGED uploadVars
  PROVE  UploadTypeOK'
BY DEF UploadTypeOK, uploadVars, contextVars

\* A step that leaves driver and device alone leaves them typed.
LEMMA SameVendorType ==
  ASSUME VendorTypeOK(Image), UNCHANGED vendorVars
  PROVE  VendorTypeOK(Image)'
BY DEF VendorTypeOK, vendorVars, driverVars, deviceVars

\* A step that leaves the run alone leaves it typed.
LEMMA SameRunType ==
  ASSUME RunTypeOK, UNCHANGED runVars
  PROVE  RunTypeOK'
BY DEF RunTypeOK, runVars, latchVars

-----------------------------------------------------------------------------
(* The commands.                                                           *)

\* Refusals and status commands keep every variable typed.
LEMMA AnyCommandType ==
  ASSUME TypeOK, NEW q \in Seqs, AnyCommand(q)
  PROVE  TypeOK'
<1>1. q \in Nat
  BY HostAssumption
<1>2. UploadTypeOK' /\ VendorTypeOK(Image)' /\ RunTypeOK'
  BY SameUploadType, SameVendorType, SameRunType DEF TypeOK, AnyCommand
<1>3. ProtocolTypeOK(Image)'
  <2>1. CASE RefuseFrame(q)
    BY <1>1, <2>1, NackType, AnswerType DEF RefuseFrame, TypeOK, Errors
  <2>2. ASSUME NEW c \in Sends, RefuseState(c, q)
        PROVE  ProtocolTypeOK(Image)'
    BY <1>1, <2>2, NackType, AnswerType, HostAssumption
    DEF RefuseState, TypeOK, Errors
  <2>3. ASSUME NEW c \in Sends, RefusePayload(c, q)
        PROVE  ProtocolTypeOK(Image)'
    BY <1>1, <2>3, NackType, AnswerType, HostAssumption
    DEF RefusePayload, TypeOK, Errors
  <2>4. ASSUME NEW c \in Sends, AnswerStatus(c, q)
        PROVE  ProtocolTypeOK(Image)'
    BY <1>1, <2>4, AckType, AnswerType, HostAssumption
    DEF AnswerStatus, TypeOK
  <2> QED
    BY <2>1, <2>2, <2>3, <2>4 DEF AnyCommand
<1> QED
  BY <1>2, <1>3 DEF TypeOK

\* Staging after the memcpy of a chunk is still a memory of bytes.
LEMMA StagedType ==
  ASSUME UploadTypeOK, NEW off \in Nat, NEW data \in Image
  PROVE  Staged(off, data) \in [Offset -> Byte]
<1>1. ASSUME NEW i \in Offset, i \in off .. off + Len(data) - 1
      PROVE  data[i - off + 1] \in Byte
  <2>1. i - off + 1 \in 1 .. Len(data)
    BY <1>1, StagingAssumption DEF Offset, Image
  <2> QED
    BY <2>1 DEF Image
<1> QED
  BY <1>1 DEF Staged, UploadTypeOK

\* The upload commands keep every variable typed: LOAD_MODEL_BEGIN refuses a
\* length beyond the staging window.
LEMMA UploadCommandType ==
  ASSUME TypeOK, NEW q \in Seqs, UploadCommand(q)
  PROVE  TypeOK'
<1>1. q \in Nat
  BY HostAssumption
<1>2. VendorTypeOK(Image)' /\ RunTypeOK'
  BY SameVendorType, SameRunType DEF TypeOK, UploadCommand
<1>3. ASSUME NEW n \in 0 .. StagingSize + 1, NEW img \in Images,
             LoadModelBegin(q, n, img)
      PROVE  ProtocolTypeOK(Image)' /\ UploadTypeOK'
  <2>0. n \in Nat
    BY StagingAssumption
  <2>1. ProtocolTypeOK(Image)'
    BY <1>1, <1>3, <2>0, AckType, EnterType
    DEF LoadModelBegin, TypeOK, States, Commands
  <2>2. UploadTypeOK'
    BY <1>3, HostAssumption, StagingAssumption
    DEF LoadModelBegin, LengthFits, TypeOK, UploadTypeOK, NoChunk, Image
  <2> QED
    BY <2>1, <2>2
<1>4. ASSUME NEW n \in 0 .. StagingSize + 1, RefuseModelBegin(q, n)
      PROVE  ProtocolTypeOK(Image)' /\ UploadTypeOK'
  BY <1>1, <1>4, NackType, AnswerType, SameUploadType
  DEF RefuseModelBegin, TypeOK, Commands, Errors
<1>5. ASSUME NEW off \in 0 .. StagingSize, NEW data \in Chunks,
             StageChunk(q, off, data)
      PROVE  ProtocolTypeOK(Image)' /\ UploadTypeOK'
  <2>1. data \in Image /\ Len(data) \in Nat /\ off \in Nat
    BY HostAssumption, StagingAssumption DEF Image
  <2>2. UploadTypeOK'
    BY <1>1, <1>5, <2>1, StagedType DEF StageChunk, TypeOK, UploadTypeOK
  <2>3. ProtocolTypeOK(Image)'
    BY <1>1, <1>5, <2>2, AckType, AnswerType
    DEF StageChunk, TypeOK, UploadTypeOK, Commands
  <2> QED
    BY <2>2, <2>3
<1>6. ASSUME NEW off \in 0 .. StagingSize, NEW data \in Chunks,
             RefuseChunk(q, off, data)
      PROVE  ProtocolTypeOK(Image)' /\ UploadTypeOK'
  BY <1>1, <1>6, NackType, AnswerType, SameUploadType
  DEF RefuseChunk, TypeOK, Commands, Errors
<1>7. ASSUME NEW off \in 0 .. StagingSize, NEW data \in Chunks,
             RepeatChunk(q, off, data)
      PROVE  ProtocolTypeOK(Image)' /\ UploadTypeOK'
  <2>1. model_bytes_staged \in Nat
    BY DEF TypeOK, UploadTypeOK
  <2> QED
    BY <1>1, <1>7, <2>1, AckType, NackType, AnswerType, SameUploadType
    DEF RepeatChunk, TypeOK, Commands, Errors
<1>8. CASE LoadModelEnd(q)
  <2>1. model_total_length \in Nat
    BY StagingAssumption DEF TypeOK, UploadTypeOK
  <2>2. ProtocolTypeOK(Image)' /\ UploadTypeOK'
    BY <1>1, <1>8, <2>1, AckType, NackType, AnswerType, EnterType,
       SameUploadType
    DEF LoadModelEnd, TypeOK, Commands, Errors, States
  <2> QED
    BY <1>2, <2>2 DEF TypeOK
<1>9. CASE LoadInput(q)
  <2>1. ProtocolTypeOK(Image)' /\ UploadTypeOK'
    BY <1>1, <1>9, AckType, EnterType, SameUploadType
    DEF LoadInput, TypeOK, Commands, States
  <2> QED
    BY <1>2, <2>1 DEF TypeOK
<1> QED
  BY <1>2, <1>3, <1>4, <1>5, <1>6, <1>7, <1>8, <1>9
  DEF UploadCommand, TypeOK

\* The flags a run can earn are flags.
LEMMA RunFlagsType ==
  ASSUME NEW timed \in BOOLEAN
  PROVE  RunFlags(timed) \in SUBSET Flags
BY DEF RunFlags, Flags

\* RUN keeps every variable typed.
LEMMA AcceptRunType ==
  ASSUME TypeOK, NEW q \in Seqs, AcceptRun(q)
  PROVE  TypeOK'
<1>1. q \in Nat
  BY HostAssumption
<1>2. ProtocolTypeOK(Image)'
  <2>1. Ack("RUN", q, 0) \in Frame(Image)
    BY <1>1, AckType DEF Commands
  <2> QED
    BY <2>1, OtherFrameTypes
    DEF AcceptRun, Transmit, TypeOK, ProtocolTypeOK, Pcs, States
<1>3. RunTypeOK'
  <2>1. last_run_sequence' \in Nat
    BY DEF AcceptRun, TypeOK, RunTypeOK
  <2>2. region' \in Content(Image)
    BY <2>1, BlankType DEF AcceptRun, Poison
  <2> QED
    BY <1>1, <2>1, <2>2
    DEF AcceptRun, InvalidateResult, TypeOK, RunTypeOK
<1> QED
  BY <1>2, <1>3, SameUploadType, SameVendorType DEF AcceptRun, TypeOK

\* RUN, the commands that read a run, the mode change and RESET keep every
\* variable typed: a mode change refuses more counters than there are.
LEMMA RunCommandType ==
  ASSUME TypeOK, NEW q \in Seqs, RunCommand(q)
  PROVE  TypeOK'
<1>1. q \in Nat
  BY HostAssumption
<1>2. ASSUME NEW n \in 0 .. MaxRuns, NEW inside \in BOOLEAN,
             GetResult(q, n, inside)
      PROVE  TypeOK'
  <2>1. n \in Nat
    BY RunAssumption
  <2>2. region \in Content(Image)
    BY DEF TypeOK, RunTypeOK
  <2>3. ProtocolTypeOK(Image)'
    BY <1>1, <1>2, <2>1, <2>2, AckOfType, NackType, AnswerType
    DEF GetResult, TypeOK, Commands, Errors
  <2> QED
    BY <1>2, <2>3, SameUploadType, SameVendorType, SameRunType
    DEF GetResult, TypeOK
<1>3. CASE GetMeasurement(q)
  <2>1. last_measurement.run \in Nat
    BY DEF TypeOK, RunTypeOK, Measurement
  <2>2. ProtocolTypeOK(Image)'
    BY <1>1, <1>3, <2>1, AckType, NackType, AnswerType
    DEF GetMeasurement, TypeOK, Commands, Always, Errors
  <2> QED
    BY <1>3, <2>2, SameUploadType, SameVendorType, SameRunType
    DEF GetMeasurement, TypeOK
<1>4. ASSUME NEW mode \in Modes \cup {"PER_LAYER"}, NEW set \in EventSets,
             NEW count \in 0 .. EffectiveSlots + 1,
             SetInstrumentationMode(q, mode, set, count)
      PROVE  TypeOK'
  <2>1. instr_cfg' \in Config
    <3>1. mode \in Modes
      BY <1>4 DEF SetInstrumentationMode, ModeRefusal
    <3>2. count \in 0 .. EffectiveSlots
      <4>1. ~(count > EffectiveSlots)
        BY <1>4, <3>1 DEF SetInstrumentationMode, ModeRefusal
      <4> QED
        BY <4>1, RunAssumption
    <3>3. instr_cfg.seq + 1 \in Nat
      BY DEF TypeOK, RunTypeOK, Config
    <3> QED
      BY <1>4, <3>1, <3>2, <3>3 DEF SetInstrumentationMode, Config
  <2>2. ProtocolTypeOK(Image)'
    <3>1. instr_cfg'.seq \in Nat
      BY <2>1 DEF Config
    <3> QED
      BY <1>1, <1>4, <3>1, AckType, AnswerType
      DEF SetInstrumentationMode, TypeOK, Commands
  <2>3. RunTypeOK'
    BY <1>4, <2>1 DEF SetInstrumentationMode, TypeOK, RunTypeOK, latchVars
  <2> QED
    BY <1>4, <2>2, <2>3, SameUploadType, SameVendorType
    DEF SetInstrumentationMode, TypeOK
<1>5. ASSUME NEW mode \in Modes \cup {"PER_LAYER"},
             NEW count \in 0 .. EffectiveSlots + 1, RefuseMode(q, mode, count)
      PROVE  TypeOK'
  <2>1. ModeRefusal(mode, count) \in Errors
    BY DEF ModeRefusal, Errors
  <2>2. ProtocolTypeOK(Image)'
    BY <1>1, <1>5, <2>1, NackType, AnswerType DEF RefuseMode, TypeOK, Commands
  <2> QED
    BY <1>5, <2>2, SameUploadType, SameVendorType, SameRunType
    DEF RefuseMode, TypeOK
<1>6. CASE ResetRunner(q)
  <2>1. ProtocolTypeOK(Image)'
    BY <1>1, <1>6, AckType, EnterType
    DEF ResetRunner, TypeOK, Commands, States
  <2>2. UploadTypeOK'
    BY <1>6, ClearUploadType DEF ResetRunner, TypeOK, UploadTypeOK
  <2>3. instr_cfg' \in Config
    <3>1. instr_cfg \in Config /\ 0 \in 0 .. EffectiveSlots
      BY RunAssumption DEF TypeOK, RunTypeOK
    <3>2. instr_cfg' = [instr_cfg EXCEPT !.mode = "OFF", !.event_count = 0]
      BY <1>6 DEF ResetRunner
    <3> QED
      BY <3>1, <3>2 DEF Config, Modes
  <2>4. Unknown \in Content(Image)
    BY BlankType DEF Unknown
  <2>5. RunTypeOK'
    BY <1>6, <2>3, <2>4
    DEF ResetRunner, ClearLatch, CounterAfterReset, TypeOK, RunTypeOK
  <2> QED
    BY <1>6, <2>1, <2>2, <2>5, SameVendorType DEF ResetRunner, TypeOK
<1> QED
  BY <1>2, <1>3, <1>4, <1>5, <1>6, AcceptRunType DEF RunCommand

-----------------------------------------------------------------------------
(* The device, its interrupt and the driver.                               *)

\* A job's output, right or wrong, is a content.
LEMMA JobOutputType ==
  ASSUME VendorTypeOK(Image), NEW who \in {"good", "bad"}
  PROVE  Output(who, npu) \in Content(Image)
BY DEF VendorTypeOK, Output, Content

\* The device at rest is a state of the device.
LEMMA NoJobType ==
  NoJob \in [st : {"idle", "busy", "hung"}, boot : Nat, run : Nat,
             image : Image]
BY DEF NoJob, Image

\* The end, the fault and the hang of a job keep every variable typed.
LEMMA DeviceType ==
  ASSUME TypeOK, Device
  PROVE  TypeOK'
<1>1. ProtocolTypeOK(Image)'
  BY SilentType DEF Device, NpuStep, TypeOK, ProtocolTypeOK
<1>2. VendorTypeOK(Image)'
  <2>2. CASE JobEnds
    BY <2>2, NoJobType, JobOutputType
    DEF Device, NpuStep, JobEnds, TypeOK, VendorTypeOK, Masks, driverVars
  <2>3. CASE JobFaults
    BY <2>3, NoJobType, JobOutputType
    DEF Device, NpuStep, JobFaults, TypeOK, VendorTypeOK, Masks, driverVars
  <2>4. CASE JobHangs
    BY <2>4, JobOutputType
    DEF Device, NpuStep, JobHangs, TypeOK, VendorTypeOK, driverVars
  <2> QED
    BY <2>2, <2>3, <2>4 DEF Device, NpuStep
<1>3. UploadTypeOK'
  <2>1. staging' \in [Offset -> Byte]
    BY DEF Device, JobWrites, TypeOK, UploadTypeOK
  <2> QED
    BY <2>1 DEF Device, contextVars, TypeOK, UploadTypeOK, NoChunk
<1> QED
  BY <1>1, <1>2, <1>3, SameRunType DEF Device, TypeOK

\* A taken interrupt, whoever handles it, keeps every variable typed.
LEMMA InterruptType ==
  ASSUME TypeOK, Interrupt
  PROVE  TypeOK'
<1>1. UploadTypeOK' /\ RunTypeOK'
  BY SameUploadType, SameRunType DEF Interrupt, TypeOK
<1>2. CASE TakeIrq
  <2>1. ProtocolTypeOK(Image)'
    BY <1>2, SilentType DEF TakeIrq, TypeOK, ProtocolTypeOK
  <2>2. VendorTypeOK(Image)'
    BY <1>2 DEF TakeIrq, TypeOK, VendorTypeOK, Masks
  <2> QED
    BY <1>1, <2>1, <2>2 DEF TypeOK
<1>3. CASE BootHandlerIrq
  <2>1. ProtocolTypeOK(Image)'
    BY <1>3, SilentType DEF BootHandlerIrq, TypeOK, ProtocolTypeOK, Pcs
  <2> QED
    BY <1>1, <1>3, <2>1, SameVendorType DEF BootHandlerIrq, TypeOK
<1> QED
  BY <1>2, <1>3 DEF Interrupt

\* A step of the driver keeps the protocol variables typed.
LEMMA DriverStepType ==
  ASSUME ProtocolTypeOK(Image), NEW from \in Pcs, NEW to \in Pcs,
         DriverStep(from, to)
  PROVE  ProtocolTypeOK(Image)' /\ (VendorTypeOK(Image) => boots' \in Nat)
BY SilentType DEF DriverStep, ProtocolTypeOK, VendorTypeOK

\* Starting a job keeps protocol, driver and device typed.
LEMMA StartType ==
  ASSUME TypeOK, Start(last_run_sequence, StagedImage)
  PROVE  ProtocolTypeOK(Image)' /\ VendorTypeOK(Image)'
<1>1. ProtocolTypeOK(Image)' /\ boots' \in Nat
  BY DriverStepType DEF Start, TypeOK, Pcs
<1>2. StagedImage \in Image
  BY DigestType DEF TypeOK, UploadTypeOK, StagedImage
<1>3. npu' \in [st : {"idle", "busy", "hung"}, boot : Nat, run : Nat,
                image : Image]
      /\ npu_qread' \in BOOLEAN
  <2>1. CASE JobTaken(Job(last_run_sequence, StagedImage))
    BY <1>2, <2>1 DEF JobTaken, Job, TypeOK, VendorTypeOK, RunTypeOK
  <2>2. CASE StartIgnored
    BY <2>2 DEF StartIgnored, TypeOK, VendorTypeOK
  <2> QED
    BY <2>1, <2>2 DEF Start
<1> QED
  BY <1>1, <1>3 DEF Start, TypeOK, VendorTypeOK, Handlers

\* Every step of test_u85 keeps every variable typed.
LEMMA DriverRunType ==
  ASSUME TypeOK, DriverRun
  PROVE  TypeOK'
<1>1. UploadTypeOK' /\ RunTypeOK'
  BY SameUploadType, SameRunType DEF DriverRun, TypeOK
<1>2. CASE Start(last_run_sequence, StagedImage)
  BY <1>1, <1>2, StartType DEF TypeOK
<1>3. CASE WakeByIrq
  BY <1>1, <1>3, DriverStepType
  DEF WakeByIrq, TypeOK, VendorTypeOK, driverVars, deviceVars, Pcs
<1>4. CASE GiveUp
  BY <1>1, <1>4, DriverStepType
  DEF GiveUp, TypeOK, VendorTypeOK, deviceVars, Pcs
<1>5. CASE ReadQread
  BY <1>1, <1>5, DriverStepType
  DEF ReadQread, ClearTrigger, TypeOK, VendorTypeOK, deviceVars, Pcs
<1>6. CASE StopNpu
  BY <1>1, <1>6, DriverStepType
  DEF StopNpu, TypeOK, VendorTypeOK, driverVars, Masks, Pcs
<1>7. ASSUME NEW matches \in OutputMatches, VerifyOutput(matches) PROVE TypeOK'
  <2>1. ret_code' \in Nat
    BY <1>7 DEF VerifyOutput, VendorRc, TypeOK, VendorTypeOK
  <2> QED
    BY <1>1, <1>7, <2>1, DriverStepType
    DEF VerifyOutput, TypeOK, VendorTypeOK, deviceVars, Pcs
<1> QED
  BY <1>2, <1>3, <1>4, <1>5, <1>6, <1>7 DEF DriverRun

-----------------------------------------------------------------------------
(* The rest of the thread, and resets.                                     *)

\* Every step of the thread keeps every variable typed.
LEMMA FirmwareStepType ==
  ASSUME TypeOK, FirmwareStep
  PROVE  TypeOK'
<1>0. Unknown \in Content(Image) /\ Fill \in Content(Image)
  BY BlankType DEF Unknown, Fill
<1>1. CASE Boot
  <2>1. ProtocolTypeOK(Image)'
    BY <1>1, SilentType DEF Boot, TypeOK, ProtocolTypeOK, Pcs, States
  <2>2. UploadTypeOK'
    BY <1>1, ClearUploadType DEF Boot, TypeOK, UploadTypeOK
  <2>3. RunTypeOK'
    BY <1>0, <1>1 DEF Boot, ClearLatch, TypeOK, RunTypeOK
  <2> QED
    BY <1>1, <2>1, <2>2, <2>3, SameVendorType DEF Boot, TypeOK
<1>2. CASE OpenWindow
  <2>1. ProtocolTypeOK(Image)'
    BY <1>2, SilentType DEF OpenWindow, TypeOK, ProtocolTypeOK, Pcs
  <2>2. VendorTypeOK(Image)'
    BY <1>2
    DEF OpenWindow, TypeOK, VendorTypeOK, driverVars, deviceVars, Handlers
  <2>3. RunTypeOK'
    BY <1>2
    DEF OpenWindow, TypeOK, RunTypeOK, VendorTypeOK, latchVars, Handlers
  <2> QED
    BY <1>2, <2>1, <2>2, <2>3, SameUploadType DEF OpenWindow, TypeOK
<1>3. CASE PrepareWorkload
  <2>1. ProtocolTypeOK(Image)'
    BY <1>3, SilentType
    DEF PrepareWorkload, InWindow, TypeOK, ProtocolTypeOK, Pcs
  <2>2. staging' \in [Offset -> Byte]
    BY <1>3
    DEF PrepareWorkload, ArenaWrite, BehindImage, TypeOK, UploadTypeOK
  <2>3. UploadTypeOK'
    BY <1>3, <2>2 DEF PrepareWorkload, TypeOK, UploadTypeOK, contextVars
  <2>4. VendorTypeOK(Image)'
    BY <1>0, <1>3 DEF PrepareWorkload, TypeOK, VendorTypeOK, driverVars
  <2> QED
    BY <1>3, <2>1, <2>3, <2>4, SameRunType DEF PrepareWorkload, TypeOK
<1>4. CASE RefuseWorkload
  <2>1. ProtocolTypeOK(Image)'
    BY <1>4, SilentType
    DEF RefuseWorkload, InWindow, TypeOK, ProtocolTypeOK, Pcs
  <2>2. VendorTypeOK(Image)'
    BY <1>0, <1>4 DEF RefuseWorkload, TypeOK, VendorTypeOK, driverVars
  <2>3. RunTypeOK'
    BY <1>4 DEF RefuseWorkload, RC_REFUSED, TypeOK, RunTypeOK
  <2>4. staging' \in [Offset -> Byte]
    BY <1>4
    DEF RefuseWorkload, ArenaWrite, BehindImage, TypeOK, UploadTypeOK
  <2>5. UploadTypeOK'
    BY <1>4, <2>4 DEF RefuseWorkload, TypeOK, UploadTypeOK, contextVars
  <2> QED
    BY <1>4, <2>1, <2>2, <2>3, <2>5 DEF RefuseWorkload, TypeOK
<1>5. CASE DriverRun
  BY <1>5, DriverRunType
<1>6. CASE ReturnOutput
  <2>1. ProtocolTypeOK(Image)'
    BY <1>6, SilentType
    DEF ReturnOutput, InWindow, TypeOK, ProtocolTypeOK, Pcs
  <2>2. RunTypeOK'
    BY <1>6 DEF ReturnOutput, RC_KNOB, TypeOK, RunTypeOK, VendorTypeOK
  <2> QED
    BY <1>6, <2>1, <2>2, SameUploadType, SameVendorType
    DEF ReturnOutput, TypeOK
<1>7. ASSUME NEW timed \in BOOLEAN, CloseWindow(timed)
      PROVE  TypeOK'
  <2>1. ProtocolTypeOK(Image)'
    BY <1>7, SilentType
    DEF CloseWindow, ReopenUart, TypeOK, ProtocolTypeOK, Pcs, States
  <2>2. npu_vector' \in Handlers
    BY <1>7 DEF CloseWindow, RestoreVector, TypeOK, VendorTypeOK, RunTypeOK
  <2>3. VendorTypeOK(Image)'
    BY <1>7, <2>2
    DEF CloseWindow, TypeOK, VendorTypeOK, driverVars, deviceVars
  <2>4. last_measurement' \in Measurement
    BY <1>7, RunFlagsType DEF CloseWindow, TypeOK, RunTypeOK, Measurement
  <2>5. last_poison_crc' \in Content(Image)
    BY <1>7, BlankType DEF CloseWindow, Poison, TypeOK, RunTypeOK
  <2>6. RunTypeOK'
    BY <1>7, <2>4, <2>5, RunFlagsType DEF CloseWindow, TypeOK, RunTypeOK
  <2> QED
    BY <1>7, <2>1, <2>3, <2>6, SameUploadType DEF CloseWindow, TypeOK
<1>8. CASE SendRunComplete
  <2>1. RunComplete(run_frame, last_run_sequence) \in Frame(Image)
    BY OtherFrameTypes DEF TypeOK, RunTypeOK
  <2>2. ProtocolTypeOK(Image)'
    BY <1>8, <2>1, OtherFrameTypes
    DEF SendRunComplete, Transmit, TypeOK, ProtocolTypeOK, Pcs
  <2> QED
    BY <1>8, <2>2, SameUploadType, SameVendorType, SameRunType
    DEF SendRunComplete, TypeOK
<1> QED
  BY <1>1, <1>2, <1>3, <1>4, <1>5, <1>6, <1>7, <1>8 DEF FirmwareStep

\* A reset leaves every variable typed.
LEMMA PowerCycleType ==
  ASSUME TypeOK, PowerCycle
  PROVE  TypeOK'
<1>1. ProtocolTypeOK(Image)'
  BY OtherFrameTypes DEF PowerCycle, ProtocolTypeOK, Pcs, States
<1>2. UploadTypeOK'
  BY ClearUploadType DEF PowerCycle
<1>3. VendorTypeOK(Image)'
  <2>1. boots' \in Nat
    BY DEF PowerCycle, TypeOK, VendorTypeOK
  <2>2. VendorReset /\ ofm \in Content(Image)
    BY DEF PowerCycle, TypeOK, VendorTypeOK
  <2> QED
    BY <2>1, <2>2, NoJobType DEF VendorReset, VendorTypeOK, Masks, Handlers
<1>4. RunTypeOK'
  <2>1. Unknown \in Content(Image)
    BY BlankType DEF Unknown
  <2>2. NoMeasurement \in Measurement
    BY NoConfigType DEF NoMeasurement, Measurement
  <2> QED
    BY <2>1, <2>2, NoConfigType
    DEF PowerCycle, ClearLatch, TypeOK, RunTypeOK
<1> QED
  BY <1>1, <1>2, <1>3, <1>4 DEF TypeOK

\* The first state is typed.
LEMMA InitType == Init => TypeOK
<1> SUFFICES ASSUME Init PROVE TypeOK
  OBVIOUS
<1>1. Unknown \in Content(Image)
  BY BlankType DEF Unknown
<1>2. ProtocolTypeOK(Image)
  BY OtherFrameTypes DEF Init, ProtocolInit, ProtocolTypeOK, Pcs, States
<1>3. UploadTypeOK
  BY StagingAssumption DEF Init, UploadInit, UploadTypeOK, NoChunk, Image
<1>4. VendorTypeOK(Image)
  BY <1>1, NoJobType DEF Init, VendorInit, VendorTypeOK, Masks, Handlers
<1>5. RunTypeOK
  BY <1>1, NoConfigType
  DEF Init, RunInit, RunTypeOK, NoMeasurement, Measurement
<1> QED
  BY <1>2, <1>3, <1>4, <1>5 DEF TypeOK

\* Types are inductive.
LEMMA NextType == TypeOK /\ [Next]_vars => TypeOK'
<1> SUFFICES ASSUME TypeOK, [Next]_vars PROVE TypeOK'
  OBVIOUS
<1>1. CASE Command
  BY <1>1, AnyCommandType, UploadCommandType, RunCommandType DEF Command
<1>2. CASE FirmwareStep
  BY <1>2, FirmwareStepType
<1>3. CASE Interrupt
  BY <1>3, InterruptType
<1>4. CASE Device
  BY <1>4, DeviceType
<1>5. CASE PowerCycle
  BY <1>5, PowerCycleType
<1>6. CASE UNCHANGED vars
  <2>1. ProtocolTypeOK(Image)'
    BY <1>6 DEF vars, protocolVars, TypeOK, ProtocolTypeOK
  <2> QED
    BY <1>6, <2>1, SameUploadType, SameVendorType, SameRunType
    DEF vars, TypeOK
<1> QED
  BY <1>1, <1>2, <1>3, <1>4, <1>5, <1>6 DEF Next

\* Every variable keeps to its type, whatever the host sends, the NPU does and
\* the bounds are: in particular the announced length never exceeds the
\* staging window (proto.c:372-375) and no configuration asks for more
\* counters than the device has (measure.c:1080-1083).
THEOREM TypeCorrect == Spec => []TypeOK
<1>1. Init => TypeOK
  BY InitType
<1>2. TypeOK /\ [Next]_vars => TypeOK'
  BY NextType
<1> QED
  BY <1>1, <1>2, PTL DEF Spec

-----------------------------------------------------------------------------
(* Where the thread is, the staged image, and whose output is where.        *)

\* Where handle_run has the thread, and where it has opened the window.
InHandleRun ==
  {"accepted", "open", "prepared", "waiting", "woken", "read", "stopped",
   "verified", "returned"}
InDriver  == {"waiting", "woken", "read", "stopped", "verified"}
InWrapper == InDriver \cup {"open", "prepared", "returned"}

\* Where the thread is decides the protocol state, whether the UART is
\* closed, and who has the NPU's vector.
ControlInv ==
  /\ run_pc \in InHandleRun => runner_state = "RUNNING"
  /\ run_pc = "closed" => runner_state = "RESULT_READY"
  /\ measurement_active => run_pc \in InHandleRun \cup {"hung"}
  /\ uart_tx_forbidden => run_pc \in InHandleRun \cup {"hung"}
  /\ ~tx_refused
  /\ original_u85_handler \in {"none", "boot"}
  /\ run_pc \in {"off", "parser", "accepted", "closed"} => npu_vector = "boot"
  /\ run_pc \in InWrapper => original_u85_handler = "boot"
  /\ run_pc \in InDriver => npu_vector = "vendor"

\* The announced length is one that fits from LOAD_MODEL_BEGIN on.
ModelInv ==
  /\ runner_state = "MODEL_LOADING" => model_total_length \in 1 .. StagingSize
  /\ ModelIntact

\* The job of the run that is on, and its output.
CurrentJob == Job(last_run_sequence, StagedImage)
CurrentOutput == Output("good", CurrentJob)

\* Without late completions the NPU works, and interrupts, only for the run
\* that waits for it; so a good output found in the arena after the fill, and
\* a result region with rc 0, are that run's.
FreshInv ==
  /\ npu.st = "busy" =>
       /\ run_pc = "waiting"
       /\ npu_irq = "none"
       /\ ~irq_triggered
       /\ npu.boot = boots
       /\ npu.run = last_run_sequence
       /\ npu.image = StagedImage
  /\ npu_irq # "none" => run_pc = "waiting" /\ ~irq_triggered
  /\ irq_triggered => run_pc \in {"waiting", "woken"}
  /\ run_pc = "prepared" => ofm.by # "good"
  /\ run_pc \in InDriver /\ ofm.by = "good" => ofm = CurrentOutput
  /\ run_pc = "verified" /\ ret_code = 0 => ofm.by = "good"
  /\ run_pc = "returned" /\ run_rc = 0 => region = CurrentOutput
  /\ runner_state = "RESULT_READY" =>
       /\ last_completed_sequence = last_run_sequence
       /\ run_rc = 0 => region = CurrentOutput

-----------------------------------------------------------------------------
(* Where the thread is.                                                    *)

\* A handler that runs in the parser and leaves the thread there changes
\* nothing that ControlInv is about, and its frame goes out.
LEMMA HandlerControl ==
  ASSUME ControlInv, run_pc = "parser", run_pc' = "parser", NEW f, Transmit(f),
         UNCHANGED <<measurement_active, uart_tx_forbidden,
                     original_u85_handler, npu_vector>>
  PROVE  ControlInv'
BY DEF ControlInv, Transmit, InHandleRun, InDriver, InWrapper

\* Every command keeps ControlInv; RUN closes the UART as it leaves the parser.
LEMMA CommandControl == ControlInv /\ Command => ControlInv'
<1> SUFFICES ASSUME ControlInv, NEW q \in Seqs,
                    AnyCommand(q) \/ UploadCommand(q) \/ RunCommand(q)
             PROVE  ControlInv'
  BY DEF Command
<1>1. CASE AnyCommand(q)
  BY <1>1, HandlerControl
  DEF AnyCommand, RefuseFrame, RefuseState, RefusePayload, AnswerStatus,
      Dispatch, Answer, vendorVars, runVars
<1>2. CASE UploadCommand(q)
  BY <1>2, HandlerControl
  DEF UploadCommand, LoadModelBegin, RefuseModelBegin, StageChunk, RefuseChunk,
      RepeatChunk, LoadModelEnd, LoadInput, Dispatch, Answer, Enter,
      vendorVars, runVars
<1>3. CASE AcceptRun(q)
  BY <1>3
  DEF AcceptRun, Dispatch, Transmit, vendorVars, ControlInv, InHandleRun,
      InDriver, InWrapper
<1>4. CASE RunCommand(q) /\ ~AcceptRun(q)
  BY <1>4, HandlerControl
  DEF RunCommand, GetResult, GetMeasurement, SetInstrumentationMode,
      RefuseMode, ResetRunner, Dispatch, Answer, Enter, vendorVars, runVars
<1> QED
  BY <1>1, <1>2, <1>3, <1>4

\* Every step of the thread keeps ControlInv.
LEMMA FirmwareControl == ControlInv /\ FirmwareStep => ControlInv'
<1> SUFFICES ASSUME ControlInv, FirmwareStep PROVE ControlInv'
  OBVIOUS
<1> USE DEF InHandleRun, InDriver, InWrapper
<1>1. CASE Boot
  BY <1>1 DEF Boot, Silent, vendorVars, ControlInv
<1>2. CASE OpenWindow
  BY <1>2 DEF OpenWindow, Silent, ControlInv
<1>3. CASE PrepareWorkload
  BY <1>3 DEF PrepareWorkload, InWindow, Silent, runVars, ControlInv
<1>4. CASE RefuseWorkload
  BY <1>4 DEF RefuseWorkload, InWindow, Silent, ControlInv
<1>5. CASE DriverRun
  <2>1. CASE Start(last_run_sequence, StagedImage)
    BY <1>5, <2>1 DEF DriverRun, Start, DriverStep, Silent, runVars, ControlInv
  <2>2. CASE WakeByIrq \/ GiveUp \/ ReadQread \/ StopNpu
             \/ \E matches \in OutputMatches : VerifyOutput(matches)
    BY <1>5, <2>2
    DEF DriverRun, WakeByIrq, GiveUp, ReadQread, StopNpu, VerifyOutput,
        DriverStep, Silent, runVars, ControlInv
  <2> QED
    BY <1>5, <2>1, <2>2 DEF DriverRun
<1>6. CASE ReturnOutput
  BY <1>6 DEF ReturnOutput, InWindow, Silent, vendorVars, ControlInv
<1>7. CASE \E timed \in BOOLEAN : CloseWindow(timed)
  BY <1>7 DEF CloseWindow, RestoreVector, ReopenUart, Silent, ControlInv
<1>8. CASE SendRunComplete
  BY <1>8 DEF SendRunComplete, Transmit, vendorVars, runVars, ControlInv
<1> QED
  BY <1>1, <1>2, <1>3, <1>4, <1>5, <1>6, <1>7, <1>8 DEF FirmwareStep

\* ControlInv is inductive: with the thread's steps, the device, its
\* interrupt (which may hang the thread, never reopen the UART) and resets.
LEMMA ControlInductive ==
  /\ Init => ControlInv
  /\ ControlInv /\ [Next]_vars => ControlInv'
<1> USE DEF InHandleRun, InDriver, InWrapper
<1>1. Init => ControlInv
  BY DEF Init, ProtocolInit, VendorInit, RunInit, ControlInv
<1>2. ASSUME ControlInv, [Next]_vars PROVE ControlInv'
  <2>1. CASE Interrupt
    <3>1. CASE TakeIrq
      BY <1>2, <2>1, <3>1 DEF Interrupt, TakeIrq, Silent, runVars, ControlInv
    <3>2. CASE BootHandlerIrq
      BY <1>2, <2>1, <3>2
      DEF Interrupt, BootHandlerIrq, Silent, vendorVars, runVars, ControlInv
    <3> QED
      BY <2>1, <3>1, <3>2 DEF Interrupt
  <2>2. CASE Device
    BY <1>2, <2>2 DEF Device, NpuStep, Silent, runVars, ControlInv
  <2>3. CASE PowerCycle
    BY <1>2, <2>3 DEF PowerCycle, VendorReset, ControlInv
  <2>4. CASE UNCHANGED vars
    BY <1>2, <2>4
    DEF vars, protocolVars, vendorVars, runVars, ControlInv
  <2> QED
    BY <1>2, <2>1, <2>2, <2>3, <2>4, CommandControl, FirmwareControl DEF Next
<1> QED
  BY <1>1, <1>2

\* The thread's place fixes the protocol state, the UART and the vector.
THEOREM ControlCorrect == Spec => []ControlInv
BY ControlInductive, PTL DEF Spec

\* No byte is ever refused by put_raw (proto.c:26-40): every frame the
\* firmware sends is sent outside the span from RUN_ACCEPTED to the end of
\* handle_run, whatever the host sends and whatever the NPU does.
THEOREM NothingRefused == Spec => []NoFrameRefused
<1>1. ControlInv => NoFrameRefused
  BY DEF ControlInv, NoFrameRefused
<1> QED
  BY <1>1, ControlCorrect, PTL

\* The wrapper never captures itself, and outside a run the NPU's vector is
\* the one the board booted with (measure.c:137-158).
THEOREM VectorAlwaysRestored == Spec => []VectorRestored
<1>1. ControlInv => VectorRestored
  BY DEF ControlInv, VectorRestored
<1> QED
  BY <1>1, ControlCorrect, PTL
-----------------------------------------------------------------------------
(* The staged image.                                                       *)

\* A step that touches neither the staged bytes nor what was announced, and
\* enters no state that claims more of them, keeps ModelInv.
LEMMA SameModel ==
  ASSUME ModelInv,
         UNCHANGED <<staging, model_total_length, model_expected_crc>>,
         runner_state' \in ModelStates => runner_state \in ModelStates,
         runner_state' = "MODEL_LOADING" => runner_state = "MODEL_LOADING"
  PROVE  ModelInv'
BY DEF ModelInv, ModelIntact, StagedImage, Digest

\* What is written behind the image leaves its digest alone.
LEMMA BehindImageKeepsDigest ==
  ASSUME UploadTypeOK, NEW b \in Byte, staging' = BehindImage(b),
         model_total_length' = model_total_length
  PROVE  StagedImage' = StagedImage
<1>1. ASSUME NEW i \in 1 .. model_total_length
      PROVE  staging'[i - 1] = staging[i - 1]
  <2>1. i - 1 \in Offset /\ i - 1 < model_total_length
    BY StagingAssumption DEF UploadTypeOK, Offset
  <2> QED
    BY <2>1 DEF BehindImage
<1> QED
  BY <1>1 DEF StagedImage, Digest

\* A job that is at work is the staged image's, unless none writes staging.
ImageKept == SramWorkloads = {} \/ (npu.st = "busy" => npu.image = StagedImage)

\* What such a job leaves in staging is behind the image.
LEMMA DeviceKeepsImage ==
  ASSUME TypeOK, ImageKept, Device
  PROVE  StagedImage' = StagedImage
<1>1. model_total_length' = model_total_length /\ model_total_length \in Nat
  BY StagingAssumption DEF Device, contextVars, TypeOK, UploadTypeOK
<1>2. CASE UNCHANGED staging
  BY <1>1, <1>2 DEF StagedImage, Digest
<1>3. CASE ~UNCHANGED staging
  <2>1. /\ npu.image \in SramWorkloads
        /\ \A i \in Offset : i < Len(npu.image) => staging'[i] = staging[i]
    BY <1>3 DEF Device, JobWrites
  <2>2. npu.st = "busy"
    BY DEF Device, NpuStep, JobEnds, JobFaults, JobHangs
  <2>3. npu.image = StagedImage
    BY <2>1, <2>2 DEF ImageKept
  <2>4. Len(npu.image) = model_total_length
    BY <1>1, <2>3 DEF StagedImage, Digest
  <2>5. ASSUME NEW i \in 1 .. model_total_length PROVE staging'[i - 1] = staging[i - 1]
    <3>1. i - 1 \in Offset /\ i - 1 < model_total_length
      BY StagingAssumption DEF TypeOK, UploadTypeOK, Offset
    <3> QED BY <2>1, <2>4, <3>1
  <2> QED
    BY <1>1, <2>5 DEF StagedImage, Digest
<1> QED BY <1>2, <1>3

\* The upload commands and the others: only a chunk writes staging, and only
\* while the image is still being loaded; only LOAD_MODEL_END, after its CRC
\* check, enters a state that claims it.
LEMMA CommandModel == TypeOK /\ ModelInv /\ Command => ModelInv'
<1> SUFFICES ASSUME TypeOK, ModelInv, NEW q \in Seqs,
                    AnyCommand(q) \/ UploadCommand(q) \/ RunCommand(q)
             PROVE  ModelInv'
  BY DEF Command
<1> USE DEF Dispatch, command_allowed, Accepts, Always, ModelStates
<1>1. CASE AnyCommand(q)
  <2>1. UNCHANGED <<runner_state, staging, model_total_length,
                    model_expected_crc>>
    BY <1>1
    DEF AnyCommand, RefuseFrame, RefuseState, RefusePayload, AnswerStatus,
        Answer, uploadVars, contextVars
  <2> QED
    BY <2>1, SameModel
<1>2. ASSUME NEW n \in 0 .. StagingSize + 1, NEW img \in Images,
             LoadModelBegin(q, n, img)
      PROVE  ModelInv'
  <2>1. n \in 1 .. StagingSize
    BY <1>2, StagingAssumption DEF LoadModelBegin, LengthFits
  <2> QED
    BY <1>2, <2>1 DEF LoadModelBegin, Enter, ModelInv, ModelIntact
<1>3. ASSUME NEW off, NEW data, StageChunk(q, off, data)
      PROVE  ModelInv'
  <2>1. runner_state = "MODEL_LOADING"
    BY <1>3 DEF StageChunk
  <2> QED
    BY <1>3, <2>1 DEF StageChunk, Answer, ModelInv, ModelIntact
<1>4. CASE LoadModelEnd(q)
  <2>1. runner_state = "MODEL_LOADING"
    BY <1>4 DEF LoadModelEnd
  <2>2. CASE CrcMatches
    BY <1>4, <2>1, <2>2
    DEF LoadModelEnd, Enter, CrcMatches, uploadVars, contextVars, ModelInv,
        ModelIntact, StagedImage, Digest
  <2>3. CASE ~CrcMatches
    BY <1>4, <2>1, <2>3, SameModel
    DEF LoadModelEnd, Answer, uploadVars, contextVars
  <2> QED
    BY <2>2, <2>3
<1>5. CASE LoadInput(q)
  BY <1>5, SameModel DEF LoadInput, Enter, uploadVars, contextVars
<1>6. ASSUME NEW n, NEW off, NEW data,
             RefuseModelBegin(q, n) \/ RefuseChunk(q, off, data)
               \/ RepeatChunk(q, off, data)
      PROVE  ModelInv'
  BY <1>6, SameModel
  DEF RefuseModelBegin, RefuseChunk, RepeatChunk, Answer, uploadVars,
      contextVars
<1>7. CASE RunCommand(q)
  <2>1. CASE ResetRunner(q)
    BY <2>1 DEF ResetRunner, Enter, ModelInv, ModelIntact
  <2>2. CASE AcceptRun(q)
    BY <2>2, SameModel DEF AcceptRun, uploadVars, contextVars
  <2>3. CASE ~ResetRunner(q) /\ ~AcceptRun(q)
    BY <1>7, <2>3, SameModel
    DEF RunCommand, GetResult, GetMeasurement, SetInstrumentationMode,
        RefuseMode, Answer, uploadVars, contextVars
  <2> QED
    BY <2>1, <2>2, <2>3
<1> QED
  BY <1>1, <1>2, <1>3, <1>4, <1>5, <1>6, <1>7 DEF UploadCommand

\* The thread: only a workload writes staging, behind the image, and the end
\* of a run claims no more than the run did.
LEMMA FirmwareModel ==
  TypeOK /\ ControlInv /\ ModelInv /\ FirmwareStep => ModelInv'
<1> SUFFICES ASSUME TypeOK, ControlInv, ModelInv, FirmwareStep PROVE ModelInv'
  OBVIOUS
<1> USE DEF uploadVars, contextVars
<1>1. CASE Boot
  BY <1>1 DEF Boot, ModelInv, ModelIntact, ModelStates
<1>2. CASE PrepareWorkload \/ RefuseWorkload
  <2>1. UNCHANGED <<runner_state, model_total_length, model_expected_crc>>
    BY <1>2 DEF PrepareWorkload, RefuseWorkload, InWindow
  <2>2. StagedImage' = StagedImage
    <3>1. CASE UNCHANGED staging
      BY <2>1, <3>1 DEF StagedImage, Digest
    <3>2. ASSUME NEW b \in Byte, staging' = ArenaWrite(b)
          PROVE  StagedImage' = StagedImage
      BY <2>1, <3>2, BehindImageKeepsDigest DEF ArenaWrite, TypeOK
    <3> QED
      BY <1>2, <3>1, <3>2 DEF PrepareWorkload, RefuseWorkload
  <2> QED
    BY <2>1, <2>2 DEF ModelInv, ModelIntact
<1>3. CASE \E timed \in BOOLEAN : CloseWindow(timed)
  <2>1. runner_state = "RUNNING" /\ runner_state' = "RESULT_READY"
    BY <1>3 DEF CloseWindow, ControlInv, InHandleRun
  <2> QED
    BY <1>3, <2>1, SameModel DEF CloseWindow, ModelStates
<1>4. CASE DriverRun
  BY <1>4, SameModel
  DEF DriverRun, Start, WakeByIrq, GiveUp, ReadQread, StopNpu, VerifyOutput,
      DriverStep
<1>5. CASE OpenWindow \/ ReturnOutput \/ SendRunComplete
  BY <1>5, SameModel DEF OpenWindow, ReturnOutput, SendRunComplete, InWindow
<1> QED
  BY <1>1, <1>2, <1>3, <1>4, <1>5 DEF FirmwareStep

\* ModelInv is inductive beside the types, ControlInv and ImageKept.
LEMMA ModelInductive ==
  /\ Init => ModelInv
  /\ TypeOK /\ ControlInv /\ ImageKept /\ ModelInv /\ [Next]_vars => ModelInv'
<1>1. Init => ModelInv
  BY DEF Init, ProtocolInit, ModelInv, ModelIntact, ModelStates
<1>2. ASSUME TypeOK, ControlInv, ImageKept, ModelInv, [Next]_vars PROVE ModelInv'
  <2>1. CASE Interrupt
    BY <1>2, <2>1, SameModel
    DEF Interrupt, TakeIrq, BootHandlerIrq, uploadVars, contextVars
  <2>2. CASE Device
    <3>1. UNCHANGED <<runner_state, model_total_length, model_expected_crc, StagedImage>>
      BY <1>2, <2>2, DeviceKeepsImage DEF Device, NpuStep, contextVars
    <3> QED
      BY <1>2, <3>1 DEF ModelInv, ModelIntact
  <2>3. CASE PowerCycle
    BY <2>3 DEF PowerCycle, ModelInv, ModelIntact, ModelStates
  <2>4. CASE UNCHANGED vars
    BY <1>2, <2>4, SameModel
    DEF vars, protocolVars, uploadVars, contextVars
  <2> QED
    BY <1>2, <2>1, <2>2, <2>3, <2>4, CommandModel, FirmwareModel DEF Next
<1> QED
  BY <1>1, <1>2

-----------------------------------------------------------------------------
(* Whose output is where, when no job ends after it was given up.          *)

\* A step that leaves the device, the driver and the run alone, outside the
\* driver, and enters no RESULT_READY, keeps FreshInv.
LEMMA SameResult ==
  ASSUME FreshInv, run_pc \notin InDriver, run_pc' \in {"parser", "accepted"},
         UNCHANGED vendorVars,
         runner_state' = "RESULT_READY" =>
           runner_state = "RESULT_READY" /\ UNCHANGED <<uploadVars, runVars>>
  PROVE  FreshInv'
<1>1. npu'.st # "busy" /\ npu_irq' = "none" /\ ~irq_triggered'
  BY DEF FreshInv, vendorVars, driverVars, deviceVars, InDriver
<1>2. ASSUME runner_state' = "RESULT_READY"
      PROVE  /\ last_completed_sequence' = last_run_sequence'
             /\ run_rc' = 0 => region' = CurrentOutput'
  BY <1>2
  DEF FreshInv, CurrentOutput, CurrentJob, Job, StagedImage, Digest,
      vendorVars, uploadVars, contextVars, runVars, latchVars
<1> QED
  BY <1>1, <1>2 DEF FreshInv, InDriver

\* A command finds the NPU at rest; those that leave RESULT_READY standing
\* leave the run, the region and the image standing too.
LEMMA CommandFresh == FreshInv /\ Command => FreshInv'
<1> SUFFICES ASSUME FreshInv, NEW q \in Seqs,
                    AnyCommand(q) \/ UploadCommand(q) \/ RunCommand(q)
             PROVE  FreshInv'
  BY DEF Command
<1> USE DEF Dispatch, command_allowed, Accepts, Always, InDriver
<1>1. CASE AnyCommand(q)
  BY <1>1, SameResult
  DEF AnyCommand, RefuseFrame, RefuseState, RefusePayload, AnswerStatus, Answer
<1>2. CASE UploadCommand(q)
  <2>1. run_pc = "parser" /\ run_pc' = "parser" /\ UNCHANGED vendorVars
    BY <1>2
    DEF UploadCommand, LoadModelBegin, RefuseModelBegin, StageChunk,
        RefuseChunk, RepeatChunk, LoadModelEnd, LoadInput, Answer, Enter
  <2>2. runner_state' # "RESULT_READY"
    BY <1>2
    DEF UploadCommand, LoadModelBegin, RefuseModelBegin, StageChunk,
        RefuseChunk, RepeatChunk, LoadModelEnd, LoadInput, Answer, Enter
  <2> QED
    BY <2>1, <2>2, SameResult
<1>3. CASE AcceptRun(q)
  BY <1>3, SameResult DEF AcceptRun
<1>4. CASE ResetRunner(q)
  BY <1>4, SameResult DEF ResetRunner, Enter
<1>5. ASSUME NEW n, NEW inside, GetResult(q, n, inside) PROVE FreshInv'
  BY <1>5, SameResult DEF GetResult, Answer
<1>6. CASE GetMeasurement(q)
  BY <1>6, SameResult DEF GetMeasurement, Answer
<1>7. ASSUME NEW mode, NEW set, NEW count,
             \/ SetInstrumentationMode(q, mode, set, count)
             \/ RefuseMode(q, mode, count)
      PROVE  FreshInv'
  <2>1. /\ run_pc = "parser" /\ run_pc' = "parser"
        /\ UNCHANGED <<runner_state, vendorVars, uploadVars, region, latchVars>>
    BY <1>7 DEF SetInstrumentationMode, RefuseMode, Answer, runVars
  <2> QED
    BY <2>1
    DEF FreshInv, CurrentOutput, CurrentJob, Job, StagedImage, Digest,
        vendorVars, driverVars, deviceVars, uploadVars, contextVars, latchVars
<1> QED
  BY <1>1, <1>2, <1>3, <1>4, <1>5, <1>6, <1>7 DEF RunCommand

\* The job of the run is not renamed by a step that keeps the boot, the run
\* number and the image.
LEMMA SameOutput ==
  ASSUME UNCHANGED <<boots, last_run_sequence, StagedImage>>
  PROVE  CurrentOutput' = CurrentOutput /\ CurrentJob' = CurrentJob
BY DEF CurrentOutput, CurrentJob, Job

\* The driver: a job is the run's own, it is waited for until it has ended,
\* and rc 0 says that its output compared equal.
LEMMA DriverFresh ==
  ASSUME ~LateCompletion, TypeOK, ControlInv, ModelInv, FreshInv, DriverRun
  PROVE  FreshInv'
<1> USE DEF InDriver, InHandleRun
<1>1. UNCHANGED <<boots, last_run_sequence, StagedImage, runner_state, run_rc,
                  region, last_completed_sequence>>
  BY DEF DriverRun, Start, WakeByIrq, GiveUp, ReadQread, StopNpu, VerifyOutput,
         DriverStep, uploadVars, contextVars, runVars, latchVars, StagedImage,
         Digest
<1>2. CurrentOutput' = CurrentOutput
  BY <1>1, SameOutput
<1>3. runner_state = "RUNNING"
  BY DEF DriverRun, Start, WakeByIrq, GiveUp, ReadQread, StopNpu, VerifyOutput,
         DriverStep, ControlInv
<1>4. CASE Start(last_run_sequence, StagedImage)
  <2>1. npu.st # "busy" /\ npu_irq' = "none" /\ ~irq_triggered'
    BY <1>4 DEF Start, DriverStep, FreshInv
  <2>2. npu'.st = "busy" => /\ npu'.boot = boots'
                            /\ npu'.run = last_run_sequence'
                            /\ npu'.image = StagedImage'
    BY <1>1, <1>4, <2>1 DEF Start, JobTaken, StartIgnored, Job
  <2> QED
    BY <1>1, <1>3, <1>4, <2>1, <2>2 DEF Start, DriverStep, FreshInv
<1>5. CASE WakeByIrq
  BY <1>1, <1>2, <1>3, <1>5
  DEF WakeByIrq, DriverStep, driverVars, deviceVars, FreshInv
<1>6. CASE GiveUp
  BY <1>1, <1>2, <1>3, <1>6
  DEF GiveUp, PollsExhausted, DriverStep, deviceVars, FreshInv
<1>7. CASE ReadQread
  BY <1>1, <1>2, <1>3, <1>7
  DEF ReadQread, ClearTrigger, DriverStep, deviceVars, FreshInv
<1>8. CASE StopNpu
  BY <1>1, <1>2, <1>3, <1>8 DEF StopNpu, DriverStep, driverVars, FreshInv
<1>9. ASSUME NEW matches \in OutputMatches, VerifyOutput(matches) PROVE FreshInv'
  <2>1. matches => ofm.by = "good"
    BY <1>3, <1>9 DEF OutputMatches, ModelInv, ModelIntact, ModelStates
  <2>2. ret_code' = 0 => ofm.by = "good"
    BY <1>9, <2>1 DEF VerifyOutput, VendorRc, TypeOK, VendorTypeOK
  <2> QED
    BY <1>1, <1>2, <1>3, <1>9, <2>2
    DEF VerifyOutput, DriverStep, deviceVars, FreshInv
<1> QED
  BY <1>4, <1>5, <1>6, <1>7, <1>8, <1>9 DEF DriverRun

\* The rest of the thread: the arena is filled before the job, and the region
\* takes the output only with the code the driver returned.
LEMMA FirmwareFresh ==
  ASSUME ~LateCompletion, TypeOK, ControlInv, ModelInv, FreshInv, FirmwareStep
  PROVE  FreshInv'
<1> USE DEF InDriver, InHandleRun
<1>1. CASE Boot
  BY <1>1, SameResult DEF Boot
<1>2. CASE OpenWindow
  BY <1>2 DEF OpenWindow, ControlInv, FreshInv, driverVars, deviceVars
<1>3. CASE PrepareWorkload
  BY <1>3
  DEF PrepareWorkload, InWindow, Fill, Blank, ControlInv, FreshInv, driverVars
<1>4. CASE RefuseWorkload
  BY <1>4
  DEF RefuseWorkload, InWindow, RC_REFUSED, ControlInv, FreshInv, driverVars
<1>5. CASE DriverRun
  BY <1>5, DriverFresh
<1>6. CASE ReturnOutput
  <2>1. UNCHANGED <<boots, last_run_sequence, StagedImage>>
    BY <1>6
    DEF ReturnOutput, vendorVars, uploadVars, contextVars, StagedImage, Digest
  <2>2. run_rc' = 0 => region' = CurrentOutput'
    BY <1>6, <2>1, SameOutput
    DEF ReturnOutput, InWindow, RC_KNOB, FreshInv
  <2> QED
    BY <1>6, <2>2
    DEF ReturnOutput, InWindow, ControlInv, FreshInv, vendorVars, driverVars,
        deviceVars
<1>7. CASE \E timed \in BOOLEAN : CloseWindow(timed)
  <2>1. UNCHANGED <<boots, last_run_sequence, StagedImage>>
    BY <1>7 DEF CloseWindow, uploadVars, contextVars, StagedImage, Digest
  <2> QED
    BY <1>7, <2>1, SameOutput DEF CloseWindow, FreshInv, driverVars, deviceVars
<1>8. CASE SendRunComplete
  <2>1. UNCHANGED <<boots, last_run_sequence, StagedImage>>
    BY <1>8
    DEF SendRunComplete, vendorVars, uploadVars, contextVars, runVars,
        latchVars, StagedImage, Digest
  <2> QED
    BY <1>8, <2>1, SameOutput
    DEF SendRunComplete, FreshInv, vendorVars, driverVars, deviceVars, runVars,
        latchVars
<1> QED
  BY <1>1, <1>2, <1>3, <1>4, <1>5, <1>6, <1>7, <1>8 DEF FirmwareStep

\* The device and its interrupt: whatever ends or interrupts is the waiting
\* run's, so the vector is the vendor's and the boot handler is not reached.
LEMMA DeviceFresh ==
  ASSUME TypeOK, ControlInv, FreshInv, Device \/ Interrupt
  PROVE  FreshInv'
<1> USE DEF InDriver, InHandleRun
<1>1. CASE Device
  <2>0. StagedImage' = StagedImage
    BY <1>1, DeviceKeepsImage DEF ImageKept, FreshInv
  <2>1. /\ npu.st = "busy"
        /\ UNCHANGED <<boots, last_run_sequence, StagedImage, run_pc,
                       runner_state, irq_triggered>>
    BY <1>1, <2>0
    DEF Device, NpuStep, JobEnds, JobFaults, JobHangs, runVars, latchVars, driverVars
  <2>2. run_pc = "waiting" /\ runner_state = "RUNNING"
    BY <2>1 DEF FreshInv, ControlInv
  <2>3. npu'.st # "busy"
    BY <1>1 DEF Device, NpuStep, JobEnds, JobFaults, JobHangs, NoJob,
                TypeOK, VendorTypeOK
  <2>4. ofm'.by = "good" => ofm' = CurrentOutput'
    <3>1. Output("good", npu) = CurrentOutput
      BY <2>1 DEF FreshInv, Output, CurrentOutput, CurrentJob, Job
    <3>2. Output("bad", npu).by # "good"
      BY DEF Output
    <3>3. ofm.by = "good" => ofm = CurrentOutput
      BY <2>2 DEF FreshInv
    <3> QED
      BY <1>1, <2>1, <3>1, <3>2, <3>3, SameOutput
      DEF Device, NpuStep, JobEnds, JobFaults, JobHangs
  <2> QED
    BY <2>1, <2>2, <2>3, <2>4 DEF FreshInv
<1>2. CASE TakeIrq /\ Interrupt
  <2>1. UNCHANGED <<boots, last_run_sequence, StagedImage, run_pc,
                    runner_state, npu, ofm>>
    BY <1>2
    DEF Interrupt, TakeIrq, uploadVars, contextVars, runVars, latchVars,
        StagedImage, Digest
  <2>2. npu_irq # "none" /\ npu_irq' = "none"
    BY <1>2 DEF TakeIrq
  <2>3. run_pc = "waiting" /\ npu.st # "busy" /\ runner_state = "RUNNING"
    BY <2>2 DEF FreshInv, ControlInv
  <2> QED
    BY <2>1, <2>2, <2>3, SameOutput DEF FreshInv
<1>3. ~BootHandlerIrq
  BY DEF BootHandlerIrq, FreshInv, ControlInv
<1> QED
  BY <1>1, <1>2, <1>3 DEF Interrupt

\* FreshInv is inductive when the wait outlives every job that ends.
LEMMA FreshInductive ==
  ASSUME ~LateCompletion
  PROVE  /\ Init => FreshInv
         /\ TypeOK /\ ControlInv /\ ModelInv /\ FreshInv /\ [Next]_vars => FreshInv'
<1>1. Init => FreshInv
  BY DEF Init, ProtocolInit, VendorInit, NoJob, FreshInv, InDriver
<1>2. ASSUME TypeOK, ControlInv, ModelInv, FreshInv, [Next]_vars PROVE FreshInv'
  <2>1. CASE PowerCycle
    BY <2>1 DEF PowerCycle, VendorReset, NoJob, FreshInv, InDriver
  <2>2. CASE UNCHANGED vars
    BY <1>2, <2>2
    DEF vars, protocolVars, uploadVars, contextVars, vendorVars, driverVars,
        deviceVars, runVars, latchVars, FreshInv, CurrentOutput, CurrentJob,
        Job, StagedImage, Digest
  <2> QED
    BY <1>2, <2>1, <2>2, CommandFresh, FirmwareFresh, DeviceFresh DEF Next
<1> QED
  BY <1>1, <1>2

\* Then the image and whose output is where hold together.
LEMMA FreshAlways ==
  ASSUME ~LateCompletion
  PROVE  Spec => [](ModelInv /\ FreshInv)
<1>1. Init => ModelInv /\ FreshInv
  BY ModelInductive, FreshInductive
<1>2. FreshInv => ImageKept
  BY DEF FreshInv, ImageKept
<1>3. TypeOK /\ ControlInv /\ ModelInv /\ FreshInv /\ [Next]_vars => ModelInv' /\ FreshInv'
  BY <1>2, ModelInductive, FreshInductive
<1> QED
  BY <1>1, <1>3, TypeCorrect, ControlCorrect, PTL DEF Spec

\* So do the image and the job at work on it, unless a job that was given up may
\* write staging.
LEMMA ModelAlways ==
  ASSUME GivenUpWritesNothing
  PROVE  Spec => [](ModelInv /\ ImageKept)
<1>1. CASE ~LateCompletion
  <2>1. FreshInv => ImageKept
    BY DEF FreshInv, ImageKept
  <2> QED
    BY <1>1, <2>1, FreshAlways, PTL
<1>2. CASE SramWorkloads = {}
  <2>1. ImageKept
    BY <1>2 DEF ImageKept
  <2> QED
    BY <2>1, ModelInductive, TypeCorrect, ControlCorrect, PTL DEF Spec
<1> QED
  BY <1>1, <1>2, LateCompletionAssumption DEF GivenUpWritesNothing

\* The model ready, being run, or with a result, is the one announced, whole:
\* through any chunks, retransmissions, earlier uploads, resets and workloads
\* that write their tensors behind the image (proto.c:351-478, pmwl.c:82-106);
\* unless one of them was given up and writes on under a newer image.
THEOREM ModelStaysIntact ==
  ASSUME GivenUpWritesNothing
  PROVE  Spec => []ModelIntact
<1>1. ModelInv => ModelIntact
  BY DEF ModelInv
<1> QED
  BY <1>1, ModelAlways, PTL

\* Only GET_RESULT acknowledges GET_RESULT, and it does so with the region of
\* the run that left RESULT_READY.
LEMMA ServedIsFresh ==
  ASSUME TypeOK, FreshInv, ResultIsFresh, [Next]_vars
  PROVE  ResultIsFresh'
<1> SUFFICES ASSUME Sent("ACK", "GET_RESULT")'
             PROVE  tx'.data = Output("good", [boot |-> boots, run |-> tx.n,
                                               image |-> StagedImage])'
  BY DEF ResultIsFresh
<1>1. CASE UNCHANGED vars
  BY <1>1
  DEF ResultIsFresh, Sent, vars, protocolVars, uploadVars, contextVars,
      vendorVars, StagedImage, Digest
<1>2. ASSUME NEW q, NEW n, NEW inside, GetResult(q, n, inside)
      PROVE  tx'.data = Output("good", [boot |-> boots, run |-> tx.n,
                                        image |-> StagedImage])'
  <2>1. runner_state = "RESULT_READY"
    BY <1>2 DEF GetResult, Dispatch, command_allowed, Accepts, Always
  <2>2. ResultValid(n) /\ tx' = AckOf("GET_RESULT", q, n, region)
    BY <1>2
    DEF GetResult, Answer, Transmit, Sent, Nack, NoFrame
  <2>3. region = Output("good", [boot |-> boots, run |-> n,
                                 image |-> StagedImage])
    BY <2>1, <2>2
    DEF ResultValid, FreshInv, CurrentOutput, CurrentJob, Job
  <2>4. boots' = boots /\ StagedImage' = StagedImage
    BY <1>2
    DEF GetResult, vendorVars, uploadVars, contextVars, StagedImage, Digest
  <2> QED
    BY <2>2, <2>3, <2>4 DEF AckOf
<1>3. Command => \E q, n, inside : GetResult(q, n, inside)
  <2> SUFFICES ASSUME NEW q \in Seqs,
                      AnyCommand(q) \/ UploadCommand(q) \/ RunCommand(q),
                      \A n, inside : ~GetResult(q, n, inside)
               PROVE  FALSE
    BY DEF Command
  <2> USE DEF Sent, Answer, Enter, Transmit, Ack, AckOf, Nack, NoFrame
  <2>1. CASE AnyCommand(q)
    BY <2>1
    DEF AnyCommand, RefuseFrame, RefuseState, RefusePayload, AnswerStatus
  <2>2. CASE UploadCommand(q)
    BY <2>2
    DEF UploadCommand, LoadModelBegin, RefuseModelBegin, StageChunk,
        RefuseChunk, RepeatChunk, LoadModelEnd, LoadInput
  <2>3. CASE RunCommand(q)
    BY <2>3
    DEF RunCommand, AcceptRun, GetMeasurement, SetInstrumentationMode,
        RefuseMode, ResetRunner
  <2> QED
    BY <2>1, <2>2, <2>3
<1>4. ~FirmwareStep /\ ~Interrupt /\ ~Device /\ ~PowerCycle
  BY DEF FirmwareStep, Boot, OpenWindow, PrepareWorkload, RefuseWorkload,
         DriverRun, Start, WakeByIrq, GiveUp, ReadQread, StopNpu, VerifyOutput,
         DriverStep, ReturnOutput, InWindow, CloseWindow, SendRunComplete,
         Transmit, RunComplete, Interrupt, TakeIrq, BootHandlerIrq, Device,
         NpuStep, PowerCycle, Silent, Sent, NoFrame
<1> QED
  BY <1>1, <1>2, <1>3, <1>4 DEF Next

\* If the poll budget outlives every job, the bytes GET_RESULT acknowledges
\* are those of the run the host names, in this boot, on the image staged:
\* main.c:58 and main.c:71-73 hold, for any number of runs, resets and boots.
THEOREM FreshResults ==
  ASSUME ~LateCompletion
  PROVE  Spec => []ResultIsFresh
<1>1. Init => ResultIsFresh
  BY DEF Init, ProtocolInit, NoFrame, Sent, ResultIsFresh
<1>2. Spec => []FreshInv
  BY FreshAlways, PTL
<1> QED
  BY <1>1, <1>2, ServedIsFresh, TypeCorrect, PTL DEF Spec

\* Under the same assumption no run starts with the interrupt flag of an
\* earlier one still set (u85.c:117-128 clears it only after a wait).
THEOREM TriggerClean ==
  ASSUME ~LateCompletion
  PROVE  Spec => []NoStaleTrigger
<1>1. FreshInv => NoStaleTrigger
  BY DEF FreshInv, NoStaleTrigger
<1>2. Spec => []FreshInv
  BY FreshAlways, PTL
<1> QED
  BY <1>1, <1>2, PTL
=============================================================================
