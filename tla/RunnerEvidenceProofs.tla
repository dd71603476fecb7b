------------------------ MODULE RunnerEvidenceProofs ------------------------
(***************************************************************************)
(* What a host may read off the runner for every value of its constants,   *)
(* jobs that end after they were given up included: that latch, record and *)
(* RUN_COMPLETE speak of one run, that run numbers are not used again, and *)
(* that served bytes are a correct output of the staged image.  Then, if   *)
(* no job ends after it was given up, that the runner implements           *)
(* ResultService: initial states map to initial states and every step of   *)
(* the runner to a step of the service.                                    *)
(***************************************************************************)
EXTENDS RunnerProofs

\* The latch is down from the ACK of a run until its record is written, and the
\* wrapper is only still installed if the driver was not reached.
EvidenceInv ==
  /\ EvidenceAgrees
  /\ run_pc \in InHandleRun => ~last_run_completed
  /\ run_pc = "closed" => last_run_completed
  /\ run_pc = "returned" /\ run_rc = 0 => npu_vector = "vendor"
  /\ last_run_sequence <= run_sequence_counter
  /\ last_measurement.run <= run_sequence_counter

\* An output is of the staged image, whoever's job made it.
GoodFor(content) == content.by = "good" /\ content.image = StagedImage

\* While the NPU is at work its queue is not consumed, so once QREAD has shown a
\* consumed queue nothing more is written to the arena before it is compared and
\* copied.
ServedInv ==
  /\ npu.st = "busy" => ~npu_qread
  /\ run_pc \in {"read", "stopped", "verified"} /\ ret_code = 0 => npu.st # "busy"
  /\ run_pc = "verified" /\ ret_code = 0 => GoodFor(ofm)
  /\ run_pc = "returned" /\ run_rc = 0 => GoodFor(region)
  /\ runner_state = "RESULT_READY" /\ run_rc = 0 => GoodFor(region)

-----------------------------------------------------------------------------
(* One run's evidence.                                                     *)

\* A step that leaves the runs alone, sends no RUN_COMPLETE and does not enter or
\* leave handle_run keeps EvidenceInv.
LEMMA SameEvidence ==
  ASSUME EvidenceInv, UNCHANGED runVars, tx'.kind # "RUN_COMPLETE",
         run_pc' \in InHandleRun => run_pc \in InHandleRun,
         run_pc' # "closed", run_pc' # "returned"
  PROVE  EvidenceInv'
BY DEF EvidenceInv, EvidenceAgrees, runVars, latchVars

\* A command moves the latch, the record or the counter only when RUN is accepted, or
\* RESET clears the latch.
LEMMA CommandEvidence == TypeOK /\ EvidenceInv /\ Command => EvidenceInv'
<1> SUFFICES ASSUME TypeOK, EvidenceInv, NEW q \in Seqs,
                    AnyCommand(q) \/ UploadCommand(q) \/ RunCommand(q)
             PROVE  EvidenceInv'
  BY DEF Command
<1> USE DEF Answer, Enter, Transmit, Ack, AckOf, Nack, NoFrame, InHandleRun, Dispatch
<1>1. CASE AnyCommand(q)
  BY <1>1, SameEvidence
  DEF AnyCommand, RefuseFrame, RefuseState, RefusePayload, AnswerStatus
<1>2. CASE UploadCommand(q)
  BY <1>2, SameEvidence
  DEF UploadCommand, LoadModelBegin, RefuseModelBegin, StageChunk, RefuseChunk,
      RepeatChunk, LoadModelEnd, LoadInput
<1>3. CASE AcceptRun(q)
  BY <1>3
  DEF AcceptRun, InvalidateResult, EvidenceInv, EvidenceAgrees, TypeOK, RunTypeOK, Measurement
<1>4. CASE ResetRunner(q)
  BY <1>4
  DEF ResetRunner, ClearLatch, CounterAfterReset, EvidenceInv, EvidenceAgrees,
      TypeOK, RunTypeOK
<1>5. ASSUME NEW n, NEW inside, GetResult(q, n, inside) PROVE EvidenceInv'
  BY <1>5, SameEvidence DEF GetResult
<1>6. CASE GetMeasurement(q)
  BY <1>6, SameEvidence DEF GetMeasurement
<1>7. ASSUME NEW mode, NEW set, NEW count,
             \/ SetInstrumentationMode(q, mode, set, count)
             \/ RefuseMode(q, mode, count)
      PROVE  EvidenceInv'
  BY <1>7
  DEF SetInstrumentationMode, RefuseMode, EvidenceInv, EvidenceAgrees, runVars, latchVars
<1> QED
  BY <1>1, <1>2, <1>3, <1>4, <1>5, <1>6, <1>7 DEF RunCommand

\* handle_run's steps: the run is entered in the latch and in the record together.
LEMMA FirmwareEvidence ==
  ASSUME TypeOK, ControlInv, EvidenceInv, FirmwareStep
  PROVE  EvidenceInv'
<1> USE DEF Silent, NoFrame, InHandleRun, InDriver, InWrapper
<1>1. CASE Boot
  BY <1>1 DEF Boot, ClearLatch, EvidenceInv, EvidenceAgrees, TypeOK, RunTypeOK
<1>2. CASE OpenWindow
  BY <1>2 DEF OpenWindow, latchVars, EvidenceInv, EvidenceAgrees
<1>3. CASE PrepareWorkload
  BY <1>3, SameEvidence DEF PrepareWorkload, InWindow
<1>4. CASE RefuseWorkload
  BY <1>4 DEF RefuseWorkload, InWindow, RC_REFUSED, EvidenceInv, EvidenceAgrees
<1>5. CASE DriverRun
  BY <1>5, SameEvidence
  DEF DriverRun, Start, WakeByIrq, GiveUp, ReadQread, StopNpu, VerifyOutput, DriverStep
<1>6. CASE ReturnOutput
  BY <1>6 DEF ReturnOutput, InWindow, vendorVars, ControlInv, EvidenceInv, EvidenceAgrees
<1>7. ASSUME NEW timed \in BOOLEAN, CloseWindow(timed) PROVE EvidenceInv'
  BY <1>7 DEF CloseWindow, EvidenceInv, EvidenceAgrees
<1>8. CASE SendRunComplete
  BY <1>8
  DEF SendRunComplete, Transmit, RunComplete, runVars, latchVars, EvidenceInv, EvidenceAgrees
<1> QED
  BY <1>1, <1>2, <1>3, <1>4, <1>5, <1>6, <1>7, <1>8 DEF FirmwareStep

\* EvidenceInv is inductive, given where the thread is.
LEMMA EvidenceInductive ==
  /\ Init => EvidenceInv
  /\ TypeOK /\ ControlInv /\ EvidenceInv /\ [Next]_vars => EvidenceInv'
<1>1. Init => EvidenceInv
  BY DEF Init, ProtocolInit, RunInit, NoFrame, NoMeasurement, EvidenceInv,
         EvidenceAgrees, InHandleRun
<1>2. ASSUME TypeOK, ControlInv, EvidenceInv, [Next]_vars PROVE EvidenceInv'
  <2>1. CASE PowerCycle
    BY <2>1
    DEF PowerCycle, ClearLatch, NoFrame, NoMeasurement, EvidenceInv, EvidenceAgrees,
        InHandleRun
  <2>2. CASE UNCHANGED vars
    BY <1>2, <2>2
    DEF vars, protocolVars, vendorVars, runVars, latchVars, EvidenceInv, EvidenceAgrees
  <2>3. CASE Device
    BY <1>2, <2>3
    DEF Device, NpuStep, Silent, NoFrame, runVars, latchVars, EvidenceInv, EvidenceAgrees
  <2>4. CASE Interrupt
    BY <1>2, <2>4
    DEF Interrupt, TakeIrq, BootHandlerIrq, Silent, NoFrame, runVars, latchVars,
        vendorVars, EvidenceInv, EvidenceAgrees, InHandleRun
  <2> QED
    BY <1>2, <2>1, <2>2, <2>3, <2>4, CommandEvidence, FirmwareEvidence DEF Next
<1> QED
  BY <1>1, <1>2

\* The latch, the record and the RUN_COMPLETE frame are of one run whenever a host
\* can read any of them (measure.c:448-457, 863-872, 886-897).
THEOREM EvidenceHolds == Spec => []EvidenceAgrees
<1>1. EvidenceInv => EvidenceAgrees
  BY DEF EvidenceInv
<1> QED
  BY <1>1, EvidenceInductive, TypeCorrect, ControlCorrect, PTL DEF Spec

\* No run takes the number of the record that is still served, although RESET
\* forgets the last run and keeps the record (proto.c:245-246).
THEOREM NumbersIncrease == Spec => NewRunNewNumber
<1>1. TypeOK /\ EvidenceInv /\ [Next]_vars =>
        [run_pc = "parser" /\ run_pc' = "accepted" /\ last_measurement.valid
           => last_run_sequence' > last_measurement.run]_vars
  <2> SUFFICES ASSUME TypeOK, EvidenceInv, Next, run_pc = "parser", run_pc' = "accepted"
               PROVE  last_run_sequence' > last_measurement.run
    OBVIOUS
  <2>1. PICK q \in Seqs : AcceptRun(q)
    <3>1. ~FirmwareStep /\ ~Interrupt /\ ~Device /\ ~PowerCycle
      BY DEF FirmwareStep, Boot, OpenWindow, PrepareWorkload, RefuseWorkload,
             DriverRun, Start, WakeByIrq, GiveUp, ReadQread, StopNpu, VerifyOutput,
             DriverStep, ReturnOutput, InWindow, CloseWindow, SendRunComplete,
             Interrupt, TakeIrq, BootHandlerIrq, Device, NpuStep, PowerCycle
    <3>2. ASSUME NEW q \in Seqs, AnyCommand(q) \/ UploadCommand(q) \/ RunCommand(q)
          PROVE  AcceptRun(q)
      BY <3>2
      DEF AnyCommand, RefuseFrame, RefuseState, RefusePayload, AnswerStatus, Answer, Enter,
          UploadCommand, LoadModelBegin, RefuseModelBegin, StageChunk, RefuseChunk,
          RepeatChunk, LoadModelEnd, LoadInput, RunCommand, GetResult, GetMeasurement,
          SetInstrumentationMode, RefuseMode, ResetRunner
    <3> QED BY <3>1, <3>2 DEF Next, Command
  <2> QED
    BY <2>1 DEF AcceptRun, EvidenceInv, TypeOK, RunTypeOK, Measurement
<1>2. Spec => [](TypeOK /\ EvidenceInv)
  BY EvidenceInductive, TypeCorrect, ControlCorrect, PTL DEF Spec
<1> QED
  BY <1>1, <1>2, PTL DEF Spec, NewRunNewNumber

-----------------------------------------------------------------------------
(* Correct outputs, also when a job ends under a later run.                *)

\* A step outside the driver that leaves the device alone, and the result with it
\* while there is one, keeps ServedInv.
LEMMA SameServed ==
  ASSUME ServedInv, UNCHANGED <<npu, npu_qread>>, run_pc' \in {"parser", "accepted"},
         runner_state' = "RESULT_READY" =>
           /\ runner_state = "RESULT_READY"
           /\ UNCHANGED <<run_rc, region, StagedImage>>
  PROVE  ServedInv'
BY DEF ServedInv, GoodFor

\* No command hands over a result it has not got; an upload withdraws it.
LEMMA CommandServed == ServedInv /\ Command => ServedInv'
<1> SUFFICES ASSUME ServedInv, NEW q \in Seqs,
                    AnyCommand(q) \/ UploadCommand(q) \/ RunCommand(q)
             PROVE  ServedInv'
  BY DEF Command
<1> USE DEF Dispatch, Answer, Enter, command_allowed, Accepts, Always, vendorVars, deviceVars,
            StagedImage, Digest, uploadVars, contextVars
<1>1. CASE AnyCommand(q)
  BY <1>1, SameServed
  DEF AnyCommand, RefuseFrame, RefuseState, RefusePayload, AnswerStatus, runVars, latchVars
<1>2. CASE UploadCommand(q)
  BY <1>2, SameServed
  DEF UploadCommand, LoadModelBegin, RefuseModelBegin, StageChunk, RefuseChunk,
      RepeatChunk, LoadModelEnd, LoadInput
<1>3. CASE AcceptRun(q)
  BY <1>3, SameServed DEF AcceptRun
<1>4. CASE ResetRunner(q)
  BY <1>4, SameServed DEF ResetRunner
<1>5. ASSUME NEW n, NEW inside, GetResult(q, n, inside) PROVE ServedInv'
  BY <1>5, SameServed DEF GetResult, runVars, latchVars
<1>6. CASE GetMeasurement(q)
  BY <1>6, SameServed DEF GetMeasurement, runVars, latchVars
<1>7. ASSUME NEW mode, NEW set, NEW count,
             \/ SetInstrumentationMode(q, mode, set, count)
             \/ RefuseMode(q, mode, count)
      PROVE  ServedInv'
  BY <1>7, SameServed DEF SetInstrumentationMode, RefuseMode, runVars, latchVars
<1> QED
  BY <1>1, <1>2, <1>3, <1>4, <1>5, <1>6, <1>7 DEF RunCommand

\* The driver: rc 0 from QREAD says that the job is over, and from the comparison
\* that the output is the staged image's.
LEMMA DriverServed ==
  ASSUME TypeOK, ControlInv, ModelInv, ServedInv, DriverRun
  PROVE  ServedInv'
<1> USE DEF DriverStep, InHandleRun
<1>1. UNCHANGED <<StagedImage, runner_state, run_rc, region>>
  BY DEF DriverRun, Start, WakeByIrq, GiveUp, ReadQread, StopNpu, VerifyOutput,
         uploadVars, contextVars, runVars, latchVars, StagedImage, Digest
<1>2. runner_state = "RUNNING"
  BY DEF DriverRun, Start, WakeByIrq, GiveUp, ReadQread, StopNpu, VerifyOutput,
         ControlInv
<1>3. CASE Start(last_run_sequence, StagedImage)
  BY <1>1, <1>2, <1>3 DEF Start, JobTaken, StartIgnored, ServedInv
<1>4. CASE WakeByIrq
  BY <1>1, <1>2, <1>4 DEF WakeByIrq, deviceVars, ServedInv
<1>5. CASE GiveUp
  BY <1>1, <1>2, <1>5 DEF GiveUp, deviceVars, ServedInv
<1>6. CASE ReadQread
  BY <1>1, <1>2, <1>6 DEF ReadQread, deviceVars, ServedInv
<1>7. CASE StopNpu
  BY <1>1, <1>2, <1>7 DEF StopNpu, driverVars, ServedInv
<1>8. ASSUME NEW matches \in OutputMatches, VerifyOutput(matches) PROVE ServedInv'
  <2>1. matches => GoodFor(ofm)
    BY <1>2, <1>8 DEF OutputMatches, GoodFor, ModelInv, ModelIntact, ModelStates
  <2>2. ret_code' = 0 => ret_code = 0 /\ GoodFor(ofm)
    BY <1>8, <2>1 DEF VerifyOutput, VendorRc, TypeOK, VendorTypeOK
  <2> QED
    BY <1>1, <1>2, <1>8, <2>2 DEF VerifyOutput, deviceVars, ServedInv, GoodFor
<1> QED
  BY <1>3, <1>4, <1>5, <1>6, <1>7, <1>8 DEF DriverRun

\* handle_run publishes the region only as the driver's return code has it.
LEMMA FirmwareServed ==
  ASSUME TypeOK, ControlInv, ModelInv, ServedInv, FirmwareStep
  PROVE  ServedInv'
<1> USE DEF InHandleRun, InWindow
<1>1. CASE Boot
  BY <1>1, SameServed DEF Boot, vendorVars, deviceVars
<1>2. CASE OpenWindow
  BY <1>2 DEF OpenWindow, deviceVars, ControlInv, ServedInv
<1>3. CASE PrepareWorkload
  BY <1>3 DEF PrepareWorkload, ControlInv, ServedInv
<1>4. CASE RefuseWorkload
  BY <1>4 DEF RefuseWorkload, RC_REFUSED, ControlInv, ServedInv
<1>5. CASE DriverRun
  BY <1>5, DriverServed
<1>6. CASE ReturnOutput
  <2>1. StagedImage' = StagedImage
    BY <1>6 DEF ReturnOutput, uploadVars, contextVars, StagedImage, Digest
  <2> QED
    BY <1>6, <2>1
    DEF ReturnOutput, RC_KNOB, vendorVars, deviceVars, ControlInv, ServedInv, GoodFor
<1>7. ASSUME NEW timed \in BOOLEAN, CloseWindow(timed) PROVE ServedInv'
  <2>1. StagedImage' = StagedImage
    BY <1>7 DEF CloseWindow, uploadVars, contextVars, StagedImage, Digest
  <2> QED
    BY <1>7, <2>1 DEF CloseWindow, deviceVars, ServedInv, GoodFor
<1>8. CASE SendRunComplete
  BY <1>8, SameServed
  DEF SendRunComplete, vendorVars, deviceVars, runVars, latchVars, uploadVars,
      contextVars, StagedImage, Digest
<1> QED
  BY <1>1, <1>2, <1>3, <1>4, <1>5, <1>6, <1>7, <1>8 DEF FirmwareStep

\* The device: a job, of whatever run, ends once, and has then consumed its queue.
LEMMA DeviceServed ==
  ASSUME TypeOK, ImageKept, ServedInv, Device \/ Interrupt
  PROVE  ServedInv'
<1>0. StagedImage' = StagedImage
  BY DeviceKeepsImage DEF Interrupt, uploadVars, contextVars, StagedImage, Digest
<1>1. UNCHANGED <<StagedImage, runner_state, run_rc, region, ret_code>>
  BY <1>0
  DEF Device, NpuStep, Interrupt, TakeIrq, BootHandlerIrq, runVars, latchVars, vendorVars,
      driverVars
<1>2. CASE Device
  <2>1. npu.st = "busy" /\ npu'.st # "busy" /\ run_pc' = run_pc
    BY <1>2 DEF Device, NpuStep, JobEnds, JobFaults, JobHangs, NoJob, TypeOK, VendorTypeOK
  <2> QED
    BY <1>1, <2>1 DEF ServedInv, GoodFor
<1>3. CASE Interrupt
  BY <1>1, <1>3
  DEF Interrupt, TakeIrq, BootHandlerIrq, vendorVars, deviceVars, ServedInv, GoodFor
<1> QED
  BY <1>2, <1>3

\* ServedInv is inductive, given where the thread is and what is staged.
LEMMA ServedInductive ==
  /\ Init => ServedInv
  /\ TypeOK /\ ControlInv /\ ModelInv /\ ImageKept /\ ServedInv /\ [Next]_vars => ServedInv'
<1>1. Init => ServedInv
  BY DEF Init, ProtocolInit, VendorInit, NoJob, ServedInv
<1>2. ASSUME TypeOK, ControlInv, ModelInv, ImageKept, ServedInv, [Next]_vars
      PROVE  ServedInv'
  <2>1. CASE PowerCycle
    BY <2>1 DEF PowerCycle, VendorReset, NoJob, ServedInv
  <2>2. CASE UNCHANGED vars
    BY <1>2, <2>2
    DEF vars, protocolVars, uploadVars, contextVars, vendorVars, driverVars,
        deviceVars, runVars, latchVars, ServedInv, GoodFor, StagedImage, Digest
  <2> QED
    BY <1>2, <2>1, <2>2, CommandServed, FirmwareServed, DeviceServed DEF Next
<1> QED
  BY <1>1, <1>2

\* Only GET_RESULT acknowledges GET_RESULT, with the region as it is, after a run
\* that ended with rc 0.
LEMMA OnlyGetResultServes ==
  ASSUME Next, Sent("ACK", "GET_RESULT")'
  PROVE  /\ runner_state = "RESULT_READY" /\ run_rc = 0
         /\ tx'.data = region /\ StagedImage' = StagedImage
<1> USE DEF Sent, Answer, Enter, Transmit, Ack, AckOf, Nack, NoFrame, Silent
<1>1. ~FirmwareStep /\ ~Interrupt /\ ~Device /\ ~PowerCycle
  BY DEF FirmwareStep, Boot, OpenWindow, PrepareWorkload, RefuseWorkload,
         DriverRun, Start, WakeByIrq, GiveUp, ReadQread, StopNpu, VerifyOutput,
         DriverStep, ReturnOutput, InWindow, CloseWindow, SendRunComplete,
         RunComplete, Interrupt, TakeIrq, BootHandlerIrq, Device, NpuStep, PowerCycle
<1>2. PICK q \in Seqs : AnyCommand(q) \/ UploadCommand(q) \/ RunCommand(q)
  BY <1>1 DEF Next, Command
<1>3. ~AnyCommand(q)
  BY DEF AnyCommand, RefuseFrame, RefuseState, RefusePayload, AnswerStatus
<1>4. ~UploadCommand(q)
  BY DEF UploadCommand, LoadModelBegin, RefuseModelBegin, StageChunk, RefuseChunk,
         RepeatChunk, LoadModelEnd, LoadInput
<1>5. PICK n, inside : GetResult(q, n, inside)
  BY <1>2, <1>3, <1>4
  DEF RunCommand, AcceptRun, GetMeasurement, SetInstrumentationMode, RefuseMode, ResetRunner
<1>6. runner_state = "RESULT_READY"
  BY <1>5 DEF GetResult, Dispatch, command_allowed, Accepts, Always
<1>7. ResultValid(n) /\ tx'.data = region
  BY <1>5 DEF GetResult
<1>8. StagedImage' = StagedImage
  BY <1>5 DEF GetResult, uploadVars, contextVars, StagedImage, Digest
<1> QED
  BY <1>6, <1>7, <1>8 DEF ResultValid

\* What GET_RESULT hands out is a correct output of the image staged, although a
\* job that was given up may end, write and interrupt under a later run
\* (u85.c:117-127, 291-371), as long as it does not write staging.
THEOREM ServedIsCorrect ==
  ASSUME GivenUpWritesNothing
  PROVE  Spec => []ServedOutputIsCorrect
<1>1. Init => ServedOutputIsCorrect
  BY DEF Init, ProtocolInit, NoFrame, Sent, ServedOutputIsCorrect
<1>2. ServedInv /\ ServedOutputIsCorrect /\ [Next]_vars => ServedOutputIsCorrect'
  <2> SUFFICES ASSUME ServedInv, ServedOutputIsCorrect, [Next]_vars,
                      Sent("ACK", "GET_RESULT")'
               PROVE  tx'.data.by = "good" /\ tx'.data.image = StagedImage'
    BY DEF ServedOutputIsCorrect
  <2>1. CASE Next
    BY <2>1, OnlyGetResultServes DEF ServedInv, GoodFor
  <2>2. CASE UNCHANGED vars
    BY <2>2
    DEF ServedOutputIsCorrect, Sent, vars, protocolVars, uploadVars, contextVars,
        StagedImage, Digest
  <2> QED BY <2>1, <2>2
<1> QED
  BY <1>1, <1>2, ServedInductive, ModelAlways, TypeCorrect, ControlCorrect, PTL DEF Spec

-----------------------------------------------------------------------------
(* Retransmission.                                                         *)

\* A chunk acknowledged under the last staged one's sequence number changes
\* nothing in the staging window (proto.c:417-429).
THEOREM RetransmissionIsHarmless == Spec => RetransmissionIsIdempotent
<1>1. [Next]_vars =>
        [\A q \in Seqs :
           /\ last_chunk.valid
           /\ last_chunk.seq = q
           /\ Sent("ACK", "LOAD_MODEL_CHUNK")'
           /\ tx'.seq = q
           => UNCHANGED <<staging, model_bytes_staged, last_chunk>>]_vars
  <2> SUFFICES ASSUME Next, last_chunk.valid, Sent("ACK", "LOAD_MODEL_CHUNK")',
                      tx'.seq = last_chunk.seq
               PROVE  UNCHANGED <<staging, model_bytes_staged, last_chunk>>
    OBVIOUS
  <2> USE DEF Sent, Answer, Enter, Transmit, Ack, AckOf, Nack, NoFrame, Silent
  <2>1. ~FirmwareStep /\ ~Interrupt /\ ~Device /\ ~PowerCycle
    BY DEF FirmwareStep, Boot, OpenWindow, PrepareWorkload, RefuseWorkload,
           DriverRun, Start, WakeByIrq, GiveUp, ReadQread, StopNpu, VerifyOutput,
           DriverStep, ReturnOutput, InWindow, CloseWindow, SendRunComplete,
           RunComplete, Interrupt, TakeIrq, BootHandlerIrq, Device, NpuStep, PowerCycle
  <2>2. PICK q \in Seqs : AnyCommand(q) \/ UploadCommand(q) \/ RunCommand(q)
    BY <2>1 DEF Next, Command
  <2>3. CASE AnyCommand(q) \/ RunCommand(q)
    BY <2>3
    DEF AnyCommand, RefuseFrame, RefuseState, RefusePayload, AnswerStatus, RunCommand,
        AcceptRun, GetResult, GetMeasurement, SetInstrumentationMode, RefuseMode,
        ResetRunner, uploadVars, contextVars
  <2>4. CASE UploadCommand(q)
    BY <2>4
    DEF UploadCommand, LoadModelBegin, RefuseModelBegin, StageChunk, RefuseChunk,
        RepeatChunk, LoadModelEnd, LoadInput, IsRepeat, uploadVars, contextVars
  <2> QED BY <2>2, <2>3, <2>4
<1> QED
  BY <1>1, PTL DEF Spec, RetransmissionIsIdempotent

-----------------------------------------------------------------------------
(* The refinement.                                                          *)

\* A run that is on, or has ended, is the newest one, and one that is on was asked
\* for by a command the host sent.
NumberInv ==
  /\ last_run_completed \/ run_pc \in InHandleRun =>
       last_run_sequence = run_sequence_counter
  /\ run_pc \in InHandleRun \cup {"closed"} => run_frame \in Seqs

\* NumberInv is inductive, given EvidenceInv.
LEMMA NumberInductive ==
  /\ Init => NumberInv
  /\ TypeOK /\ EvidenceInv /\ NumberInv /\ [Next]_vars => NumberInv'
<1>1. Init => NumberInv
  BY DEF Init, ProtocolInit, RunInit, NumberInv, InHandleRun
<1>2. ASSUME TypeOK, EvidenceInv, NumberInv, [Next]_vars PROVE NumberInv'
  <2> USE DEF InHandleRun, runVars, latchVars
  <2>1. CASE Command
    <3> SUFFICES ASSUME NEW q \in Seqs, AnyCommand(q) \/ UploadCommand(q) \/ RunCommand(q)
                 PROVE  NumberInv'
      BY <2>1 DEF Command
    <3> USE DEF Answer, Enter, Dispatch
    <3>1. CASE AnyCommand(q) \/ UploadCommand(q)
      BY <1>2, <3>1
      DEF AnyCommand, RefuseFrame, RefuseState, RefusePayload, AnswerStatus,
          UploadCommand, LoadModelBegin, RefuseModelBegin, StageChunk, RefuseChunk,
          RepeatChunk, LoadModelEnd, LoadInput, NumberInv
    <3>2. CASE AcceptRun(q) \/ ResetRunner(q)
      BY <1>2, <3>2 DEF AcceptRun, InvalidateResult, ResetRunner, ClearLatch, NumberInv
    <3>3. CASE ~AcceptRun(q) /\ ~ResetRunner(q) /\ RunCommand(q)
      BY <1>2, <3>3
      DEF RunCommand, GetResult, GetMeasurement, SetInstrumentationMode, RefuseMode, NumberInv
    <3> QED BY <3>1, <3>2, <3>3
  <2>2. CASE FirmwareStep
    <3>1. CASE Boot
      BY <1>2, <3>1 DEF Boot, ClearLatch, NumberInv
    <3>2. CASE OpenWindow \/ PrepareWorkload \/ RefuseWorkload \/ ReturnOutput
      BY <1>2, <3>2
      DEF OpenWindow, PrepareWorkload, RefuseWorkload, ReturnOutput, InWindow, NumberInv
    <3>3. CASE DriverRun
      BY <1>2, <3>3
      DEF DriverRun, Start, WakeByIrq, GiveUp, ReadQread, StopNpu, VerifyOutput,
          DriverStep, NumberInv
    <3>4. ASSUME NEW timed \in BOOLEAN, CloseWindow(timed) PROVE NumberInv'
      BY <1>2, <3>4 DEF CloseWindow, NumberInv
    <3>5. CASE SendRunComplete
      BY <1>2, <3>5 DEF SendRunComplete, NumberInv
    <3> QED BY <2>2, <3>1, <3>2, <3>3, <3>4, <3>5 DEF FirmwareStep
  <2>3. CASE Interrupt \/ Device
    BY <1>2, <2>3
    DEF Interrupt, TakeIrq, BootHandlerIrq, Device, NpuStep, NumberInv
  <2>4. CASE PowerCycle
    BY <2>4 DEF PowerCycle, ClearLatch, NumberInv
  <2>5. CASE UNCHANGED vars
    BY <1>2, <2>5 DEF vars, protocolVars, NumberInv
  <2> QED BY <1>2, <2>1, <2>2, <2>3, <2>4, <2>5 DEF Next
<1> QED BY <1>1, <1>2

-----------------------------------------------------------------------------
(* The mapped state.                                                       *)

Tag == IF run_frame \in Seqs THEN run_frame ELSE CHOOSE q \in Seqs : TRUE
Available == ResultValid(last_completed_sequence)
Phase ==
  CASE run_pc \in {"off", "hung"} -> "off"
    [] run_pc = "parser" /\ Available -> "available"
    [] run_pc = "parser" /\ ~Available -> "none"
    [] OTHER -> "pending"

\* A frame that answers a command and carries no run: what the service sends when
\* it refuses or acknowledges.
Reply(kind, cmd, q) ==
  [kind |-> kind, cmd |-> KindOf(cmd), tag |-> q, n |-> 0, of |-> [epoch |-> 0, run |-> 0]]

Numbers == <<boots, run_sequence_counter, Tag>>

\* What the parser answers is a refusal or an acknowledgement of the service, if it
\* keeps the run and the phase, or withdraws the result for RESET.
LEMMA Answers ==
  ASSUME NEW q \in Seqs, run_pc = "parser", run_pc' = "parser", UNCHANGED Numbers,
         NEW c \in Commands \cup {"UNKNOWN"},
         \/ FrameSent' = Reply("NACK", c, q) /\ Phase' = Phase
         \/ /\ FrameSent' = Reply("ACK", c, q)
            /\ \/ KindOf(c) = "PING" /\ Phase' = Phase
               \/ KindOf(c) = "OTHER" /\ Phase' \in {Phase, "none"}
  PROVE  Results!Next
<1>1. Phase \in {"none", "available"}
  BY DEF Phase
<1>2. CASE FrameSent' = Reply("NACK", c, q) /\ Phase' = Phase
  <2>1. Results!Refuse(KindOf(c), q)
    BY <1>1, <1>2
    DEF Results!Refuse, Results!Listening, Results!Frame, Results!NoRun, Reply, Numbers,
        Tag, Phase, Available
  <2>2. KindOf(c) \in Results!Kinds \cup {"UNKNOWN"}
    BY DEF KindOf, Results!Kinds
  <2> QED BY <2>1, <2>2 DEF Results!Next, Results!Answer, Results!AnswerTo
<1>3. CASE FrameSent' = Reply("ACK", c, q)
            /\ (\/ KindOf(c) = "PING" /\ Phase' = Phase
                \/ KindOf(c) = "OTHER" /\ Phase' \in {Phase, "none"})
  <2>1. Results!Acknowledge(KindOf(c), q)
    BY <1>1, <1>3
    DEF Results!Acknowledge, Results!Listening, Results!Frame, Results!NoRun, Reply, Numbers,
        Tag, Phase, Available
  <2>2. KindOf(c) \in Results!Kinds
    BY <1>3 DEF Results!Kinds
  <2> QED BY <2>1, <2>2 DEF Results!Next, Results!Answer, Results!AnswerTo
<1> QED BY <1>2, <1>3

\* A silent step that keeps the run and does not end one is the service's Quiet.
LEMMA Quietly ==
  ASSUME UNCHANGED Numbers, tx' = NoFrame,
         \/ Phase' = Phase
         \/ Phase' = "off"
         \/ Phase = "off" /\ Phase' = "none"
  PROVE  Results!Next
BY DEF Results!Next, Results!Quiet, Results!Nothing, FrameSent, Numbers, Tag, Phase, Available

\* The frame the parser's handlers send, as the service has it.
LEMMA ReplySent ==
  ASSUME NEW q, NEW c \in Commands \cup {"UNKNOWN"}
  PROVE  /\ (\E e : tx' = Nack(c, q, e)) => FrameSent' = Reply("NACK", c, q)
         /\ (\E n : tx' = Ack(c, q, n)) /\ c # "GET_RESULT" =>
              FrameSent' = Reply("ACK", c, q)
BY DEF Nack, Ack, AckOf, NoFrame, FrameSent, Reply, Sent

\* Each command is a refusal, an acknowledgement, the start of a run or the serving of
\* a result, of the service.
LEMMA CommandRefines ==
  ASSUME TypeOK, ControlInv, FreshInv, NumberInv, Command
  PROVE  Results!Next
<1> SUFFICES ASSUME NEW q \in Seqs, AnyCommand(q) \/ UploadCommand(q) \/ RunCommand(q)
             PROVE  Results!Next
  BY DEF Command
<1>0. run_pc = "parser" /\ ~measurement_active /\ ~uart_tx_forbidden
  BY DEF ControlInv, InHandleRun, AnyCommand, RefuseFrame, RefuseState, RefusePayload,
         AnswerStatus, UploadCommand, LoadModelBegin, RefuseModelBegin, StageChunk,
         RefuseChunk, RepeatChunk, LoadModelEnd, LoadInput, RunCommand, AcceptRun, GetResult,
         GetMeasurement, SetInstrumentationMode, RefuseMode, ResetRunner, Dispatch
<1> USE <1>0 DEF Answer, Enter, Transmit
\* A handler that keeps the runs.
<1>1. ASSUME UNCHANGED <<boots, runVars>>, run_pc' = "parser",
             NEW c \in Commands \cup {"UNKNOWN"},
             \/ \E e : tx' = Nack(c, q, e)
             \/ (\E n : tx' = Ack(c, q, n)) /\ KindOf(c) \in {"PING", "OTHER"}
      PROVE  Results!Next
  <2>1. UNCHANGED Numbers /\ Phase' = Phase
    BY <1>1 DEF Numbers, Tag, Phase, Available, ResultValid, runVars, latchVars
  <2>2. FrameSent' = Reply("NACK", c, q)
          \/ (FrameSent' = Reply("ACK", c, q) /\ KindOf(c) \in {"PING", "OTHER"})
    BY <1>1, ReplySent DEF KindOf
  <2> QED BY <1>1, <2>1, <2>2, Answers
<1>2. CASE AnyCommand(q)
  BY <1>1, <1>2, HostAssumption
  DEF AnyCommand, RefuseFrame, RefuseState, RefusePayload, AnswerStatus, vendorVars, Commands,
      KindOf
<1>3. CASE UploadCommand(q)
  <2> USE DEF Commands, KindOf
  <2>1. run_pc' = "parser" /\ UNCHANGED <<boots, runVars>>
    BY <1>3
    DEF UploadCommand, LoadModelBegin, RefuseModelBegin, StageChunk, RefuseChunk, RepeatChunk,
        LoadModelEnd, LoadInput, vendorVars
  <2>2. ASSUME NEW n, NEW img, LoadModelBegin(q, n, img) \/ RefuseModelBegin(q, n)
        PROVE  Results!Next
    BY <1>1, <2>1, <2>2 DEF LoadModelBegin, RefuseModelBegin
  <2>3. ASSUME NEW off, NEW data,
               StageChunk(q, off, data) \/ RefuseChunk(q, off, data) \/ RepeatChunk(q, off, data)
        PROVE  Results!Next
    <3>1. CASE StageChunk(q, off, data)
      BY <1>1, <2>1, <3>1 DEF StageChunk
    <3>2. CASE RefuseChunk(q, off, data)
      BY <1>1, <2>1, <3>2 DEF RefuseChunk
    <3>3. CASE RepeatChunk(q, off, data)
      BY <1>1, <2>1, <3>3 DEF RepeatChunk
    <3> QED BY <2>3, <3>1, <3>2, <3>3
  <2>4. CASE LoadModelEnd(q) \/ LoadInput(q)
    BY <1>1, <2>1, <2>4 DEF LoadModelEnd, LoadInput
  <2> QED BY <1>3, <2>2, <2>3, <2>4 DEF UploadCommand
<1>4. CASE AcceptRun(q)
  <2>1. /\ Phase \in {"none", "available"} /\ Phase' = "pending"
        /\ Tag' = q /\ boots' = boots /\ run_sequence_counter' = run_sequence_counter + 1
    BY <1>4 DEF AcceptRun, Phase, Tag, vendorVars
  <2>2. FrameSent' = [kind |-> "ACK", cmd |-> "RUN", tag |-> q, n |-> 0,
                      of |-> [epoch |-> 0, run |-> 0]]
    BY <1>4 DEF AcceptRun, FrameSent, Ack, AckOf, NoFrame, Sent, KindOf
  <2>3. Results!Begin(q)
    BY <2>1, <2>2
    DEF Results!Begin, Results!Listening, Results!Frame, Results!NoRun, Phase, Tag, Available
  <2> QED BY <2>3 DEF Results!Next, Results!Answer, Results!AnswerTo, Results!Kinds
<1>5. CASE ResetRunner(q)
  <2>1. UNCHANGED Numbers /\ Phase' = "none" /\ run_pc' = "parser"
    BY <1>5
    DEF ResetRunner, ClearLatch, CounterAfterReset, Numbers, Tag, Phase, Available,
        ResultValid, vendorVars
  <2>2. FrameSent' = Reply("ACK", "RESET_RUNNER", q)
    BY <1>5, ReplySent DEF ResetRunner, Commands
  <2> QED BY <2>1, <2>2, Answers DEF Commands, KindOf
<1>6. ASSUME NEW n, NEW inside, GetResult(q, n, inside) PROVE Results!Next
  <2>1. CASE tx' = AckOf("GET_RESULT", q, n, region) /\ ResultValid(n)
    <3>1. runner_state = "RESULT_READY" /\ last_run_completed /\ run_rc = 0
      BY <1>6, <2>1
      DEF GetResult, Dispatch, command_allowed, Accepts, Always, ResultValid
    <3>2. region = CurrentOutput /\ n = run_sequence_counter /\ Available
      BY <2>1, <3>1 DEF FreshInv, NumberInv, ResultValid, Available
    <3>3. FrameSent' = [kind |-> "ACK", cmd |-> "GET_RESULT", tag |-> q,
                        n |-> run_sequence_counter,
                        of |-> [epoch |-> boots, run |-> run_sequence_counter]]
      BY <2>1, <3>1, <3>2
      DEF FrameSent, AckOf, NoFrame, Sent, KindOf, CurrentOutput, CurrentJob, Job, Output,
          NumberInv
    <3>4. UNCHANGED Numbers /\ Phase' = Phase /\ Phase = "available"
      BY <1>6, <3>2
      DEF GetResult, Numbers, Tag, Phase, Available, ResultValid, vendorVars, runVars,
          latchVars
    <3>5. Results!Serve(q)
      BY <3>3, <3>4
      DEF Results!Serve, Results!Frame, Results!Newest, Numbers, Tag, Phase, Available
    <3> QED BY <3>5 DEF Results!Next, Results!Answer, Results!AnswerTo, Results!Kinds
  <2>2. CASE \E e : tx' = Nack("GET_RESULT", q, e)
    BY <1>1, <1>6, <2>2 DEF GetResult, vendorVars, Commands
  <2> QED BY <1>6, <2>1, <2>2 DEF GetResult
<1>7. CASE GetMeasurement(q)
  BY <1>1, <1>7 DEF GetMeasurement, vendorVars, Commands, Always, KindOf
<1>8. ASSUME NEW mode, NEW set, NEW count,
             \/ SetInstrumentationMode(q, mode, set, count)
             \/ RefuseMode(q, mode, count)
      PROVE  Results!Next
  <2>1. UNCHANGED Numbers /\ Phase' = Phase /\ run_pc' = "parser"
    BY <1>8
    DEF SetInstrumentationMode, RefuseMode, Numbers, Tag, Phase, Available, ResultValid,
        vendorVars, runVars, latchVars
  <2>2. \/ FrameSent' = Reply("NACK", "SET_INSTRUMENTATION_MODE", q)
        \/ FrameSent' = Reply("ACK", "SET_INSTRUMENTATION_MODE", q)
    BY <1>8, ReplySent DEF SetInstrumentationMode, RefuseMode, Commands
  <2> QED BY <2>1, <2>2, Answers DEF Commands, KindOf
<1> QED
  BY <1>2, <1>3, <1>4, <1>5, <1>6, <1>7, <1>8 DEF RunCommand

\* The thread's own steps are silent in the service, but for coming up and for
\* RUN_COMPLETE.
LEMMA FirmwareRefines ==
  ASSUME TypeOK, ControlInv, EvidenceInv, NumberInv, FirmwareStep
  PROVE  Results!Next
<1> USE DEF Silent
<1>1. CASE Boot
  <2>1. UNCHANGED Numbers /\ Phase = "off" /\ Phase' = "none" /\ tx' = NoFrame
    BY <1>1 DEF Boot, ClearLatch, Numbers, Tag, Phase, Available, ResultValid, vendorVars
  <2> QED BY <2>1, Quietly
<1>2. CASE \/ OpenWindow \/ PrepareWorkload \/ RefuseWorkload \/ DriverRun \/ ReturnOutput
           \/ \E timed \in BOOLEAN : CloseWindow(timed)
  <2>1. UNCHANGED Numbers /\ Phase = "pending" /\ Phase' = "pending" /\ tx' = NoFrame
    BY <1>2
    DEF OpenWindow, PrepareWorkload, RefuseWorkload, DriverRun, Start, WakeByIrq, GiveUp,
        ReadQread, StopNpu, VerifyOutput, DriverStep, ReturnOutput, InWindow, CloseWindow,
        Numbers, Tag, Phase, vendorVars, driverVars, runVars, latchVars
  <2> QED BY <2>1, Quietly
<1>3. CASE SendRunComplete
  <2>1. ~measurement_active /\ ~uart_tx_forbidden /\ last_run_completed
    BY <1>3 DEF SendRunComplete, ControlInv, EvidenceInv, InHandleRun
  <2>2. tx' = RunComplete(Tag, run_sequence_counter)
    BY <1>3, <2>1 DEF SendRunComplete, Transmit, NumberInv, Tag
  <2>3. FrameSent' = [kind |-> "RUN_COMPLETE", cmd |-> "RUN", tag |-> Tag,
                      n |-> run_sequence_counter,
                      of |-> [epoch |-> boots, run |-> run_sequence_counter]]
    BY <1>3, <2>2 DEF SendRunComplete, FrameSent, RunComplete, NoFrame, Sent, KindOf, vendorVars
  <2>4. UNCHANGED Numbers /\ Phase = "pending" /\ Phase' \in {"available", "none"}
    BY <1>3
    DEF SendRunComplete, Numbers, Tag, Phase, vendorVars, runVars, latchVars
  <2>5. Results!End
    BY <2>3, <2>4
    DEF Results!End, Results!Frame, Results!Newest, Numbers, Tag, Phase, Available
  <2> QED BY <2>5 DEF Results!Next
<1> QED
  BY <1>1, <1>2, <1>3 DEF FirmwareStep

\* The runner keeps the service's promise, frame for frame: it answers a command
\* once, a RUN once more, and serves the newest run's result or none
\* (proto.c:531-575, 661-746, measure.c:448-457, 878-915).
THEOREM RunnerKeepsPromise ==
  ASSUME ~LateCompletion, Seqs # {}
  PROVE  Spec => ServesNewestRun
<1>1. Init => Results!Init
  <2>1. (CHOOSE q \in Seqs : TRUE) \in Seqs
    OBVIOUS
  <2> QED
    BY <2>1
    DEF Init, ProtocolInit, VendorInit, RunInit, NoFrame, FrameSent, Results!Init,
        Results!Nothing
<1>2. ASSUME TypeOK, ControlInv, EvidenceInv, FreshInv, NumberInv, [Next]_vars
      PROVE  [Results!Next]_Results!serviceVars
  <2>1. CASE Command
    BY <1>2, <2>1, CommandRefines
  <2>2. CASE FirmwareStep
    BY <1>2, <2>2, FirmwareRefines
  <2>3. CASE Interrupt \/ Device
    <3>1. UNCHANGED Numbers /\ (Phase' = Phase \/ Phase' = "off") /\ tx' = NoFrame
      BY <2>3
      DEF Interrupt, TakeIrq, BootHandlerIrq, Device, NpuStep, Silent, Numbers, Tag, Phase,
          Available, ResultValid, vendorVars, runVars, latchVars
    <3> QED BY <3>1, Quietly
  <2>4. CASE PowerCycle
    <3>1. Tag' \in Seqs
      BY DEF Tag
    <3>2. /\ boots' = boots + 1 /\ run_sequence_counter' = 0 /\ Phase' = "off"
          /\ FrameSent' = [kind |-> "NONE"]
      BY <2>4 DEF PowerCycle, Phase, FrameSent
    <3>3. Results!Restart
      BY <3>1, <3>2
      DEF Results!Restart, Results!Nothing, Tag, Phase, Available
    <3> QED BY <3>3 DEF Results!Next
  <2>5. CASE UNCHANGED vars
    BY <2>5
    DEF Results!serviceVars, vars, protocolVars, vendorVars, runVars, latchVars, FrameSent,
        ResultValid, Sent
  <2> QED BY <1>2, <2>1, <2>2, <2>3, <2>4, <2>5 DEF Next
<1>3. Spec => [](TypeOK /\ ControlInv /\ EvidenceInv)
  BY EvidenceInductive, TypeCorrect, ControlCorrect, PTL DEF Spec
<1>4. Spec => []FreshInv
  BY FreshAlways, PTL
<1>5. Spec => []NumberInv
  BY <1>3, NumberInductive, PTL DEF Spec
<1> QED
  BY <1>1, <1>2, <1>3, <1>4, <1>5, PTL DEF Spec, ServesNewestRun, Results!Spec
=============================================================================
