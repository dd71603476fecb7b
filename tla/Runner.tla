------------------------------- MODULE Runner -------------------------------
(***************************************************************************)
(* The measurement runner, whole: the firmware's one thread (main.c), the  *)
(* NPU and its interrupt beside it, resets at any moment, and a host that  *)
(* sends any command at any time, well-formed or not.                      *)
(***************************************************************************)
EXTENDS MeasuredRun

CONSTANTS
  Sends,     \* the commands a host sends, where only their name matters
  Seqs,      \* frame sequence numbers a host uses
  Chunks,    \* the data of the chunks a host sends
  Images,    \* the digests a host announces
  MaxBoots   \* bound on boots

ASSUME HostAssumption ==
  /\ Sends \subseteq Commands
  /\ Seqs \subseteq Nat
  /\ Chunks \subseteq Image \ {<<>>}
  /\ Images \subseteq Image
  /\ MaxBoots \in Nat

vars == <<protocolVars, uploadVars, vendorVars, runVars>>

Init == ProtocolInit /\ UploadInit /\ VendorInit /\ RunInit

-----------------------------------------------------------------------------
\* A reset, at any moment: .bss is lost; the staging window, the arena and
\* the NOLOAD result region are memory, and keep or lose what they held.
PowerCycle ==
  /\ boots < MaxBoots
  /\ boots' = boots + 1
  /\ run_pc' = "off"
  /\ runner_state' = "BOOT"
  /\ measurement_active' = FALSE
  /\ uart_tx_forbidden' = FALSE
  /\ tx' = NoFrame
  /\ tx_refused' = FALSE
  /\ staging' \in [Offset -> Byte]
  /\ ClearUpload
  /\ VendorReset
  /\ run_sequence_counter' = 0
  /\ ClearLatch
  /\ last_measurement' = NoMeasurement
  /\ region' = region
  /\ original_u85_handler' = "none"
  /\ instr_cfg' = NoConfig
  /\ run_cfg' = NoConfig
  /\ run_frame' = 0

\* main up to its loop.
Boot ==
  /\ run_pc = "off"
  /\ run_pc' = "parser"
  /\ runner_state' = "IDLE"
  /\ Silent
  /\ ClearUpload
  /\ ClearLatch
  /\ UNCHANGED <<measurement_active, uart_tx_forbidden, staging, vendorVars,
                 run_sequence_counter, last_measurement, region,
                 original_u85_handler, instr_cfg, run_cfg, run_frame>>

AnyCommand(q) ==
  /\ \/ RefuseFrame(q)
     \/ \E c \in Sends :
          RefuseState(c, q) \/ RefusePayload(c, q) \/ AnswerStatus(c, q)
  /\ UNCHANGED <<uploadVars, vendorVars, runVars>>

UploadCommand(q) ==
  /\ \/ \E n \in 0 .. StagingSize + 1, img \in Images :
          LoadModelBegin(q, n, img) \/ RefuseModelBegin(q, n)
     \/ \E off \in 0 .. StagingSize, data \in Chunks :
          \/ StageChunk(q, off, data)
          \/ RefuseChunk(q, off, data)
          \/ RepeatChunk(q, off, data)
     \/ LoadModelEnd(q)
     \/ LoadInput(q)
  /\ UNCHANGED <<vendorVars, runVars>>

RunCommand(q) ==
  \/ AcceptRun(q)
  \/ \E n \in 0 .. MaxRuns, inside \in BOOLEAN : GetResult(q, n, inside)
  \/ GetMeasurement(q)
  \/ \E mode \in Modes \cup {"PER_LAYER"}, set \in EventSets,
        count \in 0 .. EffectiveSlots + 1 :
       SetInstrumentationMode(q, mode, set, count) \/ RefuseMode(q, mode, count)
  \/ ResetRunner(q)

Command == \E q \in Seqs : AnyCommand(q) \/ UploadCommand(q) \/ RunCommand(q)

\* The thread while it is not waiting for a frame.
FirmwareStep ==
  \/ Boot
  \/ OpenWindow
  \/ PrepareWorkload
  \/ RefuseWorkload
  \/ DriverRun
  \/ ReturnOutput
  \/ \E timed \in BOOLEAN : CloseWindow(timed)
  \/ SendRunComplete

Interrupt ==
  /\ TakeIrq \/ BootHandlerIrq
  /\ UNCHANGED <<uploadVars, runVars>>

Device == NpuStep /\ JobWrites /\ UNCHANGED <<contextVars, runVars>>

Next == Command \/ FirmwareStep \/ Interrupt \/ Device \/ PowerCycle

Spec == Init /\ [][Next]_vars

\* The thread keeps running, a raised interrupt is taken, and the NPU ends,
\* faults or hangs.  Nothing is assumed of the host or of resets.
Fairness ==
  /\ WF_vars(FirmwareStep)
  /\ WF_vars(TakeIrq /\ UNCHANGED <<uploadVars, runVars>>)
  /\ WF_vars(Device)

FairSpec == Spec /\ Fairness

-----------------------------------------------------------------------------
\* Every variable keeps to its type; the announced length, in particular, to
\* the staging window (proto.c:372) and the counters asked for to those the
\* device has (measure.c:1080).
TypeOK ==
  /\ ProtocolTypeOK(Image)
  /\ UploadTypeOK
  /\ VendorTypeOK(Image)
  /\ RunTypeOK

-----------------------------------------------------------------------------
(* Safety.                                                                 *)

\* Whenever the runner says a model is ready, or runs it, or has a result of
\* it, the staging window still holds the image the host announced: through
\* retransmitted and overlapping chunks, earlier uploads that nothing cleared,
\* resets, and workloads whose tensors, in staging behind the image, the loader
\* fills and the NPU writes (proto.c handle_load_model_*, pmwl.c:82-106).  It
\* holds if GivenUpWritesNothing does: a job given up may write on behind its
\* own image when a longer one has been staged there since.
ModelIntact ==
  runner_state \in ModelStates =>
    /\ model_total_length \in 1 .. StagingSize
    /\ StagedImage = model_expected_crc

\* A chunk acknowledged under the sequence number of the last one staged is
\* that chunk again: no byte is written and none is counted twice
\* (proto.c:417-429).
RetransmissionIsIdempotent ==
  [][\A q \in Seqs :
       /\ last_chunk.valid
       /\ last_chunk.seq = q
       /\ Sent("ACK", "LOAD_MODEL_CHUNK")'
       /\ tx'.seq = q
       => UNCHANGED <<staging, model_bytes_staged, last_chunk>>]_vars

\* The bytes GET_RESULT acknowledges are the correct output of the job that
\* the run the host names submitted, in this boot, on the image still staged:
\* "It NEVER returns stale bytes" (main.c:58), "the bytes returned belong to
\* the RUN the host is asking about" (main.c:71-72).
ResultIsFresh ==
  Sent("ACK", "GET_RESULT") =>
    tx.data = Output("good", [boot |-> boots, run |-> tx.n,
                              image |-> StagedImage])

\* Even when jobs outlive the wait that gave them up and end under a later
\* run, what GET_RESULT acknowledges is a correct output of the image that is
\* staged, never a wrong one nor another image's: memcmp, QREAD, the mask and
\* the timeout together leave no other way to rc 0 (u85.c:294-370).  It holds if
\* GivenUpWritesNothing does.
ServedOutputIsCorrect ==
  Sent("ACK", "GET_RESULT") =>
    tx.data.by = "good" /\ tx.data.image = StagedImage

\* The five latch variables, the record and the RUN_COMPLETE frame speak of
\* one and the same run at any moment a host can read any of them, although
\* they are written in different steps and RESET clears some of them only
\* (measure.c:448-457, 863-872, 886-897).
EvidenceAgrees ==
  /\ last_run_completed =>
       /\ last_completed_sequence = last_run_sequence
       /\ last_measurement.run = last_run_sequence
       /\ last_measurement.rc = run_rc
       /\ last_measurement.flags = last_valid_flags
       /\ run_rc = 0 => ~last_measurement.hijack_survived
  /\ tx.kind = "RUN_COMPLETE" =>
       tx.n = last_measurement.run /\ last_run_completed

\* No frame is ever handed to put_raw while it refuses to transmit, so no
\* reply is lost on the board: "the load-bearing runtime evidence remains
\* uart_bytes_during_measurement == 0" (main.c:137).
NoFrameRefused == ~tx_refused

\* Between runs the NPU interrupt has its boot-time vector back, and what the
\* wrapper would chain to is never the wrapper: "a repeated install must NEVER
\* capture the wrapper as its own original" (measure.c:135-136).
VectorRestored ==
  /\ original_u85_handler # "wrapper"
  /\ run_pc \in {"parser", "accepted"} => npu_vector = "boot"

\* No run starts with the flag of an earlier run's interrupt still set: its
\* wait would return at once (u85.c:117-128, test_u85 does not clear it).
NoStaleTrigger == run_pc = "prepared" => ~irq_triggered

\* A run never takes the number of the record GET_MEASUREMENT still serves,
\* even across RESET, which forgets the last run but not the record: the
\* counter "must keep increasing across a soft reset" (proto.c:245-246).
NewRunNewNumber ==
  [][run_pc = "parser" /\ run_pc' = "accepted" /\ last_measurement.valid
       => last_run_sequence' > last_measurement.run]_vars

-----------------------------------------------------------------------------
(* Liveness.                                                               *)

\* An accepted run comes to an end the host hears of: RUN_COMPLETE for the
\* RUN command it sent, unless the board is reset.
RunIsAnswered ==
  \A q \in Seqs :
    (run_pc = "accepted" /\ run_frame = q)
      ~> (tx.kind = "RUN_COMPLETE" /\ tx.seq = q) \/ run_pc = "off"

-----------------------------------------------------------------------------
(* The result service the runner is: a run is pending from its ACK to its  *)
(* RUN_COMPLETE, and a result is available while GET_RESULT's five         *)
(* conditions hold.                                                        *)
KindOf(c) ==
  IF c \in {"PING", "RUN", "GET_RESULT", "UNKNOWN"} THEN c ELSE "OTHER"

FrameSent ==
  IF tx = NoFrame THEN [kind |-> "NONE"]
  ELSE [kind |-> tx.kind, cmd |-> KindOf(tx.cmd), tag |-> tx.seq,
        n  |-> IF tx.kind = "RUN_COMPLETE" \/ Sent("ACK", "GET_RESULT")
                 THEN tx.n ELSE 0,
        of |-> CASE tx.kind = "RUN_COMPLETE" -> [epoch |-> boots, run |-> tx.n]
                 [] Sent("ACK", "GET_RESULT") ->
                      [epoch |-> tx.data.boot, run |-> tx.data.run]
                 [] OTHER -> [epoch |-> 0, run |-> 0]]

Results ==
  INSTANCE ResultService WITH
    Tags    <- Seqs,
    epoch   <- boots,
    run     <- run_sequence_counter,
    run_tag <- IF run_frame \in Seqs THEN run_frame ELSE CHOOSE q \in Seqs : TRUE,
    phase   <- CASE run_pc \in {"off", "hung"} -> "off"
                 [] run_pc = "parser" /\ ResultValid(last_completed_sequence) ->
                      "available"
                 [] run_pc = "parser" /\ ~ResultValid(last_completed_sequence) ->
                      "none"
                 [] OTHER -> "pending",
    sent    <- FrameSent

\* The runner keeps the promise of ResultService: it answers each command once,
\* under the sequence number of the command, and an acknowledged RUN once more;
\* every result it acknowledges is the newest run's, in the boot that is on,
\* and a result goes with the next RUN, RESET or power cycle and never comes
\* back (proto.c:531-575, 661-746, measure.c:448-457, 878-915).
ServesNewestRun == Results!Spec

-----------------------------------------------------------------------------
(* What comments of the code say of it.                                    *)

\* The comment on the POWER_CTRL check, pmwl.c:144: the run is refused for
\* its knobs when "POWER_CTRL at the seam is not the requested (or vendor)
\* value".
KnobRefusalMeansKnob ==
  last_run_completed /\ run_rc = RC_KNOB => ~knobs_honoured
=============================================================================
