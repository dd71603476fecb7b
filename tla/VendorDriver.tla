---------------------------- MODULE VendorDriver ----------------------------
(***************************************************************************)
(* The vendor's test_u85 (firmware/Drivers/u85_driver/u85.c as patched by  *)
(* firmware/vendor/patch_u85_vendor_timeout.py), its interrupt handler,    *)
(* and the NPU and the interrupt controller as the driver uses them.       *)
(*                                                                         *)
(* The thread starts a job, polls a flag the handler sets, and gives up    *)
(* after a bounded number of polls.  Nothing stops a job that has been     *)
(* given up: the driver writes CMD=0 and CMD=0xC and returns.              *)
(* LateCompletion says whether such a job may still end later.             *)
(***************************************************************************)
EXTENDS RunnerProtocol

CONSTANT LateCompletion \* may the poll budget run out under a job that will end?

ASSUME LateCompletionAssumption == LateCompletion \in BOOLEAN

VARIABLES
  boots,               \* boots so far: history, to tell results apart
  irq_triggered,       \* set by the handler, cleared by wait_for_irq
  irq_never_triggered, \* a wait ran out of polls
  irq_history_mask,    \* what the last interrupt reported
  npu_vector,          \* who NVIC calls for NPU0
  npu,                 \* the device: its state and the job it holds
  npu_irq,             \* the interrupt line: "none", or what it would report
  npu_qread,           \* QREAD equals QSIZE: the command queue was consumed
  ofm,                 \* the output tensor in the workload's arena
  knobs_honoured,      \* the register overrides and POWER_CTRL took
  ret_code             \* test_u85's result so far

driverVars ==
  <<irq_triggered, irq_never_triggered, irq_history_mask, ret_code>>
deviceVars == <<npu, npu_irq, npu_qread, ofm>>
vendorVars ==
  <<boots, driverVars, npu_vector, deviceVars, knobs_honoured>>

Masks    == {"none", "expected", "other"}
Handlers == {"boot", "wrapper", "vendor"}

Job(r, img) == [boot |-> boots, run |-> r, image |-> img]

Output(who, job) ==
  [by |-> who, boot |-> job.boot, run |-> job.run, image |-> job.image]

NoJob == [st |-> "idle", boot |-> 0, run |-> 0, image |-> <<>>]

\* Whether two contents have the same CRC: only poison depends on the run.
SameBytes(x, y) ==
  /\ x.by = y.by
  /\ x.image = y.image
  /\ x.by = "poison" => x.run = y.run

-----------------------------------------------------------------------------
(* The device.  A job ends with the right or a wrong output and one        *)
(* interrupt; faults, with an interrupt that reports something else and    *)
(* the queue not consumed; or hangs for good.  What it writes to staging    *)
(* besides is MeasuredRun's JobWrites.                                     *)
JobEnds ==
  /\ npu.st = "busy"
  /\ npu' = NoJob
  /\ ofm' \in {Output("good", npu), Output("bad", npu)}
  /\ npu_irq' \in {"expected", "other"}
  /\ npu_qread' = TRUE

JobFaults ==
  /\ npu.st = "busy"
  /\ npu' = NoJob
  /\ ofm' \in {ofm, Output("bad", npu)}
  /\ npu_irq' = "other"
  /\ UNCHANGED npu_qread

JobHangs ==
  /\ npu.st = "busy"
  /\ npu' = [npu EXCEPT !.st = "hung"]
  /\ ofm' \in {ofm, Output("bad", npu)}
  /\ UNCHANGED <<npu_irq, npu_qread>>

NpuStep ==
  /\ JobEnds \/ JobFaults \/ JobHangs
  /\ Silent
  /\ UNCHANGED <<run_pc, runner_state, measurement_active, uart_tx_forbidden,
                 boots, driverVars, npu_vector, knobs_honoured>>

\* u85_irq_handler: read STATUS, record the mask, set the flag, CMD=2.
TakeIrq ==
  /\ npu_irq # "none"
  /\ npu_vector = "vendor"
  /\ irq_triggered' = TRUE
  /\ irq_history_mask' = npu_irq
  /\ npu_irq' = "none"
  /\ Silent
  /\ UNCHANGED <<run_pc, runner_state, measurement_active, uart_tx_forbidden,
                 boots, irq_never_triggered, ret_code, npu_vector, npu,
                 npu_qread, ofm, knobs_honoured>>

\* The handler of the boot image, which the runner's wrapper chains to, is
\* not the runner's: nothing says it clears the NPU's interrupt, and a line
\* it leaves raised is taken again for ever.
BootHandlerIrq ==
  /\ npu_irq # "none"
  /\ npu_vector \in {"boot", "wrapper"}
  /\ run_pc \notin {"off", "hung"}
  /\ run_pc' = "hung"
  /\ Silent
  /\ UNCHANGED <<runner_state, measurement_active, uart_tx_forbidden,
                 vendorVars>>

-----------------------------------------------------------------------------
(* The thread.  Frame conditions of the protocol: the driver sends         *)
(* nothing, its printf is wrapped and inert.                               *)
DriverStep(from, to) ==
  /\ run_pc = from
  /\ run_pc' = to
  /\ Silent
  /\ UNCHANGED <<runner_state, measurement_active, uart_tx_forbidden, boots>>

\* What a write of CMD's start bit does: the job is taken, or, on a device
\* still at work on another one, may also be ignored.
JobTaken(job) ==
  /\ npu' = [st |-> "busy", boot |-> job.boot, run |-> job.run,
             image |-> job.image]
  /\ npu_qread' = FALSE

StartIgnored == npu.st # "idle" /\ UNCHANGED <<npu, npu_qread>>

\* test_u85 to wait_for_irq: vector, registers, the apply seam, POWER_CTRL,
\* CMD=1.  irq_never_triggered is cleared by the patch, irq_triggered is not.
Start(r, img) ==
  /\ DriverStep("prepared", "waiting")
  /\ npu_vector' = "vendor"
  /\ irq_never_triggered' = FALSE
  /\ ret_code' = 0
  /\ knobs_honoured' \in BOOLEAN
  /\ JobTaken(Job(r, img)) \/ StartIgnored
  /\ UNCHANGED <<irq_triggered, irq_history_mask, npu_irq, ofm>>

WakeByIrq ==
  /\ DriverStep("waiting", "woken")
  /\ irq_triggered
  /\ UNCHANGED <<driverVars, npu_vector, deviceVars, knobs_honoured>>

\* Mutant: the wait has no poll budget.
PollsExhausted_Never == FALSE

\* Without late completions the budget outlives every job that ends at all.
PollsExhausted ==
  /\ ~irq_triggered
  /\ LateCompletion \/ (npu.st # "busy" /\ npu_irq = "none")

GiveUp ==
  /\ DriverStep("waiting", "woken")
  /\ PollsExhausted
  /\ irq_never_triggered' = TRUE
  /\ UNCHANGED <<irq_triggered, irq_history_mask, ret_code, npu_vector,
                 deviceVars, knobs_honoured>>

\* Mutant: the flag is left set for the next wait.
ClearTrigger_Omitted == UNCHANGED irq_triggered

ClearTrigger == irq_triggered' = FALSE

\* The end of wait_for_irq, then QREAD against QSIZE.
ReadQread ==
  /\ DriverStep("woken", "read")
  /\ ClearTrigger
  /\ ret_code' = IF npu_qread THEN 0 ELSE 1
  /\ UNCHANGED <<irq_never_triggered, irq_history_mask, npu_vector, deviceVars,
                 knobs_honoured>>

\* CMD=2, CMD=0, the read seam, CMD=0xC.
StopNpu ==
  /\ DriverStep("read", "stopped")
  /\ npu_irq' = "none"
  /\ UNCHANGED <<driverVars, npu_vector, npu, npu_qread, ofm, knobs_honoured>>

\* Mutant: the comparison with the reference does not reach the result.
VendorRc_NoCompare(queue, matches) ==
  (IF irq_history_mask # "expected" THEN 3 ELSE queue)
  + (IF irq_never_triggered THEN 1 ELSE 0)

\* memcmp, the interrupt mask and the timeout: each overrides or adds to rc.
VendorRc(queue, matches) ==
  (IF irq_history_mask # "expected" THEN 3
   ELSE IF ~matches THEN 2 ELSE queue)
  + (IF irq_never_triggered THEN 1 ELSE 0)

\* matches: what memcmp finds.
VerifyOutput(matches) ==
  /\ DriverStep("stopped", "verified")
  /\ ret_code' = VendorRc(ret_code, matches)
  /\ UNCHANGED <<irq_triggered, irq_never_triggered, irq_history_mask,
                 npu_vector, deviceVars, knobs_honoured>>

VendorInit ==
  /\ boots = 0
  /\ irq_triggered = FALSE
  /\ irq_never_triggered = FALSE
  /\ irq_history_mask = "none"
  /\ npu_vector = "boot"
  /\ npu = NoJob
  /\ npu_irq = "none"
  /\ npu_qread = FALSE
  /\ ofm = Unknown
  /\ knobs_honoured = TRUE
  /\ ret_code = 0

\* What a reset does to the driver and the device; the arena is memory.
VendorReset ==
  /\ irq_triggered' = FALSE
  /\ irq_never_triggered' = FALSE
  /\ irq_history_mask' = "none"
  /\ npu_vector' = "boot"
  /\ npu' = NoJob
  /\ npu_irq' = "none"
  /\ npu_qread' = FALSE
  /\ knobs_honoured' = TRUE
  /\ ret_code' = 0
  /\ UNCHANGED ofm

VendorTypeOK(Img) ==
  /\ boots \in Nat
  /\ irq_triggered \in BOOLEAN
  /\ irq_never_triggered \in BOOLEAN
  /\ irq_history_mask \in Masks
  /\ npu_vector \in Handlers
  /\ npu \in [st : {"idle", "busy", "hung"}, boot : Nat, run : Nat, image : Img]
  /\ npu_irq \in Masks
  /\ npu_qread \in BOOLEAN
  /\ ofm \in Content(Img)
  /\ knobs_honoured \in BOOLEAN
  /\ ret_code \in Nat
=============================================================================
