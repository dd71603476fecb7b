# A verification development for the MPS4 prototyping board's measurement bench

The repository measures what an Ethos-U85 NPU does while it runs a compiled
workload.  A bare-metal firmware, the *runner*, takes a workload image over a
UART, runs it once under a measurement window through the vendor's own driver,
and serves the output bytes and a measurement record.  A host packs workloads,
deploys the runner on the board's card, uploads, runs, collects and judges.  The
claims are about *evidence*: the bytes served are those of the run that was
asked for, the record is of the same run and its counts are whole, what passes
the gate was measured on the right image.  This directory models the system,
checks those claims on small instances with TLC, and proves the most important
ones for every value of the constants with TLAPS.

Sections: [1 the system](#1-the-system), [2 the modules](#2-the-modules),
[3 the runs](#3-the-runs), [4 what disagrees](#4-what-disagrees),
[5 the proofs](#5-the-proofs), [6 what is not modelled](#6-what-is-not-modelled).

## 1 The system

```
  operator: deploy.sh, deploy_mlek.sh, restore*.sh -> card      packer, gates
      |  reboot from the card                                 (container, gate)
  campaign (host/board/run_pmu_events.py, board/run_campaign.sh)
      |  per event set: RESET, mode, RUNs; files -> gate, analysis
  RunnerLink (host/lib/runner_proto.py)
      |  frames with a sequence number and a CRC, over one UART
  parse_one_frame / dispatch (firmware/runner/proto.c)       one thread,
      |                                                      main.c's loop
  handle_run (measure.c) -> __wrap_test_u85 (pmwl.c)
      |     PMU (npu_pmu.c)    -> test_u85 (Drivers/u85_driver/u85.c, patched)
      |                             -> printf -> the seam (io_wrap.c)
  NPU  --- interrupt ---> vector: boot image | runner's wrapper | vendor
```

For each component: its state, its operations, what is hard, what makes it
correct.

**Wire protocol** (`runner/proto.h`, `proto.c`).  State: `runner_state`, the
acceptance table `state_accepts`, `measurement_active`, `uart_tx_forbidden`,
and the counter `uart_bytes_during_measurement`.  Operations: parse a frame,
refuse it or hand it to a handler, send ACK, NACK, RUN_COMPLETE; `put_raw`
refuses to transmit while the window is open or transmission is forbidden.
Hard: the flag is set and cleared far from the sends it governs, so a reply
can be dropped without a trace.  Correct: nothing is ever handed to `put_raw`
while it refuses.

**Frame parsers** (`proto.c:49-95, 661-738`; `runner_proto.py:318-377`).  State: the
board's position inside a frame; the host's buffer.  The board takes byte by
byte and never looks back; the host drops one byte of a bad candidate and looks
again.  Hard: lost and damaged bytes, damaged lengths, a magic that straddles
two reads or stands in a payload.  Correct: nothing is invented; the host loses
no frame that arrived whole; what the board swallows is bounded.

**Model upload** (`proto.c:223-489`).  State: the staging window and five
variables of context.  Operations: BEGIN (length, digest), CHUNK (offset,
bytes), END (CRC), LOAD_INPUT.  Hard: chunks are retransmitted when their ACK
is lost, may overlap and come in any order; nothing ever clears staging;
workloads keep tensors in staging behind the image, where a job that was given
up goes on writing.  Correct: an image that is ready, run, or has a result, is
the announced one, while jobs end within the wait; a retransmission changes
nothing.

**Measured run** (`measure.c:427-915`, `pmwl.c`).  State: the five-variable
latch, `run_sequence_counter`, the record `last_measurement`, the result region
(NOLOAD memory), the vector the wrapper replaced.  One operation, in many
steps, between which the NPU and its interrupt act.  Hard: everything of one
run must be invalidated before and published after, in the right order; the
vector passes through three owners in two files; a failure half way must not
leave a mixture.  Correct: evidence of one run, and only the run asked for is
served.

**PMU window** (`measure.c:567-731`, `npu_pmu.c`, `io_wrap.c`).  State: the PMU's
registers, the seam variables, the record's counter fields.  Operations: hold
power, reset, arm, select, enable; at one `printf` of the vendor's driver, read
the cycle counter in two halves, the overflow flags, the event counters, STATUS
and QREAD.  Hard: the counters run on the NPU's clock between any two accesses,
wrap, and read as zero without power; the record is judged by flags taken at
other moments.  Correct: a count called valid is whole and of this run; a run
the host accepts was counted to the end of its job.

**Results and configuration** (`proto.c:491-596`, `measure.c:1025-1149`).
GET_RESULT with its five conditions, GET_MEASUREMENT,
SET_INSTRUMENTATION_MODE, RESET_RUNNER.  Hard: RESET clears part of the state
(the latch, the upload) and keeps part (the record, the run counter, the event
set id and configuration sequence).  Correct: a run's number is never reused
within a boot.

**Vendor driver** (`Drivers/u85_driver/u85.c`, patched by
`vendor/patch_u85_vendor_timeout.py`).  State: `irq_triggered`,
`irq_never_triggered`, `irq_history_mask`.  Starts the job, polls a flag that
the interrupt handler sets, gives up after a bounded number of polls, compares
the output with a reference.  Hard: giving up does not stop the job; the flag
is cleared by the wait only; the flag can be set between two tests of it.
Correct: rc 0 only for a correct output; no run starts with an old flag.

**NPU, interrupt controller, the boot image's vector.**  Not in the repository;
modelled as the code uses them (section 2).

**Host link** (`host/lib/runner_proto.py`).  Request and answer by sequence
number, `run` with an ACK and a RUN_COMPLETE, the measurement record.  Hard:
stragglers of earlier exchanges and of earlier programs, timeouts that race
answers.  Correct: what a call returns belongs to that call; every call ends; a
damaged record is refused.

**Campaign** (`host/board/run_pmu_events.py`, `host/lib/pmu_events_parse.py`,
`board/run_campaign.sh`).  State: the event set and repetition under way, the
rows so far, the files of the evidence directory.  Per event set: RESET, mode,
priming, the RUNs; then four files one after the other.  Hard: a refusal, an
uncaught error or a kill at any point; ids cut into sets of the counters there
are; a directory that holds an earlier campaign's files.  Correct: what the files say is of the RUNs that were made, all of them.

**Card deployment** (`board/deploy.sh`, `restore.sh`, `deploy_mlek.sh`,
`restore_mlek.sh`).  State: the card, the backups and their digests.  Back up,
seal, write file by file, verify; undo.  Hard: a copy that fails, or leaves
other bytes, or a stop between two copies; deploys on top of deploys, into new
roots or used ones.  Correct: what the board came with is lost, and an undo
reported verified does not undo, only if a backup was spoilt in one of two ways.

**Blob format** (`host/lib/pmwl.py`, `container/pack_vela_workload.py`, `pmwl.c`).
Three programs compute the same layout: the packer, the host's parser, the
loader.  Hard: four versions chosen by the knobs and tensors.  Correct: what is
packed is what is read back and what the loader sets.

**Gates and analysis** (`firmware/gate/check_measure_symbols.py`,
`host/analysis/`).  A search over the call graph of the linked image and four
verdicts; the baseline gate over a campaign's files; stage 2A's statuses and
routes.  Hard: exceptions and flags that must excuse one thing only; statuses
computed apart and read together.  Correct: a pass means what its words say.

**Timing, timing adapters, generators, study scripts.**  Section 6.

## 2 The modules

| module | models | role |
|---|---|---|
| `RunnerProtocol` | `proto.h`, `proto.c` | states, acceptance table, refusals, the frames, `put_raw` |
| `ModelUpload` | `proto.c:223-489` | the staging window and its commands |
| `VendorDriver` | `u85.c`, the patch | `test_u85`, the interrupt handler, the device |
| `MeasuredRun` | `measure.c`, `pmwl.c`, `proto.c:491-596` | `handle_run`, `__wrap_test_u85`, results, configuration |
| `Runner`, `MCRunner` | `main.c` | all of it together with resets; the properties |
| `ResultService` | | abstract: what a host is promised about answers and results |
| `HostLink`, `MCHostLink` | `runner_proto.py` | `RunnerLink` and the line, against a board that keeps that promise |
| `MeasureWindow`, `MCMeasureWindow` | `measure.c:532-721`, `npu_pmu.c`, `io_wrap.c`, `u85.c`, `pmu_events_parse.py` | the counters in one run, the record, and what the host accepts |
| `SerialLine` | `proto.c`, `runner_proto.py` | frames as symbols, a line that loses and damages them |
| `FrameReader`, `FrameParser` | `runner_proto.py`, `proto.c` | the host's and the board's receiver |
| `Frames`, `MCFrames` | | either receiver at the end of the line; the properties |
| `ElfGates` | `check_measure_symbols.py` | the searches over the call graph, the four gates, `--advisory` |
| `WorkloadBlob` | `pmwl.py`, `pack_vela_workload.py`, `pmwl.c` | knobs, packing, parsing, loading |
| `MeasurementRecord` | `runner_proto.py` | the record's words and CRC |
| `Attribution` | `stage2a.py` | separation, statuses, routes |
| `Decisions`, `MCDecisions` | | one decision of any of the four over one input; the properties |
| `CardDeploy` | `board/*.sh` | the four scripts, command by command |
| `Campaign` | `run_pmu_events.py`, `pmu_events_parse.py` | operations, rows, verdicts, files |
| `BaselineGate` | `results.py`, `baseline_gate.py`, `stage1.py` | from files to PASS, FAIL, UNPROVEN |
| `Bench`, `MCBench` | `run_campaign.sh` | operator, card, campaign and gate together; the properties |
| `RunnerProofs`, `RunnerEvidenceProofs` | | proofs about `Runner` |
| `HostLinkProofs`, `MeasureWindowProofs`, `FramesProofs`, `DecisionsProofs`, `BenchProofs` | | proofs about those modules |
| `DataInduction` | | lemmas: induction over numbers, and that recursive functions exist and obey their equation |

Every property stands in the module whose behaviour it is about, with a comment
that says what it means and which code it concerns.

**The thread.**  The firmware has one thread.  `run_pc` says where it is: in the
parser loop, or inside `handle_run`, which is cut exactly where the NPU or the
interrupt can intervene and make a difference:

| `run_pc` | the thread has done | code |
|---|---|---|
| `off` | nothing: power is on, `main` not yet at its loop | `main.c:190-200` |
| `parser` | waits for a frame | `main.c:202` |
| `accepted` | invalidated, numbered and poisoned, sent the ACK, closed the UART | `measure.c:427-493` |
| `open` | installed the wrapper, opened the window, copied the configuration | `measure.c:494-566` |
| `prepared` | filled outputs, copied inputs | `pmwl.c:44-125` |
| `waiting` | installed the vendor's handler, programmed and started the NPU | `u85.c:149-290` |
| `woken` | saw the flag, or gave up | `u85.c:117-126` |
| `read` | cleared the flag, compared QREAD | `u85.c:127, 291-302` |
| `stopped` | acknowledged the interrupt, wrote CMD=0 and CMD=0xC | `u85.c:295-315` |
| `verified` | `memcmp`, mask and timeout are in the return code | `u85.c:320-371` |
| `returned` | copied the output to the result region, checked the knobs | `pmwl.c:126-150` |
| `closed` | closed the window, restored the vector, wrote latch and record, reopened the UART | `measure.c:735-876` |
| `hung` | never returns from the boot image's interrupt handler | |

A command handler is one action: it runs to its end in the parser, and what the
interrupt or the device do meanwhile commutes with it, since they touch no
variable a handler reads (`FreshInv` and `ControlInv` say what little they can
touch then).

**Frames of the composed runner.**  `tx` is the frame the last step put on the
wire, or none; a frame is a record with the command, the sequence number echoed,
the error, the one number a host acts on, and for GET_RESULT what the region
held.  The host is any sequence of commands in any state, well-formed or not;
the length, digest, offset, data, sequence number and the run asked for are all
chosen freely from the small sets of the configuration.  A lost reply needs no
action of its own: the model's host may send anything after anything, so in
particular what a host that missed a reply sends.

**Bytes.**  An image is the sequence of its bytes and a CRC-32 over a memory range
is the contents of the range: two different contents are taken to have
different CRCs.  A result region or an output tensor is known by who wrote it
(`Content` in `RunnerProtocol`): unknown, poison of a run, the 0xA5 fill, or the
good or a bad output of a job.  The boot and the run of an output are history
the properties read and the code never compares: `SameBytes`, the one
comparison, ignores them, as the memories of two good outputs of one image are
equal.

**External parts.**  The *NPU*: a job ends (right or wrong output, an interrupt,
the queue consumed), faults (an interrupt reporting something else, the queue
not consumed, the output perhaps touched) or hangs.  A start written to a
device still at work may be taken or ignored; the repository does not say, so
both are allowed.  While a job is at work it writes what its
workload keeps in staging (`JobWrites`), behind the image it was submitted with,
whatever is staged there by then.  `LateCompletion` says whether the poll budget
can run out under a job that will still end.  The *handler of the boot vector*: the
runner's wrapper chains to it; nothing in the repository says that it clears
the NPU's interrupt line, so an interrupt it takes may hang the thread.
*Reset*: `.bss` is lost, the result region and the arena are NOLOAD memory and
keep what they held, staging may hold anything.

`apU85Conv_TEST` between `handle_run` and `test_u85` calls it and hands on its
code, and has no step of its own.

**The promise.**  `ResultService` has no latch, poison, vector or NPU: the board
speaks only when spoken to, answers a command once under the tag it came with,
and an acknowledged RUN once more; a run takes the next number and takes the
old result away; a result appears only when that run ends; it is handed out
only for the number asked for; RESET withdraws it, a restart starts anew.
`Runner!Results` maps onto it: the phase is `pending` from the ACK of RUN to its
RUN_COMPLETE, `available` while the five conditions of GET_RESULT hold, `off`
before boot and after a hang; the run and boot handed out are those of the job
that wrote the bytes.  `ServesNewestRun` is the refinement.

**The host.**  `HostLink` uses the same abstract specification as its board, so
what is checked of the host rests on exactly what the runner is shown to do,
without the runner's state.  `commands` and `replies` are the frames on their
way, in order (it is one wire); either may lose its oldest frame at any time,
which covers the board's deafness while it runs (one byte of receive buffer)
and a parser at either end that swallows frames; a damaged command may be
refused under any sequence number.  A frame that has not arrived and one not
sent look the same to the host, so no variable says where on the wire it is.
`link` is the call that is on; `request` and `run` are one action for sending and
one for each frame read (`RequestReads`, `RunReads`), with the branches of the
code in their order.  Time is `quiet`, since `read_frame` was called, and
`elapsed`, since `run` was; `ReadWindow` is `min(5.0, max(0.5, deadline - now))`,
where a tick is at least the half second of the inner bound.  A program opens
the port, PINGs, calls what it likes, and may end at any moment; another opens
the port after it, with sequence numbers that start again and an input buffer
that was emptied of what had arrived.  A program whose first PING fails must
end, as `run_pmu_events.py` does on any failure.  `Tags` bounds the programs and
the calls of each.

A first PING may be answered by a frame left over from the program before, whose
first command had the same number.  `misled` remembers the first session to
which that happened, and `InStep` restricts `AnswerIsOwn` and `RecordIsNewest` to
that session and those before it.  The restriction is needed: a misled program
always has an answer of its own left unread, one call behind; when it ends, the
next program can take that answer, numbered as its own will be, for its second
call's.  Two programs are not enough to show this; three are.

**The PMU window.**  `MeasureWindow` cuts `handle_run` at each register access that
matters, and lets `Tick` happen between any two.  A tick advances each counter
that is powered, engaged (reset under power, as the code's comment on boots 5-8
has it), enabled and armed, and for event slots only if the slot's event
happens: events of the NPU's clock at every tick, events of a job only while one
is at work.  Slot 0 is the cycle counter in its two halves.  The record is what
RUN_COMPLETE carries until the next command.  `cycles`, `own`, `prior`, `busy` and
`abandoned` are history no action reads: what was really counted, and whether a
job was at work when the counters were read.  END_ONLY reads its counters after
the driver has released power, so they may read as zero.

**Frames on the line.**  In `SerialLine` a frame is a sequence of small numbers: a
magic of two symbols instead of four bytes, version, sequence number, length,
payload, and a CRC, the decimal number the symbols spell.  `CrcAssumption` says
what the code trusts a CRC-32 for: whatever the faults, what passes for a frame
on the line is one that was sent, to its last symbol.  TLC evaluates it for the
lines of the run; for a longer line it is the idealisation every receiver with
a CRC makes.
`FrameReader` is `_try_parse`, one action for each turn of its loop, under
`read_frame`, which reads pieces of any of three sizes; `FrameParser` is
`sync_to_magic` and `parse_one_frame`, one action for each byte.  Which symbols
were hurt is known to the properties only.

**Decisions off the board.**  `ElfGates` takes an image as what `objdump`, `nm` and the
linker's map tell of it, and searches as `reachable` does, one name at a time.
`WorkloadBlob` has the words and offsets of a packed blob, without what the
sections hold.  `MeasurementRecord` replaces the CRC-32 by a weighted sum that
tells any one damaged word.  `Attribution` takes ratios at a common scale.

**The bench.**  `CardDeploy` has one action for the check and backup at a script's
start, one for each copy or removal, one for the verification, and `Stopped`
anywhere.  A file's content is named after the image set it came from; `Torn` is
anything else.  A copy, to the card or to a backup, may be right, silently torn,
or fail; `MaxFaults` bounds the failed and torn ones, not the stops.  At most one
file of a backup is torn unnoticed, which is enough to spoil it.

A backup is named by its root and by who keeps it: `deploy.sh` in
`board-backup/current`, which `mkdir -p` accepts when it is there, `deploy_mlek.sh`
in `board-backup` of a root that must not exist (`NewRoot`).  So `deploy.sh` may
be given any root, one whose deploy is not undone too, and then writes over the
backup there; a backup that fails half-way leaves an older seal beside the new
copies.  Both scripts make the seal from the copies and check the copies against
it, never against the card.  `deploys` is the stack of deploys not undone;
`spoilt` is history: a backup was written again before its deploy was undone, or
was sealed with a torn copy in it.

`Campaign` names a record by what its run failed.  A campaign may be started after
another, in a new evidence directory or in the one before, as `mkdir -p`
(`run_campaign.sh:20`) and `exist_ok` (`run_pmu_events.py:52`) allow; the files
there stay until they are written again.  `fresh` is history: the directory was
new.  The bound `Again` names the campaigns of which a second one is made.

The operator (`Bench`) undoes deploys in reverse order, and starts a campaign only
after `deploy.sh` of the staged image reported it verified, as
`run_campaign.sh:7` asks.  Nothing else is asked of the operator.

*What the bench's properties claim.*  `OriginalsKept` and `RestoreUndoes` hold while
nothing is `spoilt`: they say that the two ways above are the only ones.  Without
that condition TLC finds both false within a few steps: `deploy.sh` tried again
into its root copies its own images over the originals', and a torn copy that
was sealed is put back and reported verified.  The properties about the gate hold
of a campaign in a new directory, at any moment, and of one in a used directory
from its end on (`OfThisCampaign`).  Without that condition TLC finds
`PassMeansEveryRunClean` and `CountedMeansEveryRunValid` false: a second campaign
killed after `runs.csv` and before `summary.json` leaves its rows beside the first
one's summary, and can pass on that.

## 3 The runs

| run | checks | bounds | what it shows |
|---|---|---|---|
| `core` | `TypeOK`, `ServedOutputIsCorrect`, `EvidenceAgrees`, `NoFrameRefused`, `VectorRestored`, `NewRunNewNumber` | two 1-byte images that keep nothing in staging, 2 runs, late completions, no reboot; 1,641,904 states | whatever the order of uploads, runs, results and RESETs, and although old jobs end under new runs, what is served is a correct output of the staged image, and latch, record and RUN_COMPLETE are of one run |
| `live` | `ResultIsFresh`, `NoStaleTrigger`, `RunIsAnswered`, `ServesNewestRun` | one image, 2 runs, 1 mode change, 1 event slot, 1 reset; 305,952 states | the served bytes are the named run's own, no run starts with an old interrupt's flag, every accepted RUN is answered even if the NPU hangs, and the runner implements `ResultService`; deadlock is checked |
| `upload` | `ModelIntact`, `RetransmissionIsIdempotent` | 2 bytes of staging, images of 1 and 2 bytes with one a prefix of the other, 2 sequence numbers, 3 bytes staged per upload, a workload that writes behind its image, jobs that end within the wait; 256,854 states | what is run is what was announced; a retransmitted chunk changes nothing |
| `link` | `LinkTypeOK`, `AnswerIsOwn`, `RecordIsNewest`, `CallEnds` | 3 programs of 3, 2 and 2 calls, 2 commands under way, 1 restart, reads of 2 ticks in a run of 3; 1,343,676 states | what a call returns is the answer to it; a record is the board's newest run's; every call ends |
| `window` | `CyclesAreWhole`, `AcceptedCoversJob`, `EventsAreOwn` | 2 event slots, a cycle counter that wraps after 4 cycles and event counters after 2, 2 tries to read, 2 runs, 4 ticks a run; 2,493,013 states | a count called valid is the whole count of this run; a run the host accepts was counted until its job ended, with its own events |
| `frames` | `HostLosesNoFrame`, `HostStallBounded`, `BoardInventsNothing`, `BoardSwallowBounded`, `CleanLineDelivers` | four frames, one with the magic in its payload, payloads up to 2 symbols, up to 2 symbols lost or damaged anywhere, reads of any of three sizes; 291,725 states | what either receiver returns after a fault, how far the fault reaches, and that a clean line delivers everything |
| `decisions` | `CleanMeansSilent`, `AdvisoryExcusesOneGate`, `BlobReadsBack`, `BlobSectionsApart`, `LoaderHonoursBlob`, `RecordSurvives`, `ClaimsHoldForEveryRun`, `EveryOperatorRouted` | every linked image, packing, record and metric of small sets; 174,928 states | a clean build is silent in the window; packer, parser and loader agree about a blob; a damaged record is not read as another; a claim of stage 2A holds for every run it rests on |
| `bench` | `OriginalsKept`, `RestoreUndoes`, `PassIsOfTheProfileImage`, `PassMeansEveryRunClean`, `CountedMeansEveryRunValid` | 3 scripts and campaigns, 2 faulty writes, any stops, 2 evidence roots (symmetric), new or used, campaigns of 2 repeats of 1 or 2 sets, second campaigns of 1 set; 7,808,122 states | the card's first content survives and an undo undoes unless a backup was spoilt, and what passes the gate was measured whole on the right image |
| `late` | `ResultIsFresh` | as `live`, with late completions, no reset | expected violation, section 4 |
| `knob` | `KnobRefusalMeansKnob` | as `live`, a workload that asks for no knob, no mode change, no reset | expected violation, section 4 |
| `silence` | `SilenceMeansTimeout` | as `link` | expected violation, section 4 |
| `archive` | `ArchivesEveryRun` | as `bench`, 1 fault | expected violation, section 4 |

*The bounds of the runner.*  `MaxRuns` 2: every hazard of results is between one
run and the next; a third adds no state a second does not have (the counter
only grows).  `StagingSize` 2 is the smallest window with a byte inside and one
behind an image, an overlap, and an image that is a prefix of another; offsets
and lengths are offered up to one past the window, so both sides of each range
check happen.  `MaxStaged` bounds the bytes-staged counter, which no decision
reads: 3 is one more than an upload needs, so a chunk can come again under a
new number.  Two sequence numbers: the same as the last chunk's, and another.
`MaxConfigs` bounds the configuration counter; `EffectiveSlots` 0 or 1 with
counts up to one more gives each refusal of a mode.  `MaxBoots` counts resets: in
`live` one may come at any step.

*Of the link.*  Three calls are PING and two more, enough for a run that is given
up and the next one; two programs are enough for numbers that repeat, the third
is there for the answers a misled one leaves.  A run's limit is not a multiple
of a read's, so the deadline falls inside a read.

*Of the window.*  A half of two values carries in the middle of a read and wraps
within a run's ticks; `MaxTicks` 4 is a full turn of the cycle counter and two of
an event counter.  The code tries a two-half read four times; `READ_TRIES` 2 is
the least with a retry that succeeds and one that gives up.
The second run meets whatever the first left armed, counting, or at work.

*Of the line.*  Two faults are the least with which a fault can hide another (a
damaged length, and a loss in the frame it swallows).  Four frames leave two
whole ones after the last that two faults can touch.

*Of the bench.*  Three scripts are two deploys of either kind, one on top of the
other, in one root or two, and the undo of the last; or a deploy and two
campaigns (`MaxScripts` counts both).  Two faulty writes: one in a deploy and one in
its undo.  Two sets of ids are the least with rows of one set missing from
another; with two event slots, three ids make two sets.  Second campaigns (`Again`)
are of one set, as only such can pass the gate.  A fourth script would be needed
to show that `PassIsOfTheProfileImage` needs `OfThisCampaign`: two deploys of
different images and a campaign after each.

*Symmetry* is used for the evidence roots of `bench` and `archive`, which are only
compared for equality.  Bytes appear in literal images and the numbers of runs
are compared with `<`, so nothing else is declared symmetric.

*Deadlock.*  `live` and `upload` check it.  `CHECK_DEADLOCK FALSE` elsewhere, because
the system really may stop: in `core` an interrupt that comes late can reach the
boot vector's handler and hang the thread, and nothing resets it there; in
`link` no program need call and none need be left; in `frames` the line runs dry;
in `decisions` a decision is taken once; in `bench` and `archive` the process ends;
in `window` no host need ask for another run.

*Fairness.*  `Runner!FairSpec` assumes weak fairness of three things.  The thread's
own steps: it is bare metal with nothing to preempt it but the interrupt.  The
vendor's handler: the NVIC takes a pending interrupt whose vector is installed.
The device: the NPU ends, faults or hangs, and hanging is one of its steps, so
nothing good is assumed of it.  Nothing is assumed of the host, of resets, or
of late completions.  `RunIsAnswered` is checked with `LateCompletion` FALSE: with
late completions an interrupt at the wrong moment reaches the boot vector, and
a board hung there answers nothing.  `HostLink`'s fairness is weak fairness of
`Waiting`: time passes, and a program in a call reads what there is; `CallEnds`
needs nothing of the board or the line.  `Frames` assumes it of both receivers,
which poll in loops of their own.  Faults are never fair.

Each checked property has a mutant beside the definition it breaks
(`..._Omitted`, `..._OffByOne`, ...), a defect of the kind a change to the code
could introduce, under which TLC finds the property violated.

## 4 What disagrees

Four runs show the code doing other than what the repository says.

* **A late job is served as the next run's** (`late`).  The wait gives up without
  stopping the job, as the patch's own text says.  If the NPU is still at work
  when the next run starts, and ignores the start, the old job's output,
  interrupt and QREAD satisfy every check of the new run.  `main.c:58` says of
  the runner that it "NEVER returns stale bytes" and `main.c:71-73` that the
  bytes "belong to the RUN the host is asking about".  What holds regardless is
  `ServedOutputIsCorrect`: the bytes are right for the staged image, and it is
  the measurement that is not of that run.  It needs a poll budget too small
  for the workload, and an NPU that ignores a start while running.
* **The knob code without a knob** (`knob`).  `seam_power_ctrl` is zeroed when the
  window opens and sampled only in EVENTS mode, and `pmwl.c:143` checks it in
  every mode: in OFF and END_ONLY a workload that did not ask for POWER_CTRL 0
  returns 125, whose meaning is that a knob read-back failed.
* **Five seconds for any timeout** (`silence`).  `run` leaves its loop at the first
  read that finds nothing for 5 s, and reports silence for the caller's whole
  timeout (`runner_proto.py:455-457, 498`).  The board is silent by design while
  it measures, so a run of more than 5 s fails.
* **Runs that are not archived** (`archive`).  A timeout at the RESET or mode
  change of a later event set is a `ProtocolError` that neither that block nor
  the outer handler catches (`run_pmu_events.py:88-93, 136`): the process ends
  before any file is written, and the RUNs of the sets before it are lost,
  where the docstring says "archive every run".

Read in the code while modelling; no run of its own:

* *The poison and a skipped NPU.*  `proto.c:567-569` says that a region no NPU wrote
  still holds the poison.  `__wrap_test_u85` copies the output tensor, filled
  with 0xA5, over it on every return of the driver (`pmwl.c:148`), so
  OUTPUT_CHANGED is set after a run in which the NPU wrote nothing.  Such a run
  is refused by its return code alone.
* *A straggler.*  `RunnerLink.run` filters frames of other exchanges, "count it, do
  not act on it" (`runner_proto.py:460`), but lets every RUN_COMPLETE through; one
  of a run given up makes the next run raise.  It is never taken for the next
  run's, as `AnswerIsOwn` shows: the board is single-threaded, the wire keeps the
  order, and `run` insists on its own ACK first.
* *Tail calls through a register.*  `check_measure_symbols.py:167` looks for `blx`;
  an indirect tail call (`bx` of another register than `lr`) is not reported as an
  indirect site, where the docstring (24-25) speaks of every indirect call.
* *Counters armed before they are selected.*  A run enables the counters before
  PMEVTYPER is written (`measure.c:588-596`), so the first one after a change of
  selection may carry counts of the old selection, where `npu_pmu.c:90` says that
  stale state "must never be attributable to this one".  `EventsAreOwn` allows a
  run exactly those strays.
* *A refused workload's mask.*  In EVENTS mode a run refused before the driver
  still reports the full `event_valid_mask`, of zeros (`measure.c:696`); the host
  does not count it because `seam_fired` and `cycle_valid` are not set.
* *In what order the seam reads.*  The overflow flags are read before the event
  counters, so an event of the NPU's clock may wrap unseen, and STATUS and
  QREAD after them.
* *END_ONLY after the power is released.*  The counters are read after CMD=0xC and
  are still called valid; where the PMU then has no power they are zero.
* *A knob in OFF mode.*  A blob that asks for the AXI knob has it written and read
  back through the PMU's accessors in every mode (`pmwl.c:114-115`), while
  `measure.c:725` says that in OFF the counts of accesses "must be 0/0".
* *A job given up and the next image.*  With `LateCompletion` and a workload that keeps
  tensors in staging, TLC finds `ModelIntact` false in 20 steps: a job is given up,
  another image is staged and passes END's CRC check, and the old job writes its
  scratch over it (`pmwl.c:82-90`).  Nothing checks the CRC again before RUN.
* *A root used again.*  `deploy.sh` asks for no new root and `mkdir -p` takes a used
  one (`deploy.sh:3, 25`); the retry of a failed deploy into its own root writes the
  mixture on the card over the originals' backup, and seals it.
* *A directory used again.*  See `PassMeansEveryRunClean` in section 2.
* *Smaller ones.*  `RULE_CAPABILITY` can never apply (`ERROR_NAMES` has no 12).
  `mlek-baseline.md:28-29` promises UNPROVEN for a missing field, and the gate
  fails or raises `KeyError`.  `restore_mlek.sh` refuses after an interrupted deploy or restore.
  `restore.sh` does not look at `images.txt`.  `load_runs` takes the validity of a
  repetition from its first row; with several sets only the gate's check of the
  runs tells.

## 5 The proofs

`tlapm` checks each of the eight modules with theorems to the last leaf: every
invariant and action property the runs check is proved.  The assumptions are
those the modules name: `StagingAssumption` (a window of at least a byte, some
byte values), `LateCompletionAssumption`, `RunAssumption` (workloads are images,
0 is an event set), `HostAssumption` (what the host sends is of the right shape
and chunks are not empty), `LinkAssumption` (a read is no longer than a run),
`WindowAssumption` (halves and event counters of at least one value, event sets
that fit the slots), `LineAssumption` (payloads no longer than `MAX_PAYLOAD`,
symbols that are numbers), `CrcAssumption` (section 2), `ElfAssumption` (calls
lead from what is defined to names), `BlobAssumption` (an IO table that ends
16-aligned, as the code's `IO_MAX` of 10 makes it; a stack inside the SRAM), `RecordAssumption`
and `DecisionsAssumption` (the packer and stage 2A get arguments of the right
types, records that hold the known fields), and `CampaignAssumption` (an event
slot; a campaign asks for an event and a repetition at least).  Five theorems have
a hypothesis of their own: `FreshResults`, `TriggerClean` and `RunnerKeepsPromise`
want `~LateCompletion`, `ModelStaysIntact` and `ServedIsCorrect` the weaker
`GivenUpWritesNothing` (late completions, or workloads with a region in staging,
not both).  Nothing is
assumed of the sizes: images, chunks, windows, runs, boots, counters, lines,
faults, blobs, call graphs, cards, scripts and campaigns are of any number.

*The runner's control* (`RunnerProofs`).
`TypeCorrect` has its content in the upload (an accepted length fits the window;
staging stays a full function under overlapping chunks) and in the mode change.
Neither `NoFrameRefused` nor `VectorRestored` is inductive: whether a send is
refused depends on the flags, which depend on where the thread is.
`ControlInv` ties `run_pc` to the protocol state, the two flags and the owner of
the vector (`ControlCorrect`); `NothingRefused` and `VectorAlwaysRestored` follow.

*The model* (`RunnerProofs`).  `ModelStaysIntact`: `ModelInv` adds that a
length accepted at BEGIN fits; that no chunk and no BEGIN come between END and
the states that rest on it is the acceptance table's doing, and that running a
workload keeps the image is `BehindImageKeepsDigest`.  What the NPU writes to
staging is behind the image its job was submitted with (`JobWrites`), and that is
the staged image if no job is given up at work (`ImageKept`).  If one may be, the
theorem holds only for workloads that keep nothing in staging: that is its
hypothesis `GivenUpWritesNothing`.

*The result* (`RunnerProofs`).  `FreshResults` and `TriggerClean` have the
hypothesis `~LateCompletion`, without which `late` shows the first false.
`FreshInv`: the NPU works only for the run that waits, interrupts only while it
waits, and the flag is up only until the wait ends; so a good output found in
the arena after the fill is the current run's, and so is a region with rc 0.

*The evidence* (`RunnerEvidenceProofs`), with late completions.  `EvidenceHolds`
and `NumbersIncrease` rest on `EvidenceInv`, which says at each place of the thread
what latch, record and counter have to do with each other.  `ServedIsCorrect`:
`ServedInv` speaks of jobs given up too.  Its core is that an NPU at work has not
consumed its queue: a return code of 0 needs QREAD at the end, so from the
moment it was read nothing writes the output, whoever's it was.  The reference
the driver compares with is part of the image in staging, so the theorem needs
`ModelStaysIntact` and its hypothesis.
`RetransmissionIsHarmless` is an action property of the two chunk handlers.

*The refinement* (`RunnerEvidenceProofs`).  `RunnerKeepsPromise`: with
`~LateCompletion` and a sequence number to answer under, `Spec` implements
`ResultService`.  Initial states map to initial states; `NumberInv` says that the
record of a complete run has its number; each command, each step inside
`handle_run` and each reset is shown to be a step of `Results` or a stutter.

*The window* (`MeasureWindowProofs`).  `WholeCycles`: `ReadingInv` says that until the
counter overflows, which stays on record, it holds the cycles since its reset,
and what each half read so far has to do with them; equal high halves on both
sides of the low half then enclose it.  `JobIsCovered`: `CoveredInv` says
that a job at work has not consumed its queue, and that until a wait is given
up a job is at work only under the wait; so an accepted run, whose queue was
seen consumed, was read with no job at work.  `EventsCountOwn`: `OwnInv` says that
after the arming a slot that had its event selected before holds this run's
events until it overflows, and that once the overflows are read an NPU that is
idle causes no more; so what an exact run reports without overflow is its own.

*The link* (`HostLinkProofs`).  `CallsAreBounded`: that a run never waits past its
deadline is not inductive; `LinkInv` adds that `quiet` and `elapsed` run together
in a run and rest outside, so that a read begun before the deadline ends at it.
`AnswersAreOwn` and `RecordsAreNewest` rest on `WireInv`, which reads the wire as one
queue: the replies, then the end of the run that is pending, then the commands.
Their tags increase along it (`Order`), but for a run's ACK and its RUN_COMPLETE,
and none is later than the program's last command (`Marks`).  So nothing real
stands behind the answer to the last command but that command's RUN_COMPLETE: a
program that has its PING answered has the line to itself, and one that has its
RUN acknowledged can read no RUN_COMPLETE but its own, though it looks at no
number.  `Completes` says that a RUN_COMPLETE not of the newest run stands before
the newest run's command; the program's own command is the last, so the record
it accepts is of the newest run, or the board has restarted.

*Induction* (`DataInduction`).  The library's induction theorems take a predicate as
a parameter.  Here they are stated of a set instead, and proved from the
well-foundedness of the numbers: `Least`, `Induction`, `Carried` (what the first
value of a list has and each step keeps, all have) and `Recursion` (the function
a recursive definition names exists).  With them what `Lines`, `Arrives`, `Crc`, `Lay`
and `Checksum` compute can be proved for every input; each is a recursive
function over the positions of its list.

*The line* (`FramesProofs`).  What the receivers are shown rests on three
predicates over what was taken and what is left to read.  `Rest`: the symbols left
are in the order of their positions, an undamaged frame whose start is left is
left whole, and whatever passes for a frame is one.  `Taken`: what was made of
the others are frames that were sent, in order, that end before the rest.
`NoneLost`: an undamaged frame is taken or its start is still left.  Both
receivers only drop symbols from the head of the rest.  The host may: `_try_parse`
drops up to the next magic, or one symbol of a candidate that is not a frame,
and neither can be the start of an undamaged frame (`ReaderLosesNoFrame`).  A
candidate in the buffer never exceeds the longest frame (`ReaderStallBounded`).
The board drops a whole candidate, so for it `NoneLost` is false; but what it
dispatches has passed the CRC, and `Taken` remains (`ParserInventsNothing`).  For
`ParserSwallowBounded`, `Reached` says of an undamaged frame far from every fault
that it is dispatched, or its start is still to come, or is where the candidate
begins: on a line that holds the magic at the starts only (`Plain`) every
candidate begins at a start or at a fault, and one that begins at a fault ends
within one longest frame.  Without `Plain` a magic in a payload can begin a
candidate of its own in a command that was swallowed in part.

*The build gate and stage 2A* (`DecisionsProofs`).  `ElfInv` says that what was seen is reachable
and that its edges lead to what was seen or waits to be; so when nothing waits
the search has found the reachable names and no others (`SearchIsReachability`,
for call graphs of any shape).  `CleanBuildsAreSilent` and `AdvisoryIsNarrow` are
then about reachability and no longer about the search.  `AnswerInv` says that an
answer is the one to the question asked.  From it `ClaimsAreOfEveryRun`, as
ranges that are apart hold every figure of each side apart, and `NoOperatorIsLost`,
by the cases of H5 and H6, for figures of any size.

*The blob and the record* (`DecisionsProofs`).  `BlobSectionsNeverOverlap`: `Lay` gives
ends that only grow and are 16-aligned, from an aligned beginning; the header is
aligned in each version by `BlobAssumption`.  `BlobAlwaysReadsBack`: which knob word
stands where, by version: a version is chosen so that every word it does not
carry is not set.  `LoaderAlwaysHonoursBlob`: the two bits the loader takes out of
`regioncfg` for each region are those the packer put there, so the port the
loader reads is the one that was asked for.  `RecordsSurvive`: the sum of the
words but its own is changed by every damage, and a record that is shorter has
another length in its header.

*The bench* (`BenchProofs`).  `CardInv` holds while nothing is spoilt, and a spoilt
backup stays so (`SpoiltStays`).  It has seven parts: types; the sealed backup of a
deploy not undone is what the card held when it was made, and is still that
(`Sealed`); each original is on the card or guarded by such a backup, and so is each
original a deploy found changed, by a backup below it (`Safe`); deploys and undos
nest like a stack, each beginning where the one below it left the card (`Stack`);
the script under way is of the last deploy (`JobIsLast`), and wants what that asks
for (`JobWants`); what was reported verified is so (`Reported`).  The heart is that a
script which is not to spoil anything writes no backup on the stack
(`NotOnStack`).  `OriginalsAreKept` and `RestoresUndo` follow, under the condition in
the properties.  What is reported deployed is on the card whatever was spoilt
(`DeployInv`), and `PassIsOfTheImage` rests on it: the image a campaign records is the
one that was booted (`BootedRecorded`), however the process ended.

*The campaign* (`BenchProofs`).  `CampInv` ties the lists of the process to its
place.  `Listing`: each row is of an event of its set, no two rows have both event
and repetition in common, and while the first set is under way the rows say of
each RUN what its record says, for each of its events.  `UnderWay` and `AllMade`
count the RUNs: unless one was refused they are those asked for if there is one
set, and more if there are more.  `Evidence`: in a directory that was new, or once the process
has ended, a file holds what the process had when it wrote it, unless it was
killed in the middle.  That the sets hold each
event once (`EventSetsAre`) is about the ranks of the ids and the cuts of the
list.  A summary that agrees with the profile then means one set
(`PassIsOfCleanRuns`), the one case in which the validity `load_runs` takes from a
repetition's first row is that of the repetition.  `CountedIsOfValidRuns`: the rows
of an event have different repetitions, so if as many as there are repetitions
have a value, all have.

*Only model-checked.*  The liveness properties `RunIsAnswered`, `CallEnds` and
`CleanLineDelivers`: liveness under fairness, and ENABLED, are out of the prover's
reach.

## 6 What is not modelled

*Numbers.*  Time stamps, the timing module, timing adapters (`timing.c`, `ta.c`),
counts of register accesses, and the metrics the analysis computes from counts
(`stage1.py`'s arithmetic): no decision of the firmware reads them but the
loader's refusal of an adapter profile, which is in `WorkloadBlob`.  In `Runner`, whether the window was timed and whether
the knobs held are free inputs (`timed`, `knobs_honoured`); counts are in
`MeasureWindow` only.

*Contents.*  What GET_CAPABILITIES reports; the payload layouts but those of the
measurement record; register command streams, weights and tensors of a blob;
the comparison of outputs (`ofm_compare.py`, `reference.py`), which is a pure
comparison of two files.  The functional-v1 form of the protocol, which the
measurement firmware does not speak.

*Text.*  How the gates parse `objdump`, `nm` and map files: `ElfGates` begins with what
they tell.  `check_runner.py`, which looks for strings and patterns in sources and
a build.  `postflight.sh`, which reboots once more and looks for strings in logs.

*Generators and study scripts* (`gen_npu_pmu_regs.py`, `make_op_model.py`, the studies
under `host`): they run once, by hand, write files that are checked in, and make
no claim about a running system.  Vendored code but `u85.c`, and the example
workloads.
