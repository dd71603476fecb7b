--------------------------- MODULE RunnerProtocol ---------------------------
(***************************************************************************)
(* The wire protocol of the measurement runner (firmware/runner/proto.h,   *)
(* proto.c): the runner states, which command each state accepts, the      *)
(* frames the firmware sends, and put_raw, the one routine that writes the *)
(* UART.                                                                   *)
(*                                                                         *)
(* A frame is a record.  Payloads are reduced to what the properties tell  *)
(* apart: n is the one number a reply carries that a host acts on (the run *)
(* sequence of a result, a measurement or a RUN_COMPLETE; the bytes staged *)
(* of a chunk; the configuration sequence of a mode change), and data is   *)
(* what a served result region held.                                       *)
(***************************************************************************)
EXTENDS Naturals, Sequences

VARIABLES
  run_pc,             \* where the one thread is: "parser", or inside handle_run
  runner_state,       \* the protocol state, runner_state_t
  measurement_active, \* TRUE while the measured window is open
  uart_tx_forbidden,  \* TRUE from RUN_ACCEPTED to the end of handle_run
  tx,                 \* the frame this step put on the wire, or NoFrame
  tx_refused          \* put_raw refused a byte: uart_bytes_during_measurement # 0

protocolVars ==
  <<run_pc, runner_state, measurement_active, uart_tx_forbidden, tx,
    tx_refused>>

Pcs == {"off", "parser", "accepted", "open", "prepared", "waiting", "woken",
        "read", "stopped", "verified", "returned", "closed", "hung"}

States ==
  {"BOOT", "IDLE", "MODEL_LOADING", "MODEL_READY", "INPUT_READY", "RUNNING",
   "RESULT_READY"}

\* The states a model that passed its CRC check is staged in.
ModelStates == {"MODEL_READY", "INPUT_READY", "RUNNING", "RESULT_READY"}

Always == {"PING", "GET_STATE", "GET_CAPABILITIES", "GET_MEASUREMENT"}

Commands ==
  Always \cup {"LOAD_MODEL_BEGIN", "LOAD_MODEL_CHUNK", "LOAD_MODEL_END",
               "LOAD_INPUT", "RUN", "GET_RESULT", "RESET_RUNNER",
               "SET_INSTRUMENTATION_MODE"}

\* state_accepts[]: a row of zero, BOOT and RUNNING, accepts nothing at all.
Accepts(s) ==
  CASE s = "IDLE" -> Always \cup {"LOAD_MODEL_BEGIN", "RESET_RUNNER",
                                  "SET_INSTRUMENTATION_MODE"}
    [] s = "MODEL_LOADING" -> Always \cup {"LOAD_MODEL_CHUNK",
                                           "LOAD_MODEL_END", "RESET_RUNNER"}
    [] s = "MODEL_READY" -> Always \cup {"LOAD_INPUT", "LOAD_MODEL_BEGIN",
                                         "RESET_RUNNER"}
    [] s = "INPUT_READY" -> Always \cup {"RUN", "LOAD_INPUT",
                                         "LOAD_MODEL_BEGIN", "RESET_RUNNER",
                                         "SET_INSTRUMENTATION_MODE"}
    [] s = "RESULT_READY" -> Always \cup {"GET_RESULT", "RUN", "LOAD_INPUT",
                                          "RESET_RUNNER",
                                          "SET_INSTRUMENTATION_MODE"}
    [] OTHER -> {}

command_allowed(c) == c \in Accepts(runner_state)

\* parse_one_frame hands command c to its handler: the parser is the loop of
\* main, so no command is looked at while handle_run is on the stack.
Dispatch(c) == run_pc = "parser" /\ command_allowed(c)

-----------------------------------------------------------------------------
(* What a memory region holds, by who wrote it: a CRC-32 over it is taken  *)
(* to tell two contents apart.  "poison" is poison_word's pattern, which   *)
(* the run sequence alone determines; "fill" is the 0xA5 of an output      *)
(* tensor before the NPU; "good" and "bad" are an NPU job's output, with   *)
(* the boot and the run that submitted the job.  Every good output of one  *)
(* image is the same bytes: boot and run are history, never compared.      *)
Content(Img) ==
  [by : {"unknown", "poison", "fill", "good", "bad"}, boot : Nat, run : Nat,
   image : Img]

Blank(who, r) == [by |-> who, boot |-> 0, run |-> r, image |-> <<>>]

Unknown   == Blank("unknown", 0)
Fill      == Blank("fill", 0)
Poison(n) == Blank("poison", n)

\* "BAD_FRAME" stands for BAD_CRC, BAD_VERSION, BAD_COMMAND and the length
\* a header claims: the frame is not one of Commands.
Errors ==
  {"NONE", "STATE", "RANGE", "LENGTH", "CHUNK_MISMATCH", "MODEL_CRC",
   "PAYLOAD_FORMAT", "NO_MEASUREMENT", "RESULT_NOT_VALID", "UNSUPPORTED",
   "BAD_FRAME"}

Frame(Img) ==
  [kind : {"NONE", "ACK", "NACK", "RUN_COMPLETE"},
   cmd : Commands \cup {"UNKNOWN"}, seq : Nat, err : Errors, n : Nat,
   data : Content(Img)]

AckOf(c, q, n, d) ==
  [kind |-> "ACK", cmd |-> c, seq |-> q, err |-> "NONE", n |-> n, data |-> d]

Ack(c, q, n) == AckOf(c, q, n, Unknown)

Nack(c, q, e) ==
  [kind |-> "NACK", cmd |-> c, seq |-> q, err |-> e, n |-> 0,
   data |-> Unknown]

RunComplete(q, n) ==
  [kind |-> "RUN_COMPLETE", cmd |-> "RUN", seq |-> q, err |-> "NONE",
   n |-> n, data |-> Unknown]

NoFrame ==
  [kind |-> "NONE", cmd |-> "UNKNOWN", seq |-> 0, err |-> "NONE", n |-> 0,
   data |-> Unknown]

Sent(k, c) == tx.kind = k /\ tx.cmd = c

(* put_raw under a whole frame: while the window is open or transmission   *)
(* is forbidden it writes nothing and counts the attempt.                  *)
Transmit(f) ==
  IF measurement_active \/ uart_tx_forbidden
    THEN tx' = NoFrame /\ tx_refused' = TRUE
    ELSE tx' = f /\ UNCHANGED tx_refused

Silent == tx' = NoFrame /\ UNCHANGED tx_refused

\* A handler that only answers: no protocol state moves.
Answer(f) ==
  /\ Transmit(f)
  /\ UNCHANGED <<run_pc, runner_state, measurement_active, uart_tx_forbidden>>

\* A handler that moves to state s and acknowledges.
Enter(s, f) ==
  /\ runner_state' = s
  /\ Transmit(f)
  /\ UNCHANGED <<run_pc, measurement_active, uart_tx_forbidden>>

RangeInside(base, len, lo, hi) ==
  len # 0 /\ base >= lo /\ base < hi /\ len <= hi - base

-----------------------------------------------------------------------------
\* PING, GET_STATE and GET_CAPABILITIES read and answer.
AnswerStatus(c, q) ==
  /\ c \in {"PING", "GET_STATE", "GET_CAPABILITIES"}
  /\ Dispatch(c)
  /\ Answer(Ack(c, q, 0))

\* parse_one_frame's refusals: a frame that does not parse is answered with
\* whatever sequence number it carried, and so is an intact one the state
\* does not accept.
RefuseFrame(q) ==
  /\ run_pc = "parser"
  /\ Answer(Nack("UNKNOWN", q, "BAD_FRAME"))

RefuseState(c, q) ==
  /\ run_pc = "parser"
  /\ ~command_allowed(c)
  /\ Answer(Nack(c, q, "STATE"))

\* The handlers' first check: a payload that is not the one accepted length.
RefusePayload(c, q) ==
  /\ Dispatch(c)
  /\ \/ /\ c \in {"LOAD_MODEL_BEGIN", "LOAD_MODEL_CHUNK"}
        /\ Answer(Nack(c, q, "PAYLOAD_FORMAT"))
     \/ /\ c \in {"GET_RESULT", "SET_INSTRUMENTATION_MODE"}
        /\ Answer(Nack(c, q, "LENGTH"))

ProtocolInit ==
  /\ run_pc = "off"
  /\ runner_state = "BOOT"
  /\ measurement_active = FALSE
  /\ uart_tx_forbidden = FALSE
  /\ tx = NoFrame
  /\ tx_refused = FALSE

ProtocolTypeOK(Img) ==
  /\ run_pc \in Pcs
  /\ runner_state \in States
  /\ measurement_active \in BOOLEAN
  /\ uart_tx_forbidden \in BOOLEAN
  /\ tx \in Frame(Img)
  /\ tx_refused \in BOOLEAN
=============================================================================
