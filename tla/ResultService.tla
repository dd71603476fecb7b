--------------------------- MODULE ResultService ---------------------------
(***************************************************************************)
(* What the runner promises a host, and nothing about how: it speaks only  *)
(* when spoken to, one frame for each command it takes and one more for a  *)
(* RUN it acknowledged; a result is of the run begun last, exists only     *)
(* between that run's end and the next run, reset or restart, and is handed*)
(* out only to whoever asks for that run.                                  *)
(***************************************************************************)
EXTENDS Naturals

CONSTANT Tags \* what a host tags its commands with and a reply repeats

VARIABLES
  epoch,   \* restarts so far
  run,     \* runs begun in this epoch
  run_tag, \* the tag of the RUN that is pending, or was last
  phase,   \* "off", "none", "pending" while a run is on, "available" when it
           \* left a result
  sent     \* the frame this step sent, or Nothing

serviceVars == <<epoch, run, run_tag, phase, sent>>

\* Kinds of command: those a reply can be mistaken among, and all others.
Kinds == {"PING", "RUN", "GET_RESULT", "OTHER"}

NoRun == [epoch |-> 0, run |-> 0]

\* A frame: what it is, the command and the tag it answers, the run number it
\* carries, and the run whose outcome or bytes it carries.
Frame(kind, cmd, tag, n, of) ==
  [kind |-> kind, cmd |-> cmd, tag |-> tag, n |-> n, of |-> of]

Nothing == [kind |-> "NONE"]

Newest == [epoch |-> epoch, run |-> run]

Listening == phase \in {"none", "available"}

Init ==
  /\ epoch = 0
  /\ run = 0
  /\ run_tag \in Tags
  /\ phase = "off"
  /\ sent = Nothing

\* A command that is refused, or not understood.
Refuse(c, q) ==
  /\ Listening
  /\ sent' = Frame("NACK", c, q, 0, NoRun)
  /\ UNCHANGED <<epoch, run, run_tag, phase>>

\* A command that is acknowledged; one that is not a PING may withdraw the
\* result.
Acknowledge(c, q) ==
  /\ Listening
  /\ c \in {"PING", "OTHER"}
  /\ sent' = Frame("ACK", c, q, 0, NoRun)
  /\ phase' \in (IF c = "OTHER" THEN {phase, "none"} ELSE {phase})
  /\ UNCHANGED <<epoch, run, run_tag>>

\* A new run takes the next number and the old result away.
Begin(q) ==
  /\ Listening
  /\ run' = run + 1
  /\ run_tag' = q
  /\ phase' = "pending"
  /\ sent' = Frame("ACK", "RUN", q, 0, NoRun)
  /\ UNCHANGED epoch

\* The run ends, with a result or without.
End ==
  /\ phase = "pending"
  /\ phase' \in {"available", "none"}
  /\ sent' = Frame("RUN_COMPLETE", "RUN", run_tag, run, Newest)
  /\ UNCHANGED <<epoch, run, run_tag>>

Serve(q) ==
  /\ phase = "available"
  /\ sent' = Frame("ACK", "GET_RESULT", q, run, Newest)
  /\ UNCHANGED <<epoch, run, run_tag, phase>>

\* Time passes; the board dies or comes up.
Quiet ==
  /\ \/ UNCHANGED phase
     \/ phase' = "off"
     \/ phase = "off" /\ phase' = "none"
  /\ sent' = Nothing
  /\ UNCHANGED <<epoch, run, run_tag>>

Restart ==
  /\ epoch' = epoch + 1
  /\ run' = 0
  /\ phase' = "off"
  /\ sent' = Nothing
  /\ run_tag' \in Tags

\* The board's answer to a command of kind c, tagged q, about run n.
AnswerTo(c, q, n) ==
  \/ Refuse(c, q)
  \/ Acknowledge(c, q)
  \/ c = "RUN" /\ Begin(q)
  \/ c = "GET_RESULT" /\ n = run /\ Serve(q)

Answer ==
  \E q \in Tags :
    \/ \E c \in Kinds : AnswerTo(c, q, run)
    \/ Refuse("UNKNOWN", q)

Next == Answer \/ End \/ Quiet \/ Restart

Spec == Init /\ [][Next]_serviceVars
=============================================================================
