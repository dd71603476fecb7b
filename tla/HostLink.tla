------------------------------ MODULE HostLink ------------------------------
(***************************************************************************)
(* The host's end of the line (host/lib/runner_proto.py, RunnerLink, in    *)
(* its measure-v2 form) against a board that keeps ResultService's promise.*)
(*                                                                         *)
(* The serial line keeps the order of frames and may lose any.  A command  *)
(* may also arrive damaged and be refused under whatever sequence number   *)
(* is left in it.  A frame may be on its way for any time.  The board may  *)
(* stop or restart, and the program that holds the link may end at any     *)
(* moment and another open the port, whose sequence numbers start again.   *)
(*                                                                         *)
(* A tag is the session and the sequence number of a command.  The wire,   *)
(* and the code, have the number alone; the session is history.            *)
(***************************************************************************)
EXTENDS Naturals, Sequences, SequencesExt

CONSTANTS
  Tags,         \* [session, seq]: bounds the RunnerLinks and their calls
  ReadLimit,    \* the 5 s run waits for one frame, in ticks
  RunLimit,     \* run's timeout
  RequestLimit, \* request's timeout
  LineLimit,    \* bound on commands on their way
  MaxEpochs     \* bound on restarts of the board

ASSUME LinkAssumption ==
  /\ {ReadLimit, RunLimit, RequestLimit} \subseteq Nat \ {0}
  /\ ReadLimit <= RunLimit
  /\ {LineLimit, MaxEpochs} \subseteq Nat
  /\ Tags # {} /\ Tags \subseteq [session : Nat \ {0}, seq : Nat \ {0}]

Tag(s, q) == [session |-> s, seq |-> q]

VARIABLES
  epoch, run, run_tag, phase, sent, \* the board, as ResultService has it
  commands,        \* frames on their way to the board
  replies,         \* frames on their way to the host, oldest first
  session,         \* RunnerLinks opened so far
  misled,          \* history: the first session whose PING another's answered
  link,            \* "closed", "idle", or the call that is on: "request", "run"
  seq,             \* _seq, the number of the last command sent
  primed,          \* a PING was answered on this link
  command,         \* the command of the call that is on, or was last
  acked,           \* run has its ACK
  quiet,           \* ticks since read_frame was called
  elapsed,         \* ticks since the call was made
  outcome,         \* how the last call ended, and on which frame
  last_measurement \* the run whose record run returned last

Board == INSTANCE ResultService

boardVars == <<epoch, run, run_tag, phase, sent>>
lineVars == <<commands, replies>>
callVars == <<command, acked, quiet, elapsed>>
hostVars ==
  <<session, misled, link, seq, primed, callVars, outcome, last_measurement>>
vars == <<boardVars, lineVars, hostVars>>

Outcomes == {"none", "ok", "nack", "unexpected", "order", "silence"}

Ended(how, f, t) == [how |-> how, frame |-> f, after |-> t]
NotEnded == Ended("none", Board!Nothing, 0)

-----------------------------------------------------------------------------
(* The board and the line.                                                 *)

\* The board takes the oldest command, or what is left of it, and answers.
BoardAnswers ==
  /\ commands # <<>>
  /\ LET c == Head(commands) IN
       \/ Board!AnswerTo(c.cmd, c.tag, c.n)
       \/ \E t \in Tags : Board!Refuse("UNKNOWN", Tag(c.tag.session, t.seq))
  /\ commands' = Tail(commands)
  /\ replies' = Append(replies, sent')
  /\ UNCHANGED hostVars

BoardCompletes ==
  /\ Board!End
  /\ replies' = Append(replies, sent')
  /\ UNCHANGED <<commands, hostVars>>

\* The board hangs, is restarted, or comes up.
BoardDies ==
  /\ \/ Board!Quiet /\ phase' # phase
     \/ epoch < MaxEpochs /\ UNCHANGED run_tag /\ Board!Restart
  /\ UNCHANGED <<lineVars, hostVars>>

\* The board is deaf while it runs, and bytes are lost at any time.
LineLoses ==
  /\ \/ commands # <<>> /\ commands' = Tail(commands) /\ UNCHANGED replies
     \/ replies # <<>> /\ replies' = Tail(replies) /\ UNCHANGED commands
  /\ sent' = Board!Nothing
  /\ UNCHANGED <<epoch, run, run_tag, phase, hostVars>>

-----------------------------------------------------------------------------
(* Calls.                                                                  *)
HostStep ==
  /\ sent' = Board!Nothing
  /\ UNCHANGED <<epoch, run, run_tag, phase>>

\* A new RunnerLink: the port's input buffer is emptied, which catches what
\* has arrived and not what is on its way.
OpenLink ==
  /\ HostStep
  /\ link = "closed"
  /\ Tag(session + 1, 1) \in Tags
  /\ session' = session + 1
  /\ link' = "idle"
  /\ replies' \in Suffixes(replies)
  /\ UNCHANGED <<commands, misled, seq, primed, callVars, outcome,
                 last_measurement>>

\* What of a call is gone when it ends, or before it begins.
NoCall ==
  /\ acked' = FALSE
  /\ quiet' = 0
  /\ elapsed' = 0

\* The program ends, in a call or between calls, and its RunnerLink with it.
CloseLink ==
  /\ HostStep
  /\ link # "closed"
  /\ link' = "closed"
  /\ seq' = 0
  /\ primed' = FALSE
  /\ command' = "PING"
  /\ NoCall
  /\ outcome' = NotEnded
  /\ last_measurement' = Board!NoRun
  /\ UNCHANGED <<lineVars, session, misled>>

Send(c, n) ==
  /\ HostStep
  /\ link = "idle"
  /\ Tag(session, seq + 1) \in Tags
  /\ Len(commands) < LineLimit
  /\ seq' = seq + 1
  /\ commands' = Append(commands, [cmd |-> c, n |-> n,
                          tag |-> Tag(session, seq')])
  /\ command' = c
  /\ NoCall
  /\ outcome' = NotEnded
  /\ UNCHANGED <<replies, session, misled, primed, last_measurement>>

\* A program PINGs before anything else and ends if that fails; it asks for
\* the result of the run whose record it holds.  Whether it goes on after
\* another call has failed is up to it.
Request ==
  /\ \/ (primed \/ seq = 0) /\ Send("PING", 0)
     \/ primed /\ Send("OTHER", 0)
     \/ /\ primed /\ last_measurement # Board!NoRun
        /\ Send("GET_RESULT", last_measurement.run)
  /\ link' = "request"

Run ==
  /\ primed
  /\ Send("RUN", 0)
  /\ link' = "run"

-----------------------------------------------------------------------------
(* read_frame, and what a call does with the frame.                        *)

\* Mutant: read_frame always waits the full time, whatever is left of it.
ReadWindow_Full == IF link = "run" THEN ReadLimit ELSE RequestLimit

\* How long the read that is on may last: run reads to its deadline, and no
\* read of it is longer than ReadLimit.
ReadWindow ==
  LET left == IF elapsed - quiet < RunLimit THEN RunLimit - (elapsed - quiet)
              ELSE 0
  IN IF link = "run" THEN (IF left < ReadLimit THEN left ELSE ReadLimit)
     ELSE RequestLimit

\* read_frame has f: the call takes it and either reads on or ends.
Reads(f) ==
  /\ HostStep
  /\ link \in {"request", "run"}
  /\ quiet < ReadWindow
  /\ replies # <<>>
  /\ f = Head(replies)
  /\ replies' = Tail(replies)
  /\ UNCHANGED <<commands, session, seq, command>>

ReadOn ==
  /\ quiet' = 0
  /\ UNCHANGED <<misled, link, elapsed, primed, outcome, last_measurement>>

Finish(how, f) ==
  /\ link' = "idle"
  /\ outcome' = Ended(how, f, IF how = "silence" THEN elapsed ELSE 0)
  /\ NoCall

Raise(how, f) ==
  Finish(how, f) /\ UNCHANGED <<misled, primed, last_measurement>>

\* Mutant: any frame is taken for the answer.
Mine_Any(f) == TRUE

Mine(f) == f.tag.seq = seq

RequestReads(f) ==
  /\ link = "request"
  /\ Reads(f)
  /\ \/ ~Mine(f) /\ ReadOn /\ UNCHANGED acked
     \/ Mine(f) /\ f.kind = "NACK" /\ Raise("nack", f)
     \/ /\ Mine(f) /\ f.kind # "NACK" /\ <<f.kind, f.cmd>> # <<"ACK", command>>
        /\ Raise("unexpected", f)
     \/ /\ Mine(f) /\ <<f.kind, f.cmd>> = <<"ACK", command>>
        /\ Finish("ok", f)
        /\ primed' = TRUE
        /\ misled' = IF misled = 0 /\ seq = 1 /\ f.tag.session # session
                     THEN session ELSE misled
        /\ UNCHANGED last_measurement

\* Mutant: RUN_COMPLETE is taken with or without an ACK before it.
AckFirst_Dropped == TRUE

AckFirst == acked

\* A frame of another exchange is passed over, unless it is a RUN_COMPLETE.
RunReads(f) ==
  /\ link = "run"
  /\ Reads(f)
  /\ LET done == f.kind = "RUN_COMPLETE"
         ack  == f.kind = "ACK" /\ f.cmd = "RUN"
     IN \/ ~Mine(f) /\ ~done /\ ReadOn /\ UNCHANGED acked
        \/ Mine(f) /\ f.kind = "NACK" /\ Raise("nack", f)
        \/ Mine(f) /\ ack /\ acked /\ Raise("order", f)
        \/ Mine(f) /\ ack /\ ~acked /\ ReadOn /\ acked' = TRUE
        \/ done /\ ~AckFirst /\ Raise("order", f)
        \/ /\ done /\ AckFirst
           /\ Finish("ok", f)
           /\ last_measurement' = f.of
           /\ UNCHANGED <<misled, primed>>
        \/ /\ Mine(f) /\ f.kind = "ACK" /\ ~ack /\ ~acked
           /\ Raise("order", f)
        \/ /\ Mine(f) /\ f.kind = "ACK" /\ ~ack /\ acked
           /\ ReadOn /\ UNCHANGED acked

\* Mutant: the read has no end.
Expired_Never == FALSE

Expired == quiet >= ReadWindow

\* Nothing came in time: request raises, run leaves its loop.
TimesOut ==
  /\ HostStep
  /\ link \in {"request", "run"}
  /\ Expired
  /\ Raise("silence", Board!Nothing)
  /\ UNCHANGED <<lineVars, session, seq, command>>

Tick ==
  /\ HostStep
  /\ link \in {"request", "run"}
  /\ quiet < ReadWindow
  /\ quiet' = quiet + 1
  /\ elapsed' = IF link = "run" THEN elapsed + 1 ELSE elapsed
  /\ UNCHANGED <<lineVars, session, misled, link, seq, primed, command, acked,
                 outcome, last_measurement>>

Waiting ==
  \/ replies # <<>> /\ (RequestReads(Head(replies)) \/ RunReads(Head(replies)))
  \/ TimesOut
  \/ Tick

Init ==
  /\ Board!Init
  /\ run_tag = CHOOSE q \in Tags : TRUE
  /\ commands = <<>>
  /\ replies = <<>>
  /\ session = 0
  /\ misled = 0
  /\ link = "closed"
  /\ seq = 0
  /\ primed = FALSE
  /\ command = "PING"
  /\ acked = FALSE
  /\ quiet = 0
  /\ elapsed = 0
  /\ outcome = NotEnded
  /\ last_measurement = Board!NoRun

Next ==
  \/ BoardAnswers \/ BoardCompletes \/ BoardDies \/ LineLoses
  \/ OpenLink \/ CloseLink \/ Request \/ Run
  \/ Waiting

\* Time passes, and a program that waits reads what there is to read.  Nothing
\* is assumed of the board, the line, or the programs that call.
Spec == Init /\ [][Next]_vars /\ WF_vars(Waiting)

-----------------------------------------------------------------------------
\* Every variable keeps to its type; a run, in particular, never waits past
\* its deadline, however many frames of other exchanges it passes over
\* (runner_proto.py:451-457).
LinkTypeOK ==
  /\ session = 0 \/ Tag(session, 1) \in Tags
  /\ misled \in 0 .. session
  /\ seq = 0 \/ Tag(session, seq) \in Tags
  /\ link \in {"closed", "idle", "request", "run"}
  /\ primed \in BOOLEAN
  /\ command \in Board!Kinds
  /\ acked \in BOOLEAN
  /\ quiet \in 0 .. (IF link = "run" THEN ReadLimit ELSE RequestLimit)
  /\ elapsed \in 0 .. RunLimit
  /\ outcome.how \in Outcomes
  /\ Len(commands) <= LineLimit

\* No session before this one took another's answer for that to its first
\* PING.  One that did has left answers unread, its own, that are numbered as
\* those of the sessions after it will be.
InStep == misled \in {0, session}

\* What a call returns is the answer to that call: not one left over from an
\* earlier call that gave up, nor from a program that held the port before,
\* whose sequence numbers are the same, although run looks at no sequence
\* number of a RUN_COMPLETE and no command can be cancelled
\* (runner_proto.py:385-402, 459-485).  Only the first PING may be answered by
\* another session's.
AnswerIsOwn ==
  InStep /\ outcome.how = "ok" /\ seq > 1 =>
    outcome.frame.tag = Tag(session, seq)

\* The record run returns is of the board's newest run, unless the board has
\* restarted since: no later run is on or done of which the program does not
\* know, although a run that gave up may have begun one, and one that failed
\* may have been begun all the same (runner_proto.py:445-498).
RecordIsNewest ==
  [][InStep /\ link = "run" /\ outcome'.how = "ok" =>
       \/ last_measurement' = Board!Newest
       \/ last_measurement'.epoch < epoch]_vars

\* Every call comes to an end: with an answer, an exception, or the program's
\* own end (runner_proto.py:370, 389, 453).
CallEnds == link \in {"request", "run"} ~> link \in {"idle", "closed"}

-----------------------------------------------------------------------------
(* What comments and messages of the code say of it.                       *)

\* runner_proto.py:496-498: run raises "no RUN_COMPLETE within %.1fs" of its
\* timeout.
SilenceMeansTimeout ==
  link = "idle" /\ outcome.how = "silence" /\ command = "RUN" =>
    outcome.after >= RunLimit
=============================================================================
