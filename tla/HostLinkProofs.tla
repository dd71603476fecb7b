--------------------------- MODULE HostLinkProofs ---------------------------
(***************************************************************************)
(* RunnerLink for any number of programs, calls, restarts and ticks: that  *)
(* a run ends by its deadline although each frame it passes over begins a  *)
(* new read; that what a call returns is its own answer; and that a record *)
(* is the board's newest run's.                                            *)
(***************************************************************************)
EXTENDS HostLink, TLAPS

\* quiet and elapsed run together in a run, and rest outside; a closed link has
\* no number.
LinkInv ==
  /\ LinkTypeOK
  /\ \E S : commands \in Seq(S)
  /\ link = "run" => quiet <= elapsed
  /\ link # "run" => elapsed = 0
  /\ link \in {"closed", "idle"} => quiet = 0
  /\ link = "closed" => seq = 0

USE DEF Board!Kinds

-----------------------------------------------------------------------------
LEMMA Numbers ==
  /\ ReadLimit \in Nat /\ RunLimit \in Nat /\ RequestLimit \in Nat
  /\ ReadLimit <= RunLimit /\ LineLimit \in Nat
  /\ \A s, q : Tag(s, q) \in Tags => s \in Nat /\ q \in Nat
BY LinkAssumption DEF Tag

\* The oldest command leaves the line.
LEMMA TailBounded ==
  ASSUME NEW S, NEW s \in Seq(S), s # <<>>, Len(s) <= LineLimit
  PROVE  Tail(s) \in Seq(S) /\ Len(Tail(s)) <= LineLimit
BY Numbers

LEMMA LinkInit == Init => LinkInv
<1>1. <<>> \in Seq({}) /\ Len(<<>>) = 0
  OBVIOUS
<1>2. ASSUME Init PROVE LinkInv
  <2>1. (\E S : commands \in Seq(S)) /\ Len(commands) <= LineLimit
    BY <1>1, <1>2, Numbers DEF Init
  <2>2. outcome.how \in Outcomes
    BY <1>2 DEF Init, NotEnded, Ended, Outcomes
  <2>3. quiet \in 0 .. (IF link = "run" THEN ReadLimit ELSE RequestLimit)
    BY <1>2, Numbers DEF Init
  <2>4. elapsed \in 0 .. RunLimit /\ misled \in 0 .. session
    BY <1>2, Numbers DEF Init
  <2> QED BY <1>2, <2>1, <2>2, <2>3, <2>4 DEF Init, LinkInv, LinkTypeOK
<1> QED BY <1>2

\* The board and the line change nothing of the host's.
LEMMA BoardStep ==
  ASSUME LinkInv, BoardAnswers \/ BoardCompletes \/ BoardDies \/ LineLoses
  PROVE  LinkInv'
<1>1. UNCHANGED hostVars
  BY DEF BoardAnswers, BoardCompletes, BoardDies, LineLoses
<1>2. commands' = commands \/ (commands # <<>> /\ commands' = Tail(commands))
  BY DEF BoardAnswers, BoardCompletes, BoardDies, LineLoses, lineVars
<1>3. PICK S : commands \in Seq(S)
  BY DEF LinkInv
<1>4. commands' \in Seq(S) /\ Len(commands') <= LineLimit
  BY <1>2, <1>3, TailBounded DEF LinkInv, LinkTypeOK
<1> QED BY <1>1, <1>4 DEF LinkInv, LinkTypeOK, hostVars, callVars

\* A call begins idle, with its number, and nothing of the call before it.
LEMMA SendStep ==
  ASSUME LinkInv, NEW c \in Board!Kinds, NEW n, Send(c, n), link' \in {"request", "run"}
  PROVE  LinkInv'
<1>1. PICK S : commands \in Seq(S)
  BY DEF LinkInv
<1>2. PICK e : commands' = Append(commands, e)
  BY DEF Send
<1>3. commands \in Seq(S \cup {e}) /\ Len(commands) < LineLimit
  BY <1>1 DEF Send
<1>4. commands' \in Seq(S \cup {e}) /\ Len(commands') <= LineLimit
  BY <1>2, <1>3, Numbers
<1>5. Tag(session, seq') \in Tags /\ UNCHANGED <<session, misled, primed>>
  BY DEF Send
<1>6. acked' = FALSE /\ quiet' = 0 /\ elapsed' = 0 /\ command' = c /\ outcome'.how = "none"
  BY DEF Send, NoCall, NotEnded, Ended
<1>7. \E T : commands' \in Seq(T)
  BY <1>4
<1>8. quiet' \in 0 .. (IF link' = "run" THEN ReadLimit ELSE RequestLimit) /\ elapsed' \in 0 .. RunLimit
  BY <1>6, Numbers
<1>9. LinkTypeOK'
  BY <1>4, <1>5, <1>6, <1>8 DEF LinkInv, LinkTypeOK, Outcomes
<1> QED BY <1>6, <1>7, <1>9 DEF LinkInv

\* A read goes on: its clock starts again, the call's does not.
LEMMA ReadOnStep ==
  ASSUME LinkInv, ReadOn, acked' \in BOOLEAN, UNCHANGED <<commands, session, seq, command>>
  PROVE  LinkInv'
BY Numbers DEF LinkInv, LinkTypeOK, ReadOn

\* A call ends, with a frame or without.
LEMMA FinishStep ==
  ASSUME LinkInv, NEW how \in Outcomes, NEW f, Finish(how, f), primed' \in BOOLEAN,
         misled' \in {misled, session}, UNCHANGED <<commands, session, seq, command>>, link # "closed"
  PROVE  LinkInv'
<1>1. link' = "idle" /\ outcome'.how = how /\ acked' = FALSE /\ quiet' = 0 /\ elapsed' = 0
  BY DEF Finish, NoCall, Ended
<1>2. misled' \in 0 .. session
  BY Numbers DEF LinkInv, LinkTypeOK
<1>3. quiet' \in 0 .. (IF link' = "run" THEN ReadLimit ELSE RequestLimit) /\ elapsed' \in 0 .. RunLimit
  BY <1>1, Numbers
<1>4. LinkTypeOK'
  BY <1>1, <1>2, <1>3 DEF LinkInv, LinkTypeOK
<1> QED BY <1>1, <1>4 DEF LinkInv

LEMMA RequestReadsStep == ASSUME LinkInv, NEW f, RequestReads(f) PROVE LinkInv'
<1>1. UNCHANGED <<commands, session, seq, command>> /\ link # "closed"
  BY DEF RequestReads, Reads
<1>2. CASE ReadOn /\ UNCHANGED acked
  BY <1>1, <1>2, ReadOnStep DEF LinkInv, LinkTypeOK
<1>3. ASSUME NEW how \in {"nack", "unexpected"}, Raise(how, f) PROVE LinkInv'
  BY <1>1, <1>3, FinishStep DEF Raise, Outcomes, LinkInv, LinkTypeOK
<1>4. CASE Finish("ok", f) /\ primed' = TRUE /\ misled' \in {misled, session}
  BY <1>1, <1>4, FinishStep DEF Outcomes
<1> QED BY <1>2, <1>3, <1>4 DEF RequestReads

LEMMA RunReadsStep == ASSUME LinkInv, NEW f, RunReads(f) PROVE LinkInv'
<1>1. UNCHANGED <<commands, session, seq, command>> /\ link # "closed"
  BY DEF RunReads, Reads
<1>2. CASE ReadOn /\ acked' \in {acked, TRUE}
  BY <1>1, <1>2, ReadOnStep DEF LinkInv, LinkTypeOK
<1>3. ASSUME NEW how \in {"nack", "order"}, Raise(how, f) PROVE LinkInv'
  BY <1>1, <1>3, FinishStep DEF Raise, Outcomes, LinkInv, LinkTypeOK
<1>4. CASE Finish("ok", f) /\ UNCHANGED <<misled, primed>>
  BY <1>1, <1>4, FinishStep DEF Outcomes, LinkInv, LinkTypeOK
<1> QED BY <1>2, <1>3, <1>4 DEF RunReads

\* A tick within the window of a read is within the deadline of its run.
LEMMA TickStep == ASSUME LinkInv, Tick PROVE LinkInv'
<1>1. UNCHANGED <<commands, session, misled, link, seq, primed, command, acked, outcome>>
  BY DEF Tick, lineVars
<1>2. CASE link = "run"
  <2>1. quiet \in Nat /\ elapsed \in Nat /\ quiet <= elapsed /\ elapsed <= RunLimit
    BY <1>2, Numbers DEF LinkInv, LinkTypeOK
  <2>2. quiet < ReadLimit /\ elapsed < RunLimit
    BY <1>2, <2>1, Numbers DEF Tick, ReadWindow
  <2>3. quiet' = quiet + 1 /\ elapsed' = elapsed + 1
    BY <1>2 DEF Tick
  <2> QED BY <1>1, <1>2, <2>1, <2>2, <2>3, Numbers DEF LinkInv, LinkTypeOK
<1>3. CASE link # "run"
  <2>1. quiet < RequestLimit /\ quiet' = quiet + 1 /\ elapsed' = elapsed /\ link = "request"
    BY <1>3 DEF Tick, ReadWindow
  <2> QED BY <1>1, <1>3, <2>1, Numbers DEF LinkInv, LinkTypeOK
<1> QED BY <1>2, <1>3

\* Each action of the host keeps LinkInv.
LEMMA LinkStep == ASSUME LinkInv, [Next]_vars PROVE LinkInv'
<1>1. CASE UNCHANGED vars
  BY <1>1 DEF vars, hostVars, callVars, lineVars, LinkInv, LinkTypeOK
<1>2. CASE BoardAnswers \/ BoardCompletes \/ BoardDies \/ LineLoses
  BY <1>2, BoardStep
<1>3. CASE OpenLink
  <2>1. Tag(session', 1) \in Tags /\ session' = session + 1 /\ seq = 0
    BY <1>3 DEF OpenLink, LinkInv
  <2>2. misled \in 0 .. session'
    BY <2>1, Numbers DEF LinkInv, LinkTypeOK
  <2> QED BY <1>3, <2>1, <2>2 DEF OpenLink, callVars, LinkInv, LinkTypeOK
<1>4. CASE CloseLink
  <2>1. /\ link' = "closed" /\ seq' = 0 /\ primed' = FALSE /\ command' = "PING"
        /\ acked' = FALSE /\ quiet' = 0 /\ elapsed' = 0 /\ outcome'.how = "none"
        /\ UNCHANGED <<commands, session, misled>>
    BY <1>4 DEF CloseLink, NoCall, NotEnded, Ended, lineVars
  <2>2. quiet' \in 0 .. (IF link' = "run" THEN ReadLimit ELSE RequestLimit) /\ elapsed' \in 0 .. RunLimit
    BY <2>1, Numbers
  <2>3. LinkTypeOK'
    BY <2>1, <2>2 DEF LinkInv, LinkTypeOK, Outcomes
  <2> QED BY <2>1, <2>3 DEF LinkInv
<1>5. CASE Request
  BY <1>5, SendStep DEF Request
<1>6. CASE Run
  BY <1>6, SendStep DEF Run
<1>7. ASSUME NEW f, RequestReads(f) \/ RunReads(f) PROVE LinkInv'
  BY <1>7, RequestReadsStep, RunReadsStep
<1>8. CASE TimesOut
  BY <1>8, FinishStep DEF TimesOut, Raise, Outcomes, lineVars, LinkInv, LinkTypeOK
<1>9. CASE Tick
  BY <1>9, TickStep
<1> QED BY <1>1, <1>2, <1>3, <1>4, <1>5, <1>6, <1>7, <1>8, <1>9 DEF Next, Waiting

\* Every variable of the host keeps to its type: in particular no run waits past
\* its deadline, for any limits and any number of frames passed over
\* (runner_proto.py:451-457).
THEOREM CallsAreBounded == Spec => []LinkTypeOK
<1>1. LinkInv => LinkTypeOK
  BY DEF LinkInv
<1> QED BY <1>1, LinkInit, LinkStep, PTL DEF Spec

-----------------------------------------------------------------------------
(* What is on the wire, in its order: the replies, the end of a run that is *)
(* pending, the commands.  What is left of a damaged command has any number *)
(* and is Real no more.                                                     *)
TagType  == [session : Nat \ {0}, seq : Nat \ {0}]
RunType  == [epoch : Nat, run : Nat]
Commands == [cmd : Board!Kinds, n : Nat, tag : TagType]
Frames   == [kind : {"ACK", "NACK", "RUN_COMPLETE"}, cmd : Board!Kinds \cup {"UNKNOWN"},
             tag : TagType, n : Nat, of : RunType]

Real(f) == f.cmd # "UNKNOWN"

Later(a, b) == a.session < b.session \/ (a.session = b.session /\ a.seq < b.seq)

\* The second tag stands behind the first.  As long as no session was misled, only
\* first PINGs stand behind a first PING: its session never had its answer.
Ahead  == {p \in TagType \X TagType :
             Later(p[1], p[2]) /\ (misled = 0 /\ p[1].seq = 1 => p[2].seq = 1)}

\* The ACK of a run and its RUN_COMPLETE have one tag.
Behind == Ahead \cup {p \in TagType \X TagType : p[1] = p[2] /\ p[1].seq > 1}

\* The tags that may be on the wire: none later than the last command; of other
\* sessions, once a session has its PING answered, first PINGs alone; and once
\* a run has its ACK, this run's.
Marked ==
  {t \in TagType :
     /\ t.session <= session
     /\ t.session = session /\ link # "closed" => t.seq <= seq
     /\ primed /\ InStep => t.session = session \/ t.seq = 1
     /\ primed /\ misled = 0 => t.seq > 1
     /\ link = "run" /\ acked /\ InStep => t = Tag(session, seq)}

WireTypes ==
  /\ replies \in Seq(Frames) /\ commands \in Seq(Commands)
  /\ run_tag \in TagType /\ epoch \in Nat /\ run \in Nat
  /\ last_measurement \in RunType

Order ==
  /\ \A i, j \in DOMAIN replies : i < j /\ Real(replies[i]) /\ Real(replies[j]) =>
       <<replies[i].tag, replies[j].tag>> \in Behind
  /\ phase = "pending" => \A i \in DOMAIN replies : Real(replies[i]) =>
       <<replies[i].tag, run_tag>> \in Behind
  /\ \A i \in DOMAIN replies, j \in DOMAIN commands : Real(replies[i]) =>
       <<replies[i].tag, commands[j].tag>> \in Ahead
  /\ phase = "pending" => \A j \in DOMAIN commands : <<run_tag, commands[j].tag>> \in Ahead
  /\ \A i, j \in DOMAIN commands : i < j => <<commands[i].tag, commands[j].tag>> \in Ahead

Marks ==
  /\ \A i \in DOMAIN replies : Real(replies[i]) => replies[i].tag \in Marked
  /\ phase = "pending" => run_tag \in Marked /\ run_tag.seq > 1
  /\ \A j \in DOMAIN commands :
       commands[j].tag \in Marked /\ (commands[j].cmd = "RUN" => commands[j].tag.seq > 1)

\* A RUN_COMPLETE is of the newest run, or of a run before it, or of another epoch.
Completes ==
  /\ \A i \in DOMAIN replies : replies[i].kind = "RUN_COMPLETE" =>
       /\ Real(replies[i])
       /\ replies[i].of.epoch <= epoch
       /\ replies[i].of.epoch = epoch =>
            replies[i].of.run = run \/ (run > 0 /\ Later(replies[i].tag, run_tag))
  /\ run > 0 =>
       /\ run_tag.session <= session
       /\ run_tag.session = session /\ link # "closed" => run_tag.seq <= seq

HostFacts ==
  /\ link = "closed" => ~primed
  /\ link # "closed" => session > 0
  /\ primed => seq > 0
  /\ seq > 1 => primed
  /\ link = "run" => seq > 1
  /\ link = "request" => seq > 0
  /\ misled = session /\ link # "closed" => primed
  /\ link \in {"request", "run", "closed"} => outcome.how = "none"

WireInv == WireTypes /\ Order /\ Marks /\ Completes /\ HostFacts /\ AnswerIsOwn

\* The types the proofs below need of the host.
LEMMA HostTypes ==
  ASSUME LinkInv
  PROVE  /\ session \in Nat /\ seq \in Nat /\ misled \in Nat /\ misled <= session
         /\ link \in {"closed", "idle", "request", "run"} /\ primed \in BOOLEAN
         /\ link = "closed" => seq = 0
BY Numbers DEF LinkInv, LinkTypeOK

LEMMA WireInit == Init => WireInv
<1> SUFFICES ASSUME Init PROVE WireInv
  OBVIOUS
<1>1. replies = <<>> /\ commands = <<>> /\ phase = "off" /\ run = 0 /\ epoch = 0
  BY DEF Init, Board!Init
<1>2. run_tag \in TagType
  BY LinkAssumption DEF Init, Board!Init, TagType
<1>3. WireTypes
  BY <1>1, <1>2 DEF Init, WireTypes, RunType, Board!NoRun
<1>4. Order /\ Marks /\ Completes
  BY <1>1 DEF Order, Marks, Completes
<1>5. HostFacts /\ AnswerIsOwn
  BY DEF Init, HostFacts, AnswerIsOwn, NotEnded, Ended
<1> QED BY <1>3, <1>4, <1>5 DEF WireInv

-----------------------------------------------------------------------------
(* Sequences that lose their head or gain an end.                          *)
LEMMA Popped ==
  ASSUME NEW S, NEW s \in Seq(S), s # <<>>
  PROVE  /\ Tail(s) \in Seq(S)
         /\ \A i \in DOMAIN Tail(s) : i + 1 \in DOMAIN s /\ Tail(s)[i] = s[i + 1]
         /\ 1 \in DOMAIN s /\ Head(s) = s[1]
         /\ DOMAIN s \subseteq Nat \ {0} /\ DOMAIN Tail(s) \subseteq Nat \ {0}
OBVIOUS

LEMMA Elements ==
  /\ \A S : \A s \in Seq(S) : \A i \in DOMAIN s : s[i] \in S
  /\ \A c \in Commands : c.tag \in TagType /\ c.cmd \in Board!Kinds
  /\ \A f \in Frames : f.tag \in TagType /\ f.of \in RunType
  /\ \A t \in TagType : t.session \in Nat /\ t.seq \in Nat /\ t.session > 0 /\ t.seq > 0
  /\ \A r \in RunType : r.epoch \in Nat /\ r.run \in Nat /\ r = [epoch |-> r.epoch, run |-> r.run]
  /\ \A t \in TagType : t = Tag(t.session, t.seq)
<1>1. \A S : \A s \in Seq(S) : \A i \in DOMAIN s : s[i] \in S
  OBVIOUS
<1>2. \A c \in Commands : c.tag \in TagType /\ c.cmd \in Board!Kinds
  BY DEF Commands
<1>3. \A f \in Frames : f.tag \in TagType /\ f.of \in RunType
  BY DEF Frames
<1>4. \A t \in TagType : t.session \in Nat /\ t.seq \in Nat /\ t.session > 0 /\ t.seq > 0
  BY DEF TagType
<1>5. \A r \in RunType : r.epoch \in Nat /\ r.run \in Nat /\ r = [epoch |-> r.epoch, run |-> r.run]
  BY DEF RunType
<1>6. \A t \in TagType : t = Tag(t.session, t.seq)
  BY DEF TagType, Tag
<1> QED BY <1>1, <1>2, <1>3, <1>4, <1>5, <1>6

LEMMA Pushed ==
  ASSUME NEW S, NEW s \in Seq(S), NEW e \in S
  PROVE  /\ Append(s, e) \in Seq(S)
         /\ \A i \in DOMAIN Append(s, e) :
              \/ i \in DOMAIN s /\ Append(s, e)[i] = s[i]
              \/ i = Len(s) + 1 /\ Append(s, e)[i] = e
         /\ Len(s) \in Nat /\ DOMAIN s = 1 .. Len(s)
OBVIOUS

\* Fewer replies or commands, in the same order, with the marks that are left.
LEMMA Fewer ==
  ASSUME WireTypes, Order, Marks,
         NEW k \in Nat, replies' \in Seq(Frames),
         \A i \in DOMAIN replies' : i + k \in DOMAIN replies /\ replies'[i] = replies[i + k],
         NEW l \in Nat, commands' \in Seq(Commands),
         \A i \in DOMAIN commands' : i + l \in DOMAIN commands /\ commands'[i] = commands[i + l],
         phase' = "pending" => phase = "pending" /\ run_tag' = run_tag,
         Ahead \subseteq Ahead', Behind \subseteq Behind',
         \A i \in DOMAIN replies' : Real(replies'[i]) => replies'[i].tag \in Marked',
         phase' = "pending" => run_tag \in Marked',
         \A i \in DOMAIN commands' : commands'[i].tag \in Marked'
  PROVE  Order' /\ Marks'
<1>1. /\ \A i \in DOMAIN replies : i \in Nat
      /\ \A i \in DOMAIN replies' : i \in Nat
      /\ \A i \in DOMAIN commands : i \in Nat
      /\ \A i \in DOMAIN commands' : i \in Nat
  BY DEF WireTypes
<1>2. \A i, j \in DOMAIN replies' : i < j /\ Real(replies'[i]) /\ Real(replies'[j]) =>
        <<replies'[i].tag, replies'[j].tag>> \in Behind'
  <2> SUFFICES ASSUME NEW i \in DOMAIN replies', NEW j \in DOMAIN replies', i < j,
                      Real(replies'[i]), Real(replies'[j])
               PROVE  <<replies'[i].tag, replies'[j].tag>> \in Behind'
    OBVIOUS
  <2>1. i + k < j + k
    BY <1>1
  <2> QED BY <2>1 DEF Order
<1>3. phase' = "pending" => \A i \in DOMAIN replies' : Real(replies'[i]) =>
        <<replies'[i].tag, run_tag'>> \in Behind'
  BY DEF Order
<1>4. \A i \in DOMAIN replies', j \in DOMAIN commands' : Real(replies'[i]) =>
        <<replies'[i].tag, commands'[j].tag>> \in Ahead'
  BY DEF Order
<1>5. phase' = "pending" => \A j \in DOMAIN commands' : <<run_tag', commands'[j].tag>> \in Ahead'
  BY DEF Order
<1>6. \A i, j \in DOMAIN commands' : i < j =>
        <<commands'[i].tag, commands'[j].tag>> \in Ahead'
  <2> SUFFICES ASSUME NEW i \in DOMAIN commands', NEW j \in DOMAIN commands', i < j
               PROVE  <<commands'[i].tag, commands'[j].tag>> \in Ahead'
    OBVIOUS
  <2>1. i + l < j + l
    BY <1>1
  <2> QED BY <2>1 DEF Order
<1>7. Marks'
  BY DEF Marks
<1> QED BY <1>2, <1>3, <1>4, <1>5, <1>6, <1>7 DEF Order

\* What Completes says outlives replies that leave and calls that begin or end.
LEMMA StillCompletes ==
  ASSUME Completes, UNCHANGED <<epoch, run, run_tag>>,
         NEW k \in Nat,
         \A i \in DOMAIN replies' : i + k \in DOMAIN replies /\ replies'[i] = replies[i + k],
         run > 0 =>
           /\ run_tag.session <= session'
           /\ run_tag.session = session' /\ link' # "closed" => run_tag.seq <= seq'
  PROVE  Completes'
BY DEF Completes

\* A sequence that stays, or loses its head.
LEMMA Shifted ==
  ASSUME NEW S, NEW s \in Seq(S), NEW t, t = s \/ (s # <<>> /\ t = Tail(s))
  PROVE  /\ t \in Seq(S)
         /\ \E k \in Nat : \A i \in DOMAIN t : i + k \in DOMAIN s /\ t[i] = s[i + k]
         /\ \A i \in DOMAIN t : \E j \in DOMAIN s : t[i] = s[j]
<1>1. CASE t = s
  <2>1. \A i \in DOMAIN t : i + 0 \in DOMAIN s /\ t[i] = s[i + 0]
    BY <1>1
  <2> QED BY <1>1, <2>1
<1>2. CASE s # <<>> /\ t = Tail(s)
  BY <1>2, Popped
<1> QED BY <1>1, <1>2

\* What is left of the wire in a step of the line or the host.
LEMMA Remains ==
  ASSUME WireTypes, Order, Marks, Completes, UNCHANGED <<epoch, run, run_tag, phase>>,
         replies' = replies \/ (replies # <<>> /\ replies' = Tail(replies)),
         commands' = commands \/ (commands # <<>> /\ commands' = Tail(commands)),
         Ahead \subseteq Ahead', Behind \subseteq Behind',
         \A i \in DOMAIN replies' : Real(replies'[i]) => replies'[i].tag \in Marked',
         phase = "pending" => run_tag \in Marked',
         \A i \in DOMAIN commands' : commands'[i].tag \in Marked',
         run > 0 =>
           /\ run_tag.session <= session'
           /\ run_tag.session = session' /\ link' # "closed" => run_tag.seq <= seq'
  PROVE  replies' \in Seq(Frames) /\ commands' \in Seq(Commands) /\ Order' /\ Marks' /\ Completes'
<1>1. /\ replies' \in Seq(Frames)
      /\ \E k \in Nat : \A i \in DOMAIN replies' : i + k \in DOMAIN replies /\ replies'[i] = replies[i + k]
      /\ commands' \in Seq(Commands)
      /\ \E l \in Nat : \A i \in DOMAIN commands' : i + l \in DOMAIN commands /\ commands'[i] = commands[i + l]
  BY Shifted DEF WireTypes
<1>2. PICK k \in Nat : \A i \in DOMAIN replies' : i + k \in DOMAIN replies /\ replies'[i] = replies[i + k]
  BY <1>1
<1>3. PICK l \in Nat : \A i \in DOMAIN commands' : i + l \in DOMAIN commands /\ commands'[i] = commands[i + l]
  BY <1>1
<1>4. Order' /\ Marks'
  BY <1>1, <1>2, <1>3, Fewer
<1>5. Completes'
  BY <1>2, StillCompletes
<1> QED BY <1>1, <1>4, <1>5

-----------------------------------------------------------------------------
(* The board and the line.                                                 *)
LEMMA LineLosesWire == ASSUME LinkInv, WireInv, LineLoses PROVE WireInv'
<1>1. UNCHANGED <<epoch, run, run_tag, phase>>
  BY DEF LineLoses
<1>2. UNCHANGED <<session, misled, link, seq, primed, acked, outcome, last_measurement>>
  BY DEF LineLoses, hostVars, callVars
<1>3. Ahead' = Ahead /\ Behind' = Behind /\ Marked' = Marked
  BY <1>2 DEF Ahead, Behind, Marked, InStep
<1>4. WireTypes /\ Order /\ Marks /\ Completes
  BY DEF WireInv
<1>5. /\ \A i \in DOMAIN replies' : Real(replies'[i]) => replies'[i].tag \in Marked'
      /\ \A i \in DOMAIN commands' : commands'[i].tag \in Marked'
      /\ phase = "pending" => run_tag \in Marked'
  <2> replies \in Seq(Frames) /\ commands \in Seq(Commands)
    BY <1>4 DEF WireTypes
  <2>1. \A i \in DOMAIN replies' : \E j \in DOMAIN replies : replies'[i] = replies[j]
    BY Shifted DEF LineLoses
  <2>2. \A i \in DOMAIN commands' : \E j \in DOMAIN commands : commands'[i] = commands[j]
    <3>1. commands' = commands \/ (commands # <<>> /\ commands' = Tail(commands))
      BY DEF LineLoses
    <3> QED BY <3>1, Shifted
  <2> QED BY <1>3, <1>4, <2>1, <2>2 DEF Marks
<1>6. replies' \in Seq(Frames) /\ commands' \in Seq(Commands) /\ Order' /\ Marks' /\ Completes'
  <2>1. run > 0 => /\ run_tag.session <= session'
                   /\ run_tag.session = session' /\ link' # "closed" => run_tag.seq <= seq'
    BY <1>2, <1>4 DEF Completes
  <2>2. /\ replies' = replies \/ (replies # <<>> /\ replies' = Tail(replies))
        /\ commands' = commands \/ (commands # <<>> /\ commands' = Tail(commands))
    BY DEF LineLoses
  <2> QED BY <1>1, <1>3, <1>4, <1>5, <2>1, <2>2, Remains
<1> QED BY <1>1, <1>2, <1>6 DEF WireInv, WireTypes, HostFacts, AnswerIsOwn, InStep

\* No frame moves; what a restart forgets, the frames have from an earlier epoch.
LEMMA BoardDiesWire == ASSUME LinkInv, WireInv, BoardDies PROVE WireInv'
<1>1. UNCHANGED <<replies, commands, session, misled, link, seq, primed, acked, outcome, last_measurement>>
  BY DEF BoardDies, hostVars, callVars, lineVars
<1>2. Ahead' = Ahead /\ Behind' = Behind /\ Marked' = Marked
  BY <1>1 DEF Ahead, Behind, Marked, InStep
<1>3. /\ phase' # "pending" /\ run_tag' = run_tag
      /\ UNCHANGED <<epoch, run>> \/ (epoch' = epoch + 1 /\ run' = 0)
  BY DEF BoardDies, Board!Quiet, Board!Restart
<1>4. WireTypes'
  BY <1>1, <1>3 DEF WireInv, WireTypes
<1>5. Order' /\ Marks'
  BY <1>1, <1>2, <1>3 DEF WireInv, Order, Marks
<1>6. Completes'
  <2>1. \A i \in DOMAIN replies : replies[i].of.epoch \in Nat
    BY Elements DEF WireInv, WireTypes
  <2>2. Completes /\ epoch \in Nat
    BY DEF WireInv, WireTypes
  <2>3. CASE UNCHANGED <<epoch, run>>
    BY <1>1, <1>3, <2>2, <2>3 DEF Completes
  <2>4. CASE epoch' = epoch + 1 /\ run' = 0
    BY <1>1, <2>1, <2>2, <2>4 DEF Completes
  <2> QED BY <1>3, <2>3, <2>4
<1> QED BY <1>1, <1>4, <1>5, <1>6 DEF WireInv, HostFacts, AnswerIsOwn, InStep

\* The end of a run takes its place on the line.
LEMMA BoardCompletesWire == ASSUME LinkInv, WireInv, BoardCompletes PROVE WireInv'
<1> DEFINE e == Board!Frame("RUN_COMPLETE", "RUN", run_tag, run, Board!Newest)
<1>1. UNCHANGED <<epoch, run, run_tag, commands, session, misled, link, seq, primed, acked, outcome, last_measurement>>
  BY DEF BoardCompletes, hostVars, callVars, Board!End
<1>2. phase = "pending" /\ phase' # "pending" /\ replies' = Append(replies, e)
  BY DEF BoardCompletes, Board!End
<1>3. Ahead' = Ahead /\ Behind' = Behind /\ Marked' = Marked
  BY <1>1 DEF Ahead, Behind, Marked, InStep
<1>4. WireTypes /\ Order /\ Marks /\ Completes
  BY DEF WireInv
<1>5. e \in Frames /\ Real(e) /\ e.tag = run_tag /\ e.of.epoch = epoch /\ e.of.run = run
  BY <1>4 DEF WireTypes, Frames, RunType, Real, Board!Frame, Board!Newest
<1> HIDE DEF e
<1>6. WireTypes'
  BY <1>1, <1>2, <1>4, <1>5, Pushed DEF WireTypes
<1>7. \A i \in DOMAIN replies' :
        \/ i \in DOMAIN replies /\ replies'[i] = replies[i]
        \/ i = Len(replies) + 1 /\ replies'[i] = e
  BY <1>2, <1>4, <1>5, Pushed DEF WireTypes
<1>8. DOMAIN replies = 1 .. Len(replies) /\ Len(replies) \in Nat
  BY <1>4 DEF WireTypes
<1>9. Order'
  <2>1. \A i, j \in DOMAIN replies' : i < j /\ Real(replies'[i]) /\ Real(replies'[j]) =>
          <<replies'[i].tag, replies'[j].tag>> \in Behind'
    BY <1>2, <1>3, <1>4, <1>5, <1>7, <1>8 DEF Order
  <2>2. \A i \in DOMAIN replies', j \in DOMAIN commands' : Real(replies'[i]) =>
          <<replies'[i].tag, commands'[j].tag>> \in Ahead'
    BY <1>1, <1>2, <1>3, <1>4, <1>5, <1>7 DEF Order
  <2> QED BY <1>1, <1>2, <1>3, <1>4, <2>1, <2>2 DEF Order
<1>10. Marks'
  BY <1>1, <1>2, <1>3, <1>4, <1>5, <1>7 DEF Marks
<1>11. Completes'
  BY <1>1, <1>2, <1>4, <1>5, <1>7 DEF WireTypes, Completes
<1> QED BY <1>1, <1>6, <1>9, <1>10, <1>11 DEF WireInv, HostFacts, AnswerIsOwn, InStep

\* The answer to a command stands where the command stood: behind all replies
\* and before the other commands.
LEMMA BoardAnswersWire == ASSUME LinkInv, WireInv, BoardAnswers PROVE WireInv'
<1> DEFINE c == Head(commands)
<1>1. UNCHANGED <<session, misled, link, seq, primed, acked, outcome, last_measurement>>
  BY DEF BoardAnswers, hostVars, callVars
<1>2. commands # <<>> /\ commands' = Tail(commands) /\ replies' = Append(replies, sent')
  BY DEF BoardAnswers
<1>3. Ahead' = Ahead /\ Behind' = Behind /\ Marked' = Marked
  BY <1>1 DEF Ahead, Behind, Marked, InStep
<1>4. WireTypes /\ Order /\ Marks /\ Completes
  BY DEF WireInv
<1>5. replies \in Seq(Frames) /\ commands \in Seq(Commands) /\ run \in Nat /\ epoch \in Nat
  BY <1>4 DEF WireTypes
<1>6. /\ Tail(commands) \in Seq(Commands)
      /\ \A j \in DOMAIN commands' : /\ j + 1 \in DOMAIN commands /\ 1 < j + 1
                                     /\ commands'[j] = commands[j + 1]
      /\ 1 \in DOMAIN commands /\ c = commands[1]
  BY <1>2, <1>5, Popped
<1>7. c \in Commands /\ c.tag \in TagType /\ c.cmd \in Board!Kinds
  BY <1>5, <1>6, Elements
<1>8. /\ sent' \in Frames /\ sent'.kind # "RUN_COMPLETE"
      /\ Real(sent') => sent'.tag = c.tag
      /\ phase # "pending" /\ epoch' = epoch
      /\ \/ UNCHANGED <<run, run_tag>> /\ phase' # "pending"
         \/ run' = run + 1 /\ run_tag' = c.tag /\ c.cmd = "RUN"
  <2> USE DEF Board!Frame, Board!NoRun, Board!Newest, Board!Listening
  <2> HIDE DEF c
  <2>1. CASE \E t \in Tags : Board!Refuse("UNKNOWN", Tag(c.tag.session, t.seq))
    <3>1. PICK t \in Tags : Board!Refuse("UNKNOWN", Tag(c.tag.session, t.seq))
      BY <2>1
    <3>2. Tag(c.tag.session, t.seq) \in TagType
      BY <1>7, LinkAssumption DEF TagType, Tag
    <3> QED BY <3>1, <3>2 DEF Board!Refuse, Frames, RunType, Real
  <2>2. CASE Board!Refuse(c.cmd, c.tag)
    BY <1>7, <2>2 DEF Board!Refuse, Frames, RunType, Real
  <2>3. CASE Board!Acknowledge(c.cmd, c.tag)
    BY <1>7, <2>3 DEF Board!Acknowledge, Frames, RunType, Real
  <2>4. CASE c.cmd = "RUN" /\ Board!Begin(c.tag)
    BY <1>7, <2>4 DEF Board!Begin, Frames, RunType, Real
  <2>5. CASE c.cmd = "GET_RESULT" /\ Board!Serve(c.tag)
    BY <1>5, <1>7, <2>5 DEF Board!Serve, Frames, RunType, Real
  <2> QED BY <2>1, <2>2, <2>3, <2>4, <2>5 DEF BoardAnswers, Board!AnswerTo, c
<1>9. /\ \A i \in DOMAIN replies : Real(replies[i]) => <<replies[i].tag, c.tag>> \in Ahead
      /\ \A j \in DOMAIN commands' : <<c.tag, commands'[j].tag>> \in Ahead
      /\ c.tag \in Marked /\ (c.cmd = "RUN" => c.tag.seq > 1)
  BY <1>4, <1>6 DEF Order, Marks
<1> HIDE DEF c
<1>10. /\ replies' \in Seq(Frames)
       /\ \A i \in DOMAIN replies' :
            \/ i \in DOMAIN replies /\ replies'[i] = replies[i]
            \/ i = Len(replies) + 1 /\ replies'[i] = sent'
  BY <1>2, <1>5, <1>8, Pushed
<1>11. DOMAIN replies = 1 .. Len(replies) /\ Len(replies) \in Nat
  BY <1>5
<1>12. WireTypes'
  BY <1>1, <1>2, <1>4, <1>6, <1>7, <1>8, <1>10 DEF WireTypes
<1>13. \A i \in DOMAIN replies' : Real(replies'[i]) =>
         \/ i \in DOMAIN replies /\ replies'[i] = replies[i] /\ <<replies'[i].tag, c.tag>> \in Ahead
         \/ i = Len(replies) + 1 /\ replies'[i].tag = c.tag
  BY <1>8, <1>9, <1>10
<1>14. Order'
  <2>1. \A i, j \in DOMAIN replies' : i < j /\ Real(replies'[i]) /\ Real(replies'[j]) =>
          <<replies'[i].tag, replies'[j].tag>> \in Behind'
    BY <1>3, <1>4, <1>8, <1>10, <1>11, <1>13 DEF Order, Behind
  <2>2. phase' = "pending" => \A i \in DOMAIN replies' : Real(replies'[i]) =>
          <<replies'[i].tag, run_tag'>> \in Behind'
    BY <1>3, <1>7, <1>8, <1>9, <1>13 DEF Behind
  <2>3. \A i \in DOMAIN replies', j \in DOMAIN commands' : Real(replies'[i]) =>
          <<replies'[i].tag, commands'[j].tag>> \in Ahead'
    BY <1>3, <1>4, <1>6, <1>9, <1>13 DEF Order
  <2>4. phase' = "pending" => \A j \in DOMAIN commands' : <<run_tag', commands'[j].tag>> \in Ahead'
    BY <1>3, <1>8, <1>9
  <2>5. \A i, j \in DOMAIN commands' : i < j => <<commands'[i].tag, commands'[j].tag>> \in Ahead'
    <3> SUFFICES ASSUME NEW i \in DOMAIN commands', NEW j \in DOMAIN commands', i < j
                 PROVE  <<commands'[i].tag, commands'[j].tag>> \in Ahead'
      OBVIOUS
    <3>1. i + 1 < j + 1
      BY <1>2, <1>6
    <3> QED BY <1>3, <1>4, <1>6, <3>1 DEF Order
  <2> QED BY <2>1, <2>2, <2>3, <2>4, <2>5 DEF Order
<1>15. Marks'
  BY <1>3, <1>4, <1>6, <1>8, <1>9, <1>10 DEF Marks
<1>16. Completes'
  <2>1. \A i \in DOMAIN replies' : replies'[i].kind = "RUN_COMPLETE" =>
          /\ i \in DOMAIN replies /\ replies'[i] = replies[i] /\ Real(replies[i])
          /\ Later(replies[i].tag, c.tag)
    BY <1>4, <1>8, <1>9, <1>10 DEF Completes, Ahead
  <2>2. CASE UNCHANGED <<run, run_tag>>
    BY <1>1, <1>4, <1>8, <2>1, <2>2 DEF Completes
  <2>3. CASE run' = run + 1 /\ run_tag' = c.tag
    <3>1. run' > 0
      BY <1>5, <2>3
    <3>2. /\ c.tag.session <= session'
          /\ c.tag.session = session' /\ link' # "closed" => c.tag.seq <= seq'
      BY <1>1, <1>9 DEF Marked
    <3> QED BY <1>4, <1>8, <2>1, <2>3, <3>1, <3>2 DEF Completes
  <2> QED BY <1>8, <2>2, <2>3
<1> QED BY <1>1, <1>12, <1>14, <1>15, <1>16 DEF WireInv, HostFacts, AnswerIsOwn, InStep

-----------------------------------------------------------------------------
(* Steps of the host that read at most one frame and rule out no tag.       *)
LEMMA SameMarks ==
  ASSUME WireTypes, Order, Marks, Completes, HostStep, UNCHANGED <<commands, session>>,
         replies' = replies \/ (replies # <<>> /\ replies' = Tail(replies)),
         Ahead \subseteq Ahead', Marked \subseteq Marked',
         link' # "closed" => link # "closed" /\ seq' = seq, last_measurement' \in RunType
  PROVE  WireTypes' /\ Order' /\ Marks' /\ Completes'
<1>1. UNCHANGED <<epoch, run, run_tag, phase>>
  BY DEF HostStep
<1>2. Behind \subseteq Behind'
  BY DEF Behind
<1>3. \A i \in DOMAIN replies' : \E j \in DOMAIN replies : replies'[i] = replies[j]
  BY Shifted DEF WireTypes
<1>4. /\ \A i \in DOMAIN replies' : Real(replies'[i]) => replies'[i].tag \in Marked'
      /\ \A i \in DOMAIN commands' : commands'[i].tag \in Marked'
      /\ phase = "pending" => run_tag \in Marked'
  BY <1>3 DEF Marks
<1>5. run > 0 => /\ run_tag.session <= session'
                 /\ run_tag.session = session' /\ link' # "closed" => run_tag.seq <= seq'
  BY DEF Completes
<1>6. replies' \in Seq(Frames) /\ commands' \in Seq(Commands) /\ Order' /\ Marks' /\ Completes'
  BY <1>1, <1>2, <1>4, <1>5, Remains
<1> QED BY <1>1, <1>6 DEF WireTypes

\* A call that is not answered ends, and what is on its way stays there.
LEMMA FailsWire ==
  ASSUME LinkInv, WireInv, HostStep, UNCHANGED <<commands, session, seq, misled, primed, last_measurement>>,
         replies' = replies \/ (replies # <<>> /\ replies' = Tail(replies)),
         link \in {"request", "run"}, link' = "idle", outcome'.how # "ok"
  PROVE  WireInv'
<1>1. Ahead \subseteq Ahead' /\ Marked \subseteq Marked'
  BY DEF Ahead, Marked, InStep
<1>2. WireTypes' /\ Order' /\ Marks' /\ Completes'
  BY <1>1, SameMarks DEF WireInv, WireTypes
<1> QED BY <1>2 DEF WireInv, HostFacts, AnswerIsOwn

\* A call that goes on has learnt nothing.
LEMMA GoesOnWire ==
  ASSUME LinkInv, WireInv, HostStep,
         UNCHANGED <<commands, session, link, seq, misled, primed, acked, outcome, last_measurement>>,
         replies' = replies \/ (replies # <<>> /\ replies' = Tail(replies))
  PROVE  WireInv'
<1>1. Ahead \subseteq Ahead' /\ Marked \subseteq Marked'
  BY DEF Ahead, Marked, InStep
<1>2. WireTypes' /\ Order' /\ Marks' /\ Completes'
  BY <1>1, SameMarks DEF WireInv, WireTypes
<1> QED BY <1>2 DEF WireInv, HostFacts, AnswerIsOwn, InStep

LEMMA CloseLinkWire == ASSUME LinkInv, WireInv, CloseLink PROVE WireInv'
<1>1. /\ HostStep /\ UNCHANGED <<commands, replies, session, misled>>
      /\ link # "closed" /\ link' = "closed" /\ seq' = 0 /\ primed' = FALSE
      /\ outcome'.how = "none" /\ last_measurement' = Board!NoRun
  BY DEF CloseLink, lineVars, NotEnded, Ended
<1>2. Ahead \subseteq Ahead' /\ Marked \subseteq Marked'
  BY <1>1 DEF Ahead, Marked
<1>3. last_measurement' \in RunType
  BY <1>1 DEF RunType, Board!NoRun
<1>4. WireTypes' /\ Order' /\ Marks' /\ Completes'
  BY <1>1, <1>2, <1>3, SameMarks DEF WireInv
<1> QED BY <1>1, <1>4 DEF WireInv, HostFacts, AnswerIsOwn

\* The next program counts from one, and no frame on its way is of its session.
LEMMA OpenLinkWire == ASSUME LinkInv, WireInv, OpenLink PROVE WireInv'
<1>1. /\ UNCHANGED <<epoch, run, run_tag, phase, commands, misled, seq, primed, acked, outcome, last_measurement>>
      /\ link = "closed" /\ link' = "idle" /\ session' = session + 1
  BY DEF OpenLink, HostStep, callVars
<1>2. ~primed /\ session \in Nat /\ seq = 0 /\ misled \in Nat /\ misled <= session
  BY <1>1, HostTypes DEF WireInv, HostFacts
<1>3. Ahead' = Ahead /\ Behind' = Behind
  BY <1>1 DEF Ahead, Behind
<1>4. Marked \subseteq Marked'
  BY <1>1, <1>2, Elements DEF Marked
<1>5. WireTypes /\ Order /\ Marks /\ Completes
  BY DEF WireInv
<1>6. /\ replies' \in Seq(Frames)
      /\ \E k \in Nat : \A i \in DOMAIN replies' : i + k \in DOMAIN replies /\ replies'[i] = replies[i + k]
  <2>1. replies \in Seq(Frames)
    BY <1>5 DEF WireTypes
  <2>2. CASE replies' = <<>>
    BY <2>2
  <2>3. CASE \E l \in 1 .. Len(replies) : replies' = SubSeq(replies, l, Len(replies))
    <3>1. PICK l \in 1 .. Len(replies) : replies' = SubSeq(replies, l, Len(replies))
      BY <2>3
    <3>2. /\ replies' \in Seq(Frames)
          /\ \A i \in DOMAIN replies' : i + (l - 1) \in DOMAIN replies /\ replies'[i] = replies[i + (l - 1)]
      BY <2>1, <3>1
    <3> QED BY <3>1, <3>2
  <2> QED BY <2>2, <2>3 DEF OpenLink, Suffixes
<1>7. PICK k \in Nat : \A i \in DOMAIN replies' : i + k \in DOMAIN replies /\ replies'[i] = replies[i + k]
  BY <1>6
<1>8. /\ commands' \in Seq(Commands)
      /\ \A i \in DOMAIN commands' : i + 0 \in DOMAIN commands /\ commands'[i] = commands[i + 0]
  <2>1. commands' = commands /\ commands \in Seq(Commands)
    BY <1>1, <1>5 DEF WireTypes
  <2> QED BY <2>1
<1>9. /\ \A i \in DOMAIN replies' : Real(replies'[i]) => replies'[i].tag \in Marked'
      /\ phase' = "pending" => run_tag \in Marked'
      /\ \A i \in DOMAIN commands' : commands'[i].tag \in Marked'
  BY <1>1, <1>4, <1>5, <1>7 DEF Marks
<1>10. Order' /\ Marks'
  BY <1>1, <1>3, <1>5, <1>6, <1>7, <1>8, <1>9, Fewer
<1>11. Completes'
  <2>1. run > 0 => run_tag.session <= session' /\ run_tag.session # session'
    BY <1>1, <1>2, <1>5, Elements DEF Completes, WireTypes
  <2> QED BY <1>1, <1>5, <1>7, <2>1, StillCompletes
<1>12. WireTypes'
  BY <1>1, <1>5, <1>6 DEF WireTypes
<1> QED BY <1>1, <1>2, <1>10, <1>11, <1>12 DEF WireInv, HostFacts, AnswerIsOwn

-----------------------------------------------------------------------------
(* A command that is sent is later than all that is on the wire, and a first *)
(* PING only if nothing of this program's was sent before.                  *)
LEMMA SendWire ==
  ASSUME LinkInv, WireInv, NEW c \in Board!Kinds, NEW n \in Nat, Send(c, n), primed \/ seq = 0,
         c = "RUN" => primed, link' = "request" \/ (link' = "run" /\ primed)
  PROVE  WireInv'
<1> DEFINE t == Tag(session, seq + 1)
<1> DEFINE e == [cmd |-> c, n |-> n, tag |-> t]
<1>1. /\ UNCHANGED <<epoch, run, run_tag, phase, replies, session, misled, primed, last_measurement>>
      /\ link = "idle" /\ seq' = seq + 1 /\ commands' = Append(commands, e)
      /\ acked' = FALSE /\ outcome'.how = "none" /\ Len(commands) \in Nat
  BY DEF Send, HostStep, NoCall, NotEnded, Ended, WireInv, WireTypes
<1>2. session \in Nat /\ session > 0 /\ seq \in Nat /\ misled \in Nat /\ misled <= session
  BY <1>1, HostTypes DEF WireInv, HostFacts
<1>3. WireTypes /\ Order /\ Marks /\ Completes /\ HostFacts
  BY DEF WireInv
<1>4. t \in TagType /\ t.session = session /\ t.seq = seq + 1
  BY <1>2 DEF TagType, Tag
<1>5. e \in Commands /\ e.tag = t /\ e.cmd = c
  BY <1>4 DEF Commands
<1>6. c = "RUN" => t.seq > 1
  BY <1>2, <1>3, <1>4 DEF HostFacts
<1> HIDE DEF t
<1> HIDE DEF e
<1>7. Ahead' = Ahead /\ Behind' = Behind
  BY <1>1 DEF Ahead, Behind
<1>8. \A m \in Marked : m \in Marked' /\ <<m, t>> \in Ahead
  <2> SUFFICES ASSUME NEW m \in Marked PROVE m \in Marked' /\ <<m, t>> \in Ahead
    OBVIOUS
  <2>1. m \in TagType /\ m.session \in Nat /\ m.seq \in Nat /\ m.seq > 0
    BY Elements DEF Marked
  <2>2. m.session <= session /\ (m.session = session => m.seq <= seq)
    BY <1>1 DEF Marked
  <2>3. Later(m, t)
    BY <1>2, <1>4, <2>1, <2>2 DEF Later
  <2>4. misled = 0 /\ m.seq = 1 => seq = 0
    BY <2>1 DEF Marked
  <2>5. m \in Marked'
    BY <1>1, <1>2, <2>1, <2>2 DEF Marked, InStep
  <2> QED BY <1>2, <1>4, <2>1, <2>3, <2>4, <2>5 DEF Ahead
<1>9. t \in Marked'
  BY <1>1, <1>2, <1>3, <1>4 DEF Marked, HostFacts
<1>10. /\ commands' \in Seq(Commands)
       /\ \A j \in DOMAIN commands' :
            \/ j \in DOMAIN commands /\ commands'[j] = commands[j]
            \/ j = Len(commands) + 1 /\ commands'[j] = e
       /\ DOMAIN commands = 1 .. Len(commands)
  BY <1>1, <1>3, <1>5, Pushed DEF WireTypes
<1>11. WireTypes'
  BY <1>1, <1>3, <1>10 DEF WireTypes
<1>12. Order'
  <2>1. \A i \in DOMAIN replies', j \in DOMAIN commands' : Real(replies'[i]) =>
          <<replies'[i].tag, commands'[j].tag>> \in Ahead'
    BY <1>1, <1>3, <1>5, <1>7, <1>8, <1>10 DEF Order, Marks
  <2>2. phase' = "pending" => \A j \in DOMAIN commands' : <<run_tag', commands'[j].tag>> \in Ahead'
    BY <1>1, <1>3, <1>5, <1>7, <1>8, <1>10 DEF Order, Marks
  <2>3. \A i, j \in DOMAIN commands' : i < j => <<commands'[i].tag, commands'[j].tag>> \in Ahead'
    BY <1>1, <1>3, <1>5, <1>7, <1>8, <1>10 DEF Order, Marks
  <2> QED BY <1>1, <1>3, <1>7, <2>1, <2>2, <2>3 DEF Order
<1>13. Marks'
  BY <1>1, <1>3, <1>5, <1>6, <1>8, <1>9, <1>10 DEF Marks
<1>14. Completes'
  <2>1. run > 0 => run_tag.session <= session' /\ (run_tag.session = session' => run_tag.seq <= seq')
    BY <1>1, <1>2, <1>3, Elements DEF Completes, WireTypes
  <2> QED BY <1>1, <1>3, <2>1 DEF Completes
<1>15. HostFacts'
  BY <1>1, <1>2, <1>3 DEF HostFacts
<1> QED BY <1>1, <1>11, <1>12, <1>13, <1>14, <1>15 DEF WireInv, AnswerIsOwn

-----------------------------------------------------------------------------
(* Frames that tell.                                                        *)

\* What stands behind the frame that is read, when the frame is a real one.
LEMMA BehindIt ==
  ASSUME WireTypes, Order, Marks, replies # <<>>, NEW f, f = Head(replies), Real(f)
  PROVE  /\ f \in Frames /\ f.tag \in Marked
         /\ \A i \in DOMAIN Tail(replies) : Real(Tail(replies)[i]) =>
              <<f.tag, Tail(replies)[i].tag>> \in Behind /\ Tail(replies)[i].tag \in Marked
         /\ phase = "pending" => <<f.tag, run_tag>> \in Behind /\ run_tag \in Marked
         /\ \A j \in DOMAIN commands :
              <<f.tag, commands[j].tag>> \in Behind /\ commands[j].tag \in Marked
<1>1. replies \in Seq(Frames)
  BY DEF WireTypes
<1>2. /\ \A i \in DOMAIN Tail(replies) : /\ i + 1 \in DOMAIN replies /\ 1 < i + 1
                                         /\ Tail(replies)[i] = replies[i + 1]
      /\ 1 \in DOMAIN replies /\ f = replies[1]
  BY <1>1, Popped
<1>3. f \in Frames
  BY <1>1, <1>2, Elements
<1> QED BY <1>2, <1>3 DEF Order, Marks, Behind

\* Behind the answer to this program's last command there is nothing real but
\* that command's RUN_COMPLETE.
LEMMA BehindOwn ==
  ASSUME LinkInv, link # "closed", NEW t \in TagType, t = Tag(session, seq),
         NEW u \in Marked, <<t, u>> \in Behind
  PROVE  u = t /\ u.seq > 1
<1>1. t.session = session /\ t.seq = seq /\ session \in Nat /\ seq \in Nat
  BY HostTypes DEF Tag
<1>2. u.session \in Nat /\ u.seq \in Nat /\ u.session <= session /\ (u.session = session => u.seq <= seq)
  BY Elements DEF Marked
<1>3. ~Later(t, u)
  BY <1>1, <1>2 DEF Later
<1> QED BY <1>3 DEF Behind, Ahead

\* A frame tells: f is real, and what stands behind it has a mark that is left.
LEMMA TellsWire ==
  ASSUME WireTypes, Order, Marks, Completes, HostStep, UNCHANGED <<commands, session, seq>>,
         link # "closed", replies # <<>>, replies' = Tail(replies), NEW f, f = Head(replies), Real(f),
         \A u \in Marked : <<f.tag, u>> \in Behind => u \in Marked',
         Ahead \subseteq Ahead', last_measurement' \in RunType
  PROVE  WireTypes' /\ Order' /\ Marks' /\ Completes'
<1>1. UNCHANGED <<epoch, run, run_tag, phase>>
  BY DEF HostStep
<1>2. Behind \subseteq Behind'
  BY DEF Behind
<1>3. /\ \A i \in DOMAIN replies' : Real(replies'[i]) => replies'[i].tag \in Marked'
      /\ \A i \in DOMAIN commands' : commands'[i].tag \in Marked'
      /\ phase = "pending" => run_tag \in Marked'
  BY BehindIt
<1>4. run > 0 => /\ run_tag.session <= session'
                 /\ run_tag.session = session' /\ link' # "closed" => run_tag.seq <= seq'
  BY DEF Completes
<1>5. replies' \in Seq(Frames) /\ commands' \in Seq(Commands) /\ Order' /\ Marks' /\ Completes'
  BY <1>1, <1>2, <1>3, <1>4, Remains
<1> QED BY <1>1, <1>5 DEF WireTypes

\* An answer with this session's tag leaves nothing of others behind it; one of
\* another session's is a first PING's, and misleads, or was ruled out before.
LEMMA AnsweredWire ==
  ASSUME LinkInv, WireInv, NEW f, link = "request", Reads(f), Mine(f), f.cmd = command,
         Finish("ok", f), primed' = TRUE, UNCHANGED last_measurement,
         misled' = IF misled = 0 /\ seq = 1 /\ f.tag.session # session THEN session ELSE misled
  PROVE  WireInv'
<1>1. /\ HostStep /\ UNCHANGED <<commands, session, seq>>
      /\ replies # <<>> /\ f = Head(replies) /\ replies' = Tail(replies)
  BY DEF Reads
<1>2. link' = "idle" /\ outcome'.frame = f /\ f.tag.seq = seq
  BY DEF Finish, Ended, Mine
<1>3. WireTypes /\ Order /\ Marks /\ Completes /\ HostFacts
  BY DEF WireInv
<1>4. Real(f)
  <2>1. command \in Board!Kinds
    BY DEF LinkInv, LinkTypeOK
  <2> QED BY <2>1 DEF Real
<1>5. f \in Frames /\ f.tag \in Marked /\ f.tag \in TagType /\ f.tag = Tag(f.tag.session, seq)
  BY <1>1, <1>2, <1>3, <1>4, BehindIt, Elements
<1>6. session \in Nat /\ session > 0 /\ seq \in Nat /\ seq > 0 /\ misled \in Nat /\ misled <= session
  BY <1>3, HostTypes DEF HostFacts
<1>7. seq > 1 => primed
  BY <1>3 DEF HostFacts
<1>8. misled = session => primed
  BY <1>3 DEF HostFacts
<1>9. Ahead \subseteq Ahead'
  BY <1>6 DEF Ahead
<1>10. \A u \in Marked : <<f.tag, u>> \in Behind => u \in Marked'
  <2> SUFFICES ASSUME NEW u \in Marked, <<f.tag, u>> \in Behind PROVE u \in Marked'
    OBVIOUS
  <2>1. u \in TagType /\ u.session <= session /\ (u.session = session => u.seq <= seq)
    BY DEF Marked
  <2>2. CASE f.tag.session = session
    <3>1. u = f.tag /\ u.seq > 1
      BY <1>5, <2>2, BehindOwn
    <3> QED BY <1>1, <1>2, <2>1, <2>2, <3>1 DEF Marked
  <2>3. CASE f.tag.session # session /\ seq = 1 /\ misled = 0
    <3>1. u.seq = 1
      BY <1>2, <2>3 DEF Behind, Ahead
    <3> QED BY <1>1, <1>2, <1>6, <2>1, <2>3, <3>1 DEF Marked
  <2>4. CASE f.tag.session # session /\ ~(seq = 1 /\ misled = 0)
    <3>1. misled' = misled /\ (misled = 0 => primed)
      BY <1>6, <1>7, <2>4
    <3> QED BY <1>1, <1>2, <1>8, <2>1, <3>1 DEF Marked, InStep
  <2> QED BY <2>2, <2>3, <2>4
<1>11. WireTypes' /\ Order' /\ Marks' /\ Completes'
  BY <1>1, <1>3, <1>4, <1>9, <1>10, TellsWire DEF WireTypes
<1>12. AnswerIsOwn'
  <2>1. seq > 1 /\ InStep' => f.tag.session = session
    BY <1>1, <1>2, <1>5, <1>7 DEF Marked, InStep
  <2> QED BY <1>1, <1>2, <1>5, <2>1 DEF AnswerIsOwn
<1>13. HostFacts'
  BY <1>1, <1>2, <1>3 DEF HostFacts
<1> QED BY <1>11, <1>12, <1>13 DEF WireInv

LEMMA RequestReadsWire == ASSUME LinkInv, WireInv, NEW f, RequestReads(f) PROVE WireInv'
<1>1. /\ link = "request" /\ Reads(f) /\ HostStep /\ UNCHANGED <<commands, session, seq, command>>
      /\ replies # <<>> /\ replies' = Tail(replies)
  BY DEF RequestReads, Reads
<1>2. CASE ReadOn /\ UNCHANGED acked
  BY <1>1, <1>2, GoesOnWire DEF ReadOn
<1>3. ASSUME NEW how \in {"nack", "unexpected"}, Raise(how, f) PROVE WireInv'
  BY <1>1, <1>3, FailsWire DEF Raise, Finish, Ended
<1>4. CASE /\ Mine(f) /\ f.cmd = command /\ Finish("ok", f) /\ primed' = TRUE /\ UNCHANGED last_measurement
           /\ misled' = IF misled = 0 /\ seq = 1 /\ f.tag.session # session THEN session ELSE misled
  BY <1>1, <1>4, AnsweredWire
<1> QED BY <1>2, <1>3, <1>4 DEF RequestReads

\* A RUN_COMPLETE that is taken after the ACK is this run's: no other is left.
LEMMA CompletedIsOwn ==
  ASSUME LinkInv, WireInv, NEW f, link = "run", acked, Reads(f), f.kind = "RUN_COMPLETE"
  PROVE  /\ f \in Frames /\ f.of \in RunType
         /\ InStep => f.tag = Tag(session, seq)
         /\ f.of.epoch <= epoch
         /\ f.of.epoch = epoch => f.of.run = run \/ (run > 0 /\ Later(f.tag, run_tag))
<1>1. replies # <<>> /\ f = Head(replies) /\ replies \in Seq(Frames)
  BY DEF Reads, WireInv, WireTypes
<1>2. 1 \in DOMAIN replies /\ f = replies[1] /\ f \in Frames /\ f.of \in RunType
  BY <1>1, Popped, Elements
<1>3. f.tag \in Marked /\ f.of.epoch <= epoch
      /\ (f.of.epoch = epoch => f.of.run = run \/ (run > 0 /\ Later(f.tag, run_tag)))
  BY <1>2 DEF WireInv, Completes, Marks
<1> QED BY <1>2, <1>3 DEF Marked

LEMMA RunReadsWire == ASSUME LinkInv, WireInv, NEW f, RunReads(f) PROVE WireInv'
<1>1. /\ link = "run" /\ Reads(f) /\ HostStep /\ UNCHANGED <<commands, session, seq, command>>
      /\ replies # <<>> /\ f = Head(replies) /\ replies' = Tail(replies)
  BY DEF RunReads, Reads
<1>2. WireTypes /\ Order /\ Marks /\ Completes /\ HostFacts
  BY DEF WireInv
<1>3. seq > 1 /\ primed
  BY <1>1, <1>2 DEF HostFacts
<1>4. CASE ReadOn /\ UNCHANGED acked
  BY <1>1, <1>4, GoesOnWire DEF ReadOn
<1>5. ASSUME NEW how \in {"nack", "order"}, Raise(how, f) PROVE WireInv'
  BY <1>1, <1>5, FailsWire DEF Raise, Finish, Ended
<1>6. CASE Mine(f) /\ f.kind = "ACK" /\ f.cmd = "RUN" /\ ReadOn /\ acked' = TRUE
  <2>1. UNCHANGED <<misled, link, primed, outcome, last_measurement>> /\ f.tag.seq = seq
    BY <1>6 DEF ReadOn, Mine
  <2>2. Real(f)
    BY <1>6 DEF Real
  <2>3. f.tag \in Marked /\ f.tag \in TagType /\ f.tag = Tag(f.tag.session, seq)
    BY <1>1, <1>2, <2>1, <2>2, BehindIt, Elements
  <2>4. Ahead \subseteq Ahead'
    BY <2>1 DEF Ahead
  <2>5. \A u \in Marked : <<f.tag, u>> \in Behind => u \in Marked'
    <3> SUFFICES ASSUME NEW u \in Marked, <<f.tag, u>> \in Behind PROVE u \in Marked'
      OBVIOUS
    <3>1. InStep => u = Tag(session, seq)
      <4>1. InStep => f.tag.session = session
        BY <1>3, <2>1, <2>3 DEF Marked
      <4> QED BY <1>1, <2>3, <4>1, BehindOwn
    <3> QED BY <1>1, <2>1, <3>1 DEF Marked, InStep
  <2>6. WireTypes' /\ Order' /\ Marks' /\ Completes'
    BY <1>1, <1>2, <2>1, <2>2, <2>4, <2>5, TellsWire DEF WireTypes
  <2> QED BY <1>1, <1>2, <2>1, <2>6 DEF WireInv, HostFacts, AnswerIsOwn, InStep
<1>7. CASE f.kind = "RUN_COMPLETE" /\ acked /\ Finish("ok", f) /\ last_measurement' = f.of
           /\ UNCHANGED <<misled, primed>>
  <2>1. link' = "idle" /\ outcome'.frame = f
    BY <1>7 DEF Finish, Ended
  <2>2. f.of \in RunType /\ (InStep => f.tag = Tag(session, seq))
    BY <1>1, <1>7, CompletedIsOwn
  <2>3. Ahead \subseteq Ahead' /\ Marked \subseteq Marked'
    BY <1>1, <1>7, <2>1 DEF Ahead, Marked, InStep
  <2>4. WireTypes' /\ Order' /\ Marks' /\ Completes'
    BY <1>1, <1>2, <1>7, <2>1, <2>2, <2>3, SameMarks
  <2>5. HostFacts'
    BY <1>1, <1>2, <1>7, <2>1 DEF HostFacts
  <2>6. AnswerIsOwn'
    BY <1>1, <1>7, <2>1, <2>2 DEF AnswerIsOwn, InStep
  <2> QED BY <2>4, <2>5, <2>6 DEF WireInv
<1> QED BY <1>4, <1>5, <1>6, <1>7 DEF RunReads, AckFirst

LEMMA WireStep == ASSUME LinkInv, WireInv, [Next]_vars PROVE WireInv'
<1>1. CASE UNCHANGED vars
  <2>1. UNCHANGED <<epoch, run, run_tag, phase, commands, replies, session, misled, link, seq, primed,
                    acked, outcome, last_measurement>>
    BY <1>1 DEF vars, boardVars, hostVars, callVars, lineVars
  <2> QED BY <2>1 DEF WireInv, WireTypes, Order, Marks, Completes, HostFacts, AnswerIsOwn, InStep,
                      Ahead, Behind, Marked
<1>2. CASE BoardAnswers \/ BoardCompletes \/ BoardDies \/ LineLoses
  BY <1>2, BoardAnswersWire, BoardCompletesWire, BoardDiesWire, LineLosesWire
<1>3. CASE OpenLink \/ CloseLink
  BY <1>3, OpenLinkWire, CloseLinkWire
<1>4. CASE Request
  <2>1. last_measurement.run \in Nat
    BY Elements DEF WireInv, WireTypes
  <2> QED BY <1>4, <2>1, SendWire DEF Request
<1>5. CASE Run
  BY <1>5, SendWire DEF Run
<1>6. ASSUME NEW f, RequestReads(f) \/ RunReads(f) PROVE WireInv'
  BY <1>6, RequestReadsWire, RunReadsWire
<1>7. CASE TimesOut
  BY <1>7, FailsWire DEF TimesOut, Raise, Finish, Ended, lineVars
<1>8. CASE Tick
  BY <1>8, GoesOnWire DEF Tick, lineVars
<1> QED BY <1>1, <1>2, <1>3, <1>4, <1>5, <1>6, <1>7, <1>8 DEF Next, Waiting

\* What a call returns is the answer to that call, for any number of programs,
\* calls and restarts, whatever is lost or damaged (runner_proto.py:385-402,
\* 459-485).
THEOREM AnswersAreOwn == Spec => []AnswerIsOwn
<1>1. WireInv => AnswerIsOwn
  BY DEF WireInv
<1> QED BY <1>1, LinkInit, LinkStep, WireInit, WireStep, PTL DEF Spec

\* A RUN_COMPLETE that is read and not of the newest run has an earlier tag than
\* the newest run's command, and no command is later than the program's own.
LEMMA NewestStep ==
  ASSUME LinkInv, WireInv, [Next]_vars
  PROVE  [InStep /\ link = "run" /\ outcome'.how = "ok" =>
            \/ last_measurement' = Board!Newest
            \/ last_measurement'.epoch < epoch]_vars
<1> SUFFICES ASSUME InStep, link = "run", outcome'.how = "ok"
             PROVE  last_measurement' = Board!Newest \/ last_measurement'.epoch < epoch
  OBVIOUS
<1>1. outcome.how = "none"
  BY DEF WireInv, HostFacts
<1>2. PICK f : RunReads(f)
  <2>1. outcome' # outcome
    BY <1>1
  <2>2. ~(BoardAnswers \/ BoardCompletes \/ BoardDies \/ LineLoses \/ OpenLink \/ CloseLink \/ UNCHANGED vars)
    BY <2>1, <1>1 DEF BoardAnswers, BoardCompletes, BoardDies, LineLoses, OpenLink, CloseLink, NotEnded, Ended,
                      vars, hostVars
  <2>3. ~Request /\ ~Run
    BY DEF Request, Run, Send
  <2>4. ~TimesOut /\ ~Tick /\ ~RequestReads(Head(replies))
    BY <2>1 DEF TimesOut, Raise, Finish, Ended, Tick, RequestReads
  <2> QED BY <2>2, <2>3, <2>4 DEF Next, Waiting
<1>3. f.kind = "RUN_COMPLETE" /\ acked /\ last_measurement' = f.of /\ Reads(f)
  BY <1>1, <1>2 DEF RunReads, AckFirst, ReadOn, Raise, Finish, Ended
<1>4. /\ f.of \in RunType /\ f.tag = Tag(session, seq) /\ f.of.epoch <= epoch
      /\ f.of.epoch = epoch => f.of.run = run \/ (run > 0 /\ Later(f.tag, run_tag))
  BY <1>3, CompletedIsOwn
<1>5. run > 0 => ~Later(f.tag, run_tag)
  <2>1. run > 0 => run_tag.session <= session /\ (run_tag.session = session => run_tag.seq <= seq)
    BY DEF WireInv, Completes
  <2>2. run_tag.session \in Nat /\ run_tag.seq \in Nat /\ session \in Nat /\ seq \in Nat
    BY HostTypes, Elements DEF WireInv, WireTypes
  <2> QED BY <1>4, <2>1, <2>2 DEF Later, Tag
<1>6. f.of.epoch = epoch => f.of = Board!Newest
  BY <1>4, <1>5, Elements DEF Board!Newest
<1>7. f.of.epoch \in Nat /\ epoch \in Nat
  BY <1>4, Elements DEF WireInv, WireTypes
<1> QED BY <1>3, <1>4, <1>6, <1>7

\* A record run returns is of the board's newest run, or of an epoch that is
\* over, for any number of programs, calls and restarts, whatever is lost or
\* damaged (runner_proto.py:445-498).
THEOREM RecordsAreNewest == Spec => RecordIsNewest
<1> QED BY NewestStep, LinkInit, LinkStep, WireInit, WireStep, PTL DEF Spec, RecordIsNewest
=============================================================================
