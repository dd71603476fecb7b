------------------------------- MODULE Frames -------------------------------
(***************************************************************************)
(* One direction of the link at a time: the host's reader or the board's   *)
(* parser at the end of a line that loses and damages symbols.             *)
(***************************************************************************)
EXTENDS FrameReader, FrameParser

VARIABLE receiver   \* "host" or "board"

vars == <<lineVars, buf, got, receiver>>

Init ==
  /\ LineInit
  /\ buf = <<>> /\ got = <<>>
  /\ receiver \in {"host", "board"}

Host  == receiver = "host" /\ ReaderNext /\ UNCHANGED <<got, receiver>>
Board == receiver = "board" /\ parse_one_frame /\ UNCHANGED <<buf, receiver>>

Next == Host \/ Board

\* Both poll: the host's loop in read_frame and the board's in get_raw go on.
Spec == Init /\ [][Next]_vars /\ WF_vars(Host) /\ WF_vars(Board)

HostLosesNoFrame == receiver = "host" => NoFrameLost
HostStallBounded == receiver = "host" => StallBounded
BoardInventsNothing == receiver = "board" => NothingInvented
BoardSwallowBounded == receiver = "board" => SwallowBounded

\* On a line that damages nothing every frame sent is in the end returned, or
\* dispatched, and none is refused: in order, by both receivers.
CleanLineDelivers == hurt = {} ~> out = [n \in DOMAIN sent |-> n]
=============================================================================
