-------------------------- MODULE MCChannelDispatch --------------------------
(* Small instances of ChannelDispatch: named nights, bookings and jobs. *)
EXTENDS ChannelDispatch, TLC

CONSTANTS n1, n2, b1, b2

Wishes(closed, open) == [n \in Night |-> IF n \in closed THEN "closed"
                                         ELSE IF n \in open THEN "open" ELSE "keep"]
JobOf(kind, booking, closed, open) ==
  [kind |-> kind, booking |-> booking, wish |-> Wishes(closed, open)]

Symmetry == Permutations(Worker)

\* An OS stay on n1 that is closed, moved to n2, and finally cancelled; and a
\* channel-fed booking that may take the night the move gives back.
MoveOps == {"close", "move", "cancel", "create"}
MoveJobs == [o \in MoveOps |->
  CASE o = "close" -> JobOf("manual_close", b1, {n1}, {})
    [] o = "move" -> JobOf("move", b1, {n2}, {n1})
    [] o = "cancel" -> JobOf("cancel", b1, {}, {n2})
    [] o = "create" -> JobOf("create", b2, {n1}, {})]

\* Two bookings, a LINE close and a LINE room control on overlapping nights.
ReviewOps == {"create", "line", "control"}
ReviewJobs == [o \in ReviewOps |->
  CASE o = "create" -> JobOf("create", b1, {n1}, {})
    [] o = "line" -> JobOf("line_close", b2, {n2}, {})
    [] o = "control" -> JobOf("room_control", NoBooking, {}, {n2})]

\* A LINE close that staff may anticipate at the channel, and a room control that the
\* reviewed close must not keep waiting.
StaffOps == {"line", "control"}
StaffJobs == [o \in StaffOps |->
  CASE o = "line" -> JobOf("line_close", b1, {n1}, {})
    [] o = "control" -> JobOf("room_control", NoBooking, {n2}, {})]

\* Two jobs on one night and one on the other.
QueueOps == {"create", "control", "other"}
QueueJobs == [o \in QueueOps |->
  CASE o = "create" -> JobOf("create", b1, {n1}, {})
    [] o = "control" -> JobOf("room_control", NoBooking, {n1}, {})
    [] o = "other" -> JobOf("room_control", NoBooking, {}, {n2})]

\* One LINE close.
LineOps == {"line"}
LineJobs == [o \in LineOps |-> JobOf("line_close", b1, {n1}, {})]
=============================================================================
