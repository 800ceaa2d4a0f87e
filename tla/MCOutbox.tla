------------------------------ MODULE MCOutbox ------------------------------
(* Outbox for TLC: few connections, a queue of one frame, so that a second  *)
(* message waits, and the programs each run is about.                       *)
EXTENDS Outbox

One == [all |-> FALSE, lane |-> "none", wait |-> "long"]
OneTimed == [One EXCEPT !.wait = "timed"]
OneNow == [One EXCEPT !.wait = "no"]
Sticky == [One EXCEPT !.lane = "sticky"]
OnePinned == [One EXCEPT !.lane = "pinned"]
All == [One EXCEPT !.all = TRUE]
AllTimed == [All EXCEPT !.wait = "timed"]

Sending(sends, most) ==
  [sends |-> sends, most |-> most, flushes |-> FALSE, beats |-> FALSE, shutdowns |-> {}]

\* Every kind of waiting; a stream with heartbeats in between; a flush; a
\* shutdown, at any moment.
Several == {Sending({OneTimed, OnePinned, All}, 2),
            [Sending({One, Sticky}, 3) EXCEPT !.beats = TRUE],
            [Sending({One, All}, 2) EXCEPT !.flushes = TRUE],
            [Sending({OneTimed}, 2) EXCEPT !.flushes = TRUE],
            [Sending({One, All}, 2) EXCEPT !.shutdowns = {TRUE, FALSE}]}

\* One send that ends in time, and a flush.
Timed == {[Sending({OneTimed, AllTimed, OneNow}, 1) EXCEPT !.flushes = TRUE]}
=============================================================================
