-------------------------- MODULE MCThreadedServer --------------------------
(* ThreadedServer for TLC.                                                  *)
EXTENDS ThreadedServer

CONSTANTS w1, w2

Program(happens, workers, requests) == [happens |-> happens, workers |-> workers, requests |-> requests]

MCPrograms ==
    { Program({"drain"}, {w1}, 2), Program({"drain", "lose"}, {w1}, 0), Program({"drain", "cap"}, {w1}, 1),
      Program({"drain", "close"}, {w1}, 1), Program({"close"}, {w1, w2}, 1), Program({"stop", "fail"}, {w1, w2}, 2),
      Program({"filters", "lose"}, {w1}, 1), Program({"filters", "poll"}, {w1, w2}, 2),
      Program({"filters", "refuse"}, {w1}, 1), Program({"filters", "drain"}, {w1}, 1) }
=============================================================================
