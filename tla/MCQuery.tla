------------------------------ MODULE MCQuery ------------------------------
(***************************************************************************)
(* Query for TLC.  A program, chosen at the start, bounds what happens:    *)
(* one query of any kind over every connection, or every query, of one     *)
(* kind, over one connection, waiting for it and restarted together, no    *)
(* attempt refused and only the first query's search answered.             *)
(***************************************************************************)
EXTENDS Query

CONSTANTS First, OneConn    \* the one query, the one connection

VARIABLE program

Alone == [queries |-> {First}, conns |-> Conns, alike |-> FALSE]
Together == [queries |-> Queries, conns |-> {OneConn}, alike |-> TRUE]

Started(r) == r.stage # "Idle"
Alike(r) == ~r.addressed /\ ~r.pinned /\ r.timed

Within ==
    /\ \A q \in Queries :
          Started(inflight'[q]) =>
              q \in program.queries /\ (program.alike => Alike(inflight'[q]))
    /\ \A c \in Conns : conn'[c] = "live" => c \in program.conns
    /\ program.alike =>
          /\ \A q \in Queries : Started(inflight'[q]) =>
                Started(inflight'[First]) /\ (q # First => inflight'[q].stage # "Direct")
          /\ \A q \in Queries, a \in Attempt : backend'[q][a] \notin {"bounced", "dropped"}

MCInit == Init /\ program \in {Alone, Together}

MCNext == Next /\ Within /\ UNCHANGED program

MCSpec == MCInit /\ [][MCNext]_<<vars, program>> /\ Fairness
=============================================================================
