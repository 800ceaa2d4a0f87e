------------------------------- MODULE Query -------------------------------
(***************************************************************************)
(* The query state machine of the Rust core (core/query.rs): a request     *)
(* that expects one answer goes through at most three stages, the request, *)
(* the search for a backend and the request again to the instance found,   *)
(* and may end up waiting for a late reply.                                *)
(*                                                                         *)
(* A query is a record, InFlight in the code, and every handler of the     *)
(* code is an operator from that record to the next one; the actions apply *)
(* them.  What is around the queries is modelled from its interface: the   *)
(* connections come up and go down once each (a ConnId is never reused),   *)
(* the outbox writes an attempt, hands it to another connection, holds it  *)
(* or gives it up, a multiplexer or a backend takes an attempt, bounces it *)
(* or loses it, and any answer may be delayed for ever.                    *)
(*                                                                         *)
(* A deadline is an event that may come at any time once its timer is      *)
(* armed; `past' says that an addressed query's one deadline has come.     *)
(***************************************************************************)
EXTENDS Naturals, FiniteSets

CONSTANTS Queries,     \* the queries the program makes
          Conns,       \* the connections that will ever be
          NoConn,      \* no connection
          Addressed, Pinned, Timed,  \* the kinds of query it makes
          ClearSlack   \* ended entries the waiting list keeps beyond the live ones

ASSUME QueryAssumption == /\ IsFiniteSet(Queries)
                          /\ NoConn \notin Conns
                          /\ Addressed \in SUBSET BOOLEAN
                          /\ Pinned \in SUBSET BOOLEAN
                          /\ Timed \in SUBSET BOOLEAN
                          /\ ClearSlack \in Nat

VARIABLES inflight,      \* the queries
          conn,          \* the state of each connection
          posted,        \* the work posted for after the current handler
          waiting,       \* the queries listed for the next connection
          waitingEnded,  \* how many of them have ended
          shutDown,      \* shutdown() was called
          backend        \* who has each attempt, beyond the connection

vars == <<inflight, conn, posted, waiting, waitingEnded, shutDown, backend>>

Attempt == {"request", "direct"}
MaybeConn == Conns \cup {NoConn}
Stage == {"Idle", "Request", "Search", "Direct", "Waiting", "Late", "Done"}
Outcome == {"none", "Replied", "TimedOut", "Failed", "NotConnected", "ShutDown"}
SendState == {"none", "queued", "sent", "lost"}
Copy == [state : SendState, at : MaybeConn, moved : MaybeConn]

InFlight ==
    [stage : Stage, resume : {"Request", "Search", "Direct"},
     addressed : BOOLEAN, pinned : BOOLEAN, timed : BOOLEAN,
     lane : MaybeConn, via : MaybeConn, att : [Attempt -> Copy],
     taken : BOOLEAN, pending : SUBSET Attempt, searched : SUBSET Conns,
     watched : SUBSET {"request", "search", "direct"},
     gen : Nat, timer : BOOLEAN, listed : BOOLEAN,
     outcome : Outcome, told : Nat, out : [{"request", "search", "direct"} -> Nat]]

Live == {c \in Conns : conn[c] = "live"}
InFlightSet == {q \in Queries : inflight[q].stage \notin {"Idle", "Done"}}
NoCopy == [state |-> "none", at |-> NoConn, moved |-> NoConn]

Fill == [task |-> "fill"]
FollowHandover(q, gen, request) ==
    [task |-> "follow", query |-> q, gen |-> gen, request |-> request]

\* The deadline of an addressed query may have come before its timer ran.
MayBePast(r) == IF r.addressed /\ r.timed THEN BOOLEAN ELSE {FALSE}

-----------------------------------------------------------------------------
(* The handlers, from a query's record to its next one.  L is the set of    *)
(* live connections, c the connection the outbox would choose: NoConn when  *)
(* L is empty.                                                              *)

NewQuery(addressed, pinned, timed, lane) ==
    [stage |-> "Request", resume |-> "Request",
     addressed |-> addressed, pinned |-> pinned, timed |-> timed,
     lane |-> lane, via |-> NoConn, att |-> [a \in Attempt |-> NoCopy],
     taken |-> FALSE, pending |-> {}, searched |-> {}, watched |-> {},
     gen |-> 0, timer |-> FALSE, listed |-> FALSE,
     outcome |-> "none", told |-> 0,
     out |-> [m \in {"request", "search", "direct"} |-> 0]]

Inc(n) == n + 1

\* arm_query: a stage's time runs from here.
Arm(r) == [r EXCEPT !.gen = Inc(@), !.timer = r.timed]

ArmUnless(keep, r) == IF keep THEN r ELSE Arm(r)

\* finish: the query ends, its ids are not watched any more and its callback
\* is told.  A query that ended is in flight no more: nothing happens.
Finish(r, outcome) ==
    IF r.stage = "Done" THEN r
    ELSE [r EXCEPT !.stage = "Done", !.outcome = outcome, !.told = Inc(@),
                   !.timer = FALSE, !.watched = {}]

\* wait_for_connection: listed until one comes up.
WaitForConnection(r, resume) ==
    [r EXCEPT !.stage = "Waiting", !.resume = resume, !.listed = TRUE]

\* A pinned lane's connection once it holds one, else any.
Refuses(r, L) == r.pinned /\ r.lane # NoConn /\ r.lane \notin L

Through(r, c) == IF r.pinned /\ r.lane # NoConn THEN r.lane ELSE c

Adopt(r, c) == IF r.pinned /\ r.lane = NoConn THEN c ELSE r.lane

\* An attempt went into the outbox on connection c.
Placed(r, a, stage, c) ==
    [r EXCEPT !.stage = stage, !.via = c, !.lane = Adopt(r, c),
              !.att[a] = [state |-> "queued", at |-> c, moved |-> NoConn],
              !.watched = @ \cup {a}, !.out[a] = Inc(@)]

\* start_request: the request goes out, or waits for a connection.
StartRequest(r, keep, L, c) ==
    CASE Refuses(r, L) -> Finish(r, "NotConnected")
      [] ~Refuses(r, L) /\ Through(r, c) = NoConn ->
            ArmUnless(keep, WaitForConnection(r, "Request"))
      [] OTHER -> ArmUnless(keep, Placed(r, "request", "Request", Through(r, c)))

\* search: a copy on every live connection, on the lane's one when pinned.
Search(r, keep, past, L, c) ==
    LET armed == ArmUnless(keep, r)
        sent == IF r.pinned THEN {Through(r, c)} \ {NoConn} ELSE L
    IN  CASE r.addressed /\ past -> Finish(r, "TimedOut")
          [] ~(r.addressed /\ past) /\ Refuses(r, L) -> Finish(armed, "NotConnected")
          [] ~(r.addressed /\ past) /\ ~Refuses(r, L) /\ sent = {} ->
                WaitForConnection(armed, "Search")
          [] OTHER -> [armed EXCEPT !.stage = "Search", !.searched = sent,
                                    !.watched = @ \cup {"search"}, !.out["search"] = Inc(@)]

\* wait_late: for the attempts a backend may have, unless given up on.
WaitLate(r, direct) ==
    LET pending == {a \in Attempt :
                       /\ r.att[a].state # "lost"
                       /\ IF a = "request" THEN r.taken ELSE direct}
        waits == [r EXCEPT !.pending = pending]
    IN  IF pending = {} THEN Finish(waits, "Failed")
        ELSE [waits EXCEPT !.stage = "Late"]

\* send_direct: through the connection the PING came on while it lives, else
\* through the lane or any.
SendDirect(r, preferred, keep, L, c) ==
    LET armed == ArmUnless(keep, r)
    IN  CASE preferred \in L -> Placed(armed, "direct", "Direct", preferred)
          [] preferred \notin L /\ Refuses(r, L) -> Finish(armed, "NotConnected")
          [] preferred \notin L /\ ~Refuses(r, L) /\ Through(r, c) = NoConn ->
                WaitForConnection(armed, "Direct")
          [] OTHER -> Placed(armed, "direct", "Direct", Through(r, c))

\* Mutant: an attempt whose connection is gone is sent again.
Lost_resends(r, past, L, c) ==
    IF r.pinned THEN Finish(r, "NotConnected") ELSE StartRequest(r, FALSE, L, c)

\* Mutant: that the lost request may have been taken is not noted.
Lost_notTaken(r, past, L, c) ==
    CASE r.pinned -> Finish(r, "NotConnected")
      [] ~r.pinned /\ r.stage = "Request" -> Search(r, FALSE, past, L, c)
      [] OTHER -> WaitLate(r, TRUE)

\* lost: the connection an attempt went through is gone.
Lost(r, past, L, c) ==
    CASE r.pinned -> Finish(r, "NotConnected")
      [] ~r.pinned /\ r.stage = "Request" ->
            Search([r EXCEPT !.taken = TRUE], FALSE, past, L, c)
      [] OTHER -> WaitLate(r, TRUE)

\* refused: a delivery error for an attempt, which is struck off.
Refused(r, a, past, L, c) ==
    LET struck == IF a = "request" THEN [r EXCEPT !.taken = FALSE] ELSE r
        left == r.pending \ {a}
    IN  CASE r.stage = "Request" /\ a = "request" -> Search(struck, FALSE, past, L, c)
          [] r.stage = "Direct" /\ a = "direct" -> WaitLate(struck, FALSE)
          [] r.stage = "Late" ->
                IF left = {} THEN Finish([struck EXCEPT !.pending = {}], "Failed")
                ELSE [struck EXCEPT !.pending = left]
          [] OTHER -> struck

\* The tracker of the attempt in hand: sent_state.
SentState(r) == IF r.stage = "Request" THEN r.att["request"] ELSE r.att["direct"]

Follows(r, c) == /\ r.stage \in {"Request", "Direct"} /\ r.via = c
                 /\ ~r.pinned /\ SentState(r).state = "queued"

\* queries_on_connection(c, down): L is what is live without c.
OnDown(r, c, past, L, d) ==
    CASE r.stage \in {"Request", "Direct"} /\ r.via = c /\ ~Follows(r, c) -> Lost(r, past, L, d)
      [] r.stage = "Search" /\ r.pinned /\ c \in r.searched ->
            Finish([r EXCEPT !.searched = @ \ {c}], "NotConnected")
      [] r.stage = "Late" /\ r.pinned /\ r.lane = c -> Finish(r, "NotConnected")
      [] OTHER -> r

\* followed_handover: the posted half, once the outbox handed the attempt on;
\* followed_connection takes the entry of the move.
FollowedHandover(r, gen, request, past, L, c) ==
    LET a == IF request THEN "request" ELSE "direct"
        stage == IF request THEN "Request" ELSE "Direct"
        where == IF r.att[a].moved # NoConn THEN r.att[a].moved ELSE r.via
        read == [r EXCEPT !.att[a].moved = NoConn]
    IN  CASE r.gen # gen \/ r.stage # stage -> r
          [] r.gen = gen /\ r.stage = stage /\ r.att[a].state = "lost" ->
                IF request THEN Search(r, FALSE, past, L, c) ELSE WaitLate(r, FALSE)
          [] r.gen = gen /\ r.stage = stage /\ r.att[a].state # "lost" /\ where \notin L ->
                Lost(read, past, L, c)
          [] OTHER -> [read EXCEPT !.via = where]

\* Mutant: a request out of time is not noted as perhaps taken.
QueryDeadline_notTaken(r, L, c) ==
    LET fired == [r EXCEPT !.timer = FALSE]
    IN  CASE r.stage = "Request" -> Search(fired, FALSE, TRUE, L, c)
          [] r.stage = "Waiting" -> Finish(fired, "NotConnected")
          [] OTHER -> Finish(fired, "TimedOut")

\* Mutant: the search keeps the timer of the request, which has run.
QueryDeadline_keeps(r, L, c) ==
    LET fired == [r EXCEPT !.timer = FALSE]
    IN  CASE r.stage = "Request" -> Search([fired EXCEPT !.taken = TRUE], TRUE, TRUE, L, c)
          [] r.stage = "Waiting" -> Finish(fired, "NotConnected")
          [] OTHER -> Finish(fired, "TimedOut")

\* query_deadline: an addressed query's timer runs at its one deadline.
QueryDeadline(r, L, c) ==
    LET fired == [r EXCEPT !.timer = FALSE]
    IN  CASE r.stage = "Request" ->
                Search([fired EXCEPT !.taken = TRUE], FALSE, TRUE, L, c)
          [] r.stage = "Waiting" -> Finish(fired, "NotConnected")
          [] OTHER -> Finish(fired, "TimedOut")

\* Mutant: a query that goes again stays listed.
Restart_listed(r, past, L, c) ==
    CASE r.stage # "Waiting" -> r
      [] r.stage = "Waiting" /\ r.resume = "Search" -> Search(r, TRUE, past, L, c)
      [] r.stage = "Waiting" /\ r.resume = "Direct" -> SendDirect(r, NoConn, TRUE, L, c)
      [] OTHER -> StartRequest(r, TRUE, L, c)

\* restart_waiting_queries, for one query of the pass.
Restart(r, past, L, c) ==
    LET unlisted == [r EXCEPT !.listed = FALSE]
    IN  CASE r.stage # "Waiting" -> unlisted
          [] r.stage = "Waiting" /\ r.resume = "Search" -> Search(unlisted, TRUE, past, L, c)
          [] r.stage = "Waiting" /\ r.resume = "Direct" ->
                SendDirect(unlisted, NoConn, TRUE, L, c)
          [] OTHER -> StartRequest(unlisted, TRUE, L, c)

-----------------------------------------------------------------------------
(* The actions.                                                             *)

\* What the outbox would choose: some live connection, none when none lives.
Choice(L) == IF L = {} THEN {NoConn} ELSE L

\* One query's handler ran: its record, and the waiting list's bookkeeping,
\* an ended entry counted and cleared out when they are too many
\* (clear_out_waiting).
Becomes(q, r) ==
    LET listed == waiting \cup (IF r.listed /\ r.stage # "Done" THEN {q} ELSE {})
        ended == waitingEnded + (IF r.stage = "Done" /\ r.listed THEN 1 ELSE 0)
        live == Cardinality(listed) - ended
        clears == r.stage = "Done" /\ r.listed /\ (live = 0 \/ ended >= live + ClearSlack)
        next == [inflight EXCEPT ![q] = r]
    IN  /\ inflight' = next
        /\ waiting' = IF clears THEN {w \in listed : next[w].stage # "Done"} ELSE listed
        /\ waitingEnded' = IF clears THEN 0 ELSE ended

\* start_query; refused from a shutdown on.
StartQuery(q) ==
    /\ inflight[q].stage = "Idle"
    /\ \E addressed \in Addressed, pinned \in Pinned, timed \in Timed, c \in Choice(Live) :
         \E lane \in {NoConn} \cup {d \in Conns : pinned /\ conn[d] # "new"} :
           LET r == NewQuery(addressed, pinned, timed, lane)
           IN  Becomes(q, IF shutDown THEN Finish(r, "ShutDown")
                          ELSE StartRequest(r, FALSE, Live, c))
    /\ UNCHANGED <<conn, posted, shutDown, backend>>

\* A stage's timer; one of an older generation was cancelled or is ignored.
Deadline(q) ==
    /\ q \in InFlightSet /\ inflight[q].timer
    /\ \E c \in Choice(Live) : Becomes(q, QueryDeadline(inflight[q], Live, c))
    /\ UNCHANGED <<conn, posted, shutDown, backend>>

\* advance: the reply to an attempt a backend has ends the query at any stage.
Reply(q, a) ==
    /\ q \in InFlightSet /\ a \in inflight[q].watched
    /\ backend[q][a] = "has"
    /\ Becomes(q, Finish(inflight[q], "Replied"))
    /\ backend' = [backend EXCEPT ![q][a] = "answered"]
    /\ UNCHANGED <<conn, posted, shutDown>>

\* advance, refused: DELIVERY_ERROR for an attempt, whenever it arrives.
DeliveryError(q, a) ==
    /\ q \in InFlightSet /\ a \in inflight[q].watched
    /\ backend[q][a] = "bounced"
    /\ \E past \in MayBePast(inflight[q]), c \in Choice(Live) :
         Becomes(q, Refused(inflight[q], a, past, Live, c))
    /\ backend' = [backend EXCEPT ![q][a] = "struck"]
    /\ UNCHANGED <<conn, posted, shutDown>>

\* advance, answered: a multiplexer the search went through knows nobody;
\* nothing once the query moved on.
SearchRefused(q, c) ==
    /\ q \in InFlightSet /\ inflight[q].stage = "Search"
    /\ c \in inflight[q].searched
    /\ LET r == [inflight[q] EXCEPT !.searched = @ \ {c}]
       IN  Becomes(q, IF r.searched = {} THEN WaitLate(r, FALSE) ELSE r)
    /\ UNCHANGED <<conn, posted, shutDown, backend>>

\* advance, direct: a PING, through any connection, one that reads to its end
\* included: the request goes to the instance that sent it.
Ping(q, via) ==
    /\ q \in InFlightSet /\ inflight[q].stage = "Search"
    /\ conn[via] # "new"
    /\ \E c \in Choice(Live) : Becomes(q, SendDirect(inflight[q], via, FALSE, Live, c))
    /\ UNCHANGED <<conn, posted, shutDown, backend>>

\* post_fill: one pass, however many connections came up.
PostFill == posted \cup {Fill}

\* A connection is registered: what the outbox held goes to it, and a pass
\* over the waiting queries is posted.
ConnUp(c) ==
    /\ conn[c] = "new"
    /\ conn' = [conn EXCEPT ![c] = "live"]
    /\ inflight' = [q \in Queries |-> [inflight[q] EXCEPT !.att = [a \in Attempt |->
                      IF @[a].state = "queued" /\ @[a].at = NoConn
                      THEN [@[a] EXCEPT !.at = c, !.moved = c] ELSE @[a]]]]
    /\ posted' = PostFill
    /\ UNCHANGED <<waiting, waitingEnded, shutDown, backend>>

\* The outbox takes copy p from a dead connection: a pinned one is lost, the
\* rest goes to d, or is held when none lives.
HandedOver(p, pinned, d) ==
    IF pinned THEN [p EXCEPT !.state = "lost", !.at = NoConn]
    ELSE IF d = NoConn THEN [p EXCEPT !.at = NoConn]
    ELSE [p EXCEPT !.at = d, !.moved = d]

\* A connection dies: the queries hear of it, then the outbox hands over what
\* it had not written, all but the frame being written, which waits for its
\* write to end (Settle).
ConnDown(c) ==
    /\ conn[c] = "live"
    /\ LET L == Live \ {c} IN
         \E d \in Choice(L), writing \in SUBSET (Queries \X Attempt), late \in SUBSET Queries :
           /\ Cardinality(writing) <= 1
           /\ \A w \in writing : /\ inflight[w[1]].att[w[2]].state = "queued"
                                 /\ inflight[w[1]].att[w[2]].at = c
           /\ \A q \in late : TRUE \in MayBePast(inflight[q])
           /\ inflight' = [q \in Queries |->
                LET r == OnDown(inflight[q], c, q \in late, L, d)
                IN  [r EXCEPT !.att = [a \in Attempt |->
                       IF @[a].state = "queued" /\ @[a].at = c /\ <<q, a>> \notin writing
                       THEN HandedOver(@[a], r.pinned, d) ELSE @[a]]]]
    /\ conn' = [conn EXCEPT ![c] = "gone"]
    /\ waiting' = waiting \cup {q \in Queries : inflight'[q].listed /\ inflight'[q].stage = "Waiting"}
    /\ posted' = posted \cup {FollowHandover(q, inflight[q].gen, inflight[q].stage = "Request") :
                                q \in {p \in Queries : Follows(inflight[p], c)}}
    /\ UNCHANGED <<waitingEnded, shutDown, backend>>

\* The posted pass over the waiting queries.
RunFill ==
    /\ Fill \in posted
    /\ posted' = posted \ {Fill}
    /\ IF shutDown \/ waiting = {} THEN UNCHANGED <<inflight, waiting, waitingEnded>>
       ELSE \E c \in [Queries -> Choice(Live)], late \in SUBSET Queries :
              /\ \A q \in late : TRUE \in MayBePast(inflight[q])
              /\ inflight' = [q \in Queries |->
                   IF q \in waiting /\ inflight[q].stage # "Done"
                   THEN Restart(inflight[q], q \in late, Live, c[q]) ELSE inflight[q]]
              /\ waiting' = {q \in waiting : inflight'[q].stage = "Waiting"}
              /\ waitingEnded' = 0
    /\ UNCHANGED <<conn, shutDown, backend>>

\* The posted half of a handover; a query that ended is not found.
RunFollow(t) ==
    /\ t \in posted /\ t.task = "follow"
    /\ posted' = posted \ {t}
    /\ IF t.query \notin InFlightSet THEN UNCHANGED <<inflight, waiting, waitingEnded>>
       ELSE \E past \in MayBePast(inflight[t.query]), c \in Choice(Live) :
              Becomes(t.query,
                      FollowedHandover(inflight[t.query], t.gen, t.request, past, Live, c))
    /\ UNCHANGED <<conn, shutDown, backend>>

\* begin_shutdown, finish_every_query.
Shutdown ==
    /\ ~shutDown
    /\ shutDown' = TRUE
    /\ inflight' = [q \in Queries |->
          IF q \in InFlightSet THEN Finish(inflight[q], "ShutDown") ELSE inflight[q]]
    /\ waiting' = {} /\ waitingEnded' = 0
    /\ UNCHANGED <<conn, posted, backend>>

-----------------------------------------------------------------------------
(* The outbox and the network around the queries.                           *)

SetCopy(q, a, p) == inflight' = [inflight EXCEPT ![q].att[a] = p]

\* The outbox writes an attempt, on a live connection or, its write having
\* started, on one that died meanwhile: a multiplexer has it.
Write(q, a) ==
    LET p == inflight[q].att[a] IN
    /\ p.state = "queued" /\ p.at # NoConn
    /\ SetCopy(q, a, [p EXCEPT !.state = "sent"])
    /\ backend' = [backend EXCEPT ![q][a] = "mux"]
    /\ UNCHANGED <<conn, posted, waiting, waitingEnded, shutDown>>

\* The write that was in flight when its connection died failed: the attempt
\* is handed over then.
Settle(q, a) ==
    LET p == inflight[q].att[a] IN
    /\ p.state = "queued" /\ p.at \in Conns \ Live
    /\ \E d \in Choice(Live) : SetCopy(q, a, HandedOver(p, inflight[q].pinned, d))
    /\ UNCHANGED <<conn, posted, waiting, waitingEnded, shutDown, backend>>

\* An attempt's own deadline: the outbox gives it up, never written.
Expire(q, a) ==
    LET p == inflight[q].att[a] IN
    /\ p.state = "queued" /\ inflight[q].timed
    /\ p.at \in Live \cup {NoConn}
    /\ SetCopy(q, a, [p EXCEPT !.state = "lost", !.at = NoConn])
    /\ UNCHANGED <<conn, posted, waiting, waitingEnded, shutDown, backend>>

\* A multiplexer gives an attempt to a backend, bounces it or loses it.
Route(q, a) ==
    /\ backend[q][a] = "mux"
    /\ \E s \in {"has", "bounced", "dropped"} : backend' = [backend EXCEPT ![q][a] = s]
    /\ UNCHANGED <<inflight, conn, posted, waiting, waitingEnded, shutDown>>

-----------------------------------------------------------------------------
Init ==
    /\ inflight = [q \in Queries |-> [NewQuery(FALSE, FALSE, FALSE, NoConn) EXCEPT !.stage = "Idle"]]
    /\ conn = [c \in Conns |-> "new"]
    /\ posted = {} /\ waiting = {} /\ waitingEnded = 0 /\ shutDown = FALSE
    /\ backend = [q \in Queries |-> [a \in Attempt |-> "none"]]

Next ==
    \/ \E q \in Queries : StartQuery(q) \/ Deadline(q)
    \/ \E q \in Queries, a \in Attempt : Reply(q, a) \/ DeliveryError(q, a)
    \/ \E q \in Queries, c \in Conns : SearchRefused(q, c) \/ Ping(q, c)
    \/ \E c \in Conns : ConnUp(c) \/ ConnDown(c)
    \/ RunFill
    \/ \E t \in posted : RunFollow(t)
    \/ Shutdown
    \/ \E q \in Queries, a \in Attempt :
         Write(q, a) \/ Settle(q, a) \/ Expire(q, a) \/ Route(q, a)

Spec == Init /\ [][Next]_vars

\* The core runs its timers and what was posted; nothing is assumed of the
\* connections, the multiplexers or the backends.
Fairness == /\ \A q \in Queries : WF_vars(Deadline(q))
            /\ WF_vars(RunFill)
            /\ WF_vars(\E t \in posted : RunFollow(t))

FairSpec == Spec /\ Fairness

-----------------------------------------------------------------------------
(* The properties.                                                          *)

Holder == {"none", "mux", "has", "bounced", "dropped", "answered", "struck"}

Task == {Fill} \cup [task : {"follow"}, query : Queries, gen : Nat, request : BOOLEAN]

\* Every variable keeps its type: the core's Queries structure and what
\* surrounds it.
TypeOK ==
    /\ inflight \in [Queries -> InFlight]
    /\ conn \in [Conns -> {"new", "live", "gone"}]
    /\ posted \subseteq Task
    /\ waiting \in SUBSET Queries /\ waitingEnded \in Nat
    /\ shutDown \in BOOLEAN
    /\ backend \in [Queries -> [Attempt -> Holder]]

\* A query that ended Failed left no attempt that could still be answered:
\* each was never sent, given up on unwritten, or bounced or lost by a
\* multiplexer.  wait_late and refused may not forget one a backend has.
NoFalseFailure ==
    \A q \in Queries, a \in Attempt :
        inflight[q].outcome = "Failed" =>
            /\ inflight[q].att[a].state # "queued"
            /\ backend[q][a] \notin {"mux", "has"}

Hopeless(r, b, a) == r.att[a].state # "queued" /\ b[a] \notin {"mux", "has"}

\* What a query must remember for NoFalseFailure to hold at its end.
RemembersHope(r, b) ==
    /\ r.outcome = "Failed" => r.stage = "Done" /\ \A a \in Attempt : Hopeless(r, b, a)
    /\ \A a \in Attempt : b[a] # "none" => r.att[a].state = "sent"
    /\ r.stage \in {"Idle", "Request", "Search", "Waiting"} => r.att["direct"].state = "none"
    /\ r.stage = "Idle" \/ (r.stage = "Waiting" /\ r.resume = "Request") =>
          r.att["request"].state = "none"
    /\ /\ ~r.taken
       /\ r.stage \in {"Search", "Direct"} \/ (r.stage = "Waiting" /\ r.resume # "Request")
       => Hopeless(r, b, "request")
    /\ r.stage = "Late" => \A a \in Attempt \ r.pending : Hopeless(r, b, a)

\* A query past its request that does not note it as perhaps taken, and one
\* waiting for a late reply that does not list an attempt, is right about it:
\* nobody can answer that attempt any more.  Strengthens NoFalseFailure.
HopeRemembered == \A q \in Queries : RemembersHope(inflight[q], backend[q])

\* No lost wakeup: while a query waits for a connection and one is live, the
\* pass that restarts it is posted (post_fill, wait_for_connection).
NoLostWakeup ==
    (\E q \in Queries : inflight[q].stage = "Waiting") /\ Live # {} => Fill \in posted

\* The waiting list's count of ended entries is exact, so that what is left,
\* waiting.len() - waiting_ended, never goes below zero; every query that
\* waits is on the list, once.
ListingExact ==
    /\ waitingEnded = Cardinality({q \in waiting : inflight[q].stage = "Done"})
    /\ \A q \in Queries : inflight[q].stage = "Waiting" => q \in waiting /\ inflight[q].listed
    /\ \A q \in waiting : inflight[q].stage \in {"Waiting", "Done"}

\* A query in flight with a timeout always has its timer armed: no stage, no
\* wait for a connection and no wait for a late reply is without an end.
TimerArmed ==
    \A q \in InFlightSet : inflight[q].timed => inflight[q].timer

\* A query arms its timer once per stage at most, so that a typed query ends
\* within three timeouts, and each of its messages, the request, the search
\* and the request again, goes out once at most.
OncePerStage ==
    \A q \in Queries :
        /\ inflight[q].gen <= 3
        /\ \A m \in DOMAIN inflight[q].out : inflight[q].out[m] <= 1

\* The ids watched are exactly those of the messages that went out while the
\* query is in flight, so that no answer is missed, and none once it ended;
\* its callback is told once, at its end.
WatchedUntilTold ==
    \A q \in Queries :
        LET r == inflight[q] IN
        /\ r.watched = IF r.stage = "Done" THEN {} ELSE {m \in DOMAIN r.out : r.out[m] > 0}
        /\ r.told = IF r.stage = "Done" THEN 1 ELSE 0

\* A wait for a late reply waits for something: an attempt that went out and
\* that was not refused before the wait began.
LateHasHope ==
    \A q \in Queries :
        LET r == inflight[q] IN
        r.stage = "Late" =>
            /\ r.pending # {}
            /\ \A a \in r.pending : r.out[a] = 1 /\ backend[q][a] # "struck"

StageRank(r) ==
    LET stage == IF r.stage = "Waiting" THEN r.resume ELSE r.stage
    IN  CASE stage = "Idle" -> 0 [] stage = "Request" -> 1 [] stage = "Search" -> 2
          [] stage = "Direct" -> 3 [] stage = "Late" -> 4 [] stage = "Done" -> 5

\* A query never goes back a stage, and one that ended stays ended with the
\* outcome its callback heard.
NeverBack ==
    [][\A q \in Queries :
          /\ StageRank(inflight[q]) <= StageRank(inflight'[q])
          /\ inflight[q].stage = "Done" => inflight'[q].outcome = inflight[q].outcome]_vars

\* Every query given a timeout ends, whatever the connections, the
\* multiplexers and the backends do.
EveryTimedQueryEnds ==
    \A q \in Queries :
        (inflight[q].timed /\ q \in InFlightSet) ~> inflight[q].stage = "Done"

\* What a query waits for is never forgotten: its timer, the restart once a
\* connection is there, its place on the waiting list, the ids its answers
\* bear and the attempts a late reply may still come from.
NothingForgotten ==
    /\ TypeOK /\ NoLostWakeup /\ ListingExact /\ TimerArmed
    /\ OncePerStage /\ WatchedUntilTold /\ LateHasHope
=============================================================================
