---------------------------- MODULE QueryProofs ----------------------------
(***************************************************************************)
(* What is proved about the queries, for every set of queries and of       *)
(* connections: a query fails only when no attempt of it can be answered   *)
(* any more; what a query waits for is never forgotten; no query goes back *)
(* a stage.  Each handler is first shown to keep the type of a record, the *)
(* books of its query and what it knows of its attempts; the actions then  *)
(* only say which handler they apply.                                      *)
(***************************************************************************)
EXTENDS Query, Counting, TLAPS

\* A count of arms, of tellings or of messages stays a number.
LEMMA IncType == \A n \in Nat : Inc(n) \in Nat
BY DEF Inc

\* arm_query keeps the type of a query.
LEMMA ArmType ==
    ASSUME NEW r \in InFlight, NEW keep \in BOOLEAN
    PROVE  ArmUnless(keep, r) \in InFlight
BY IncType, Zenon DEF ArmUnless, Arm, InFlight

\* finish keeps the type of a query.
LEMMA FinishType ==
    ASSUME NEW r \in InFlight, NEW o \in Outcome
    PROVE  Finish(r, o) \in InFlight
BY IncType, Zenon DEF Finish, InFlight, Stage

\* wait_for_connection keeps the type of a query.
LEMMA WaitForConnectionType ==
    ASSUME NEW r \in InFlight, NEW s \in {"Request", "Search", "Direct"}
    PROVE  WaitForConnection(r, s) \in InFlight
BY Zenon DEF WaitForConnection, InFlight, Stage

\* An attempt that goes out keeps the type of its query.
LEMMA PlacedType ==
    ASSUME NEW r \in InFlight, NEW a \in Attempt, NEW s \in Stage, NEW c \in Conns
    PROVE  Placed(r, a, s, c) \in InFlight
<1>1. [state |-> "queued", at |-> c, moved |-> NoConn] \in Copy
  BY DEF Copy, SendState, MaybeConn
<1>2. Adopt(r, c) \in MaybeConn /\ c \in MaybeConn
  BY Zenon DEF Adopt, MaybeConn, InFlight
<1>3. a \in {"request", "search", "direct"}
  BY Zenon DEF Attempt
<1> QED
  BY <1>1, <1>2, <1>3, IncType, ZenonT(40) DEF Placed, InFlight

\* start_request keeps the type of a query.
LEMMA StartRequestType ==
    ASSUME NEW r \in InFlight, NEW keep \in BOOLEAN, NEW L \in SUBSET Conns, NEW c \in MaybeConn
    PROVE  StartRequest(r, keep, L, c) \in InFlight
<1>1. Through(r, c) # NoConn => Through(r, c) \in Conns
  BY Zenon DEF Through, MaybeConn, InFlight
<1>2. "request" \in Attempt /\ "Request" \in Stage /\ "NotConnected" \in Outcome
  BY Zenon DEF Attempt, Stage, Outcome
<1> QED
  BY <1>1, <1>2, ArmType, FinishType, WaitForConnectionType, PlacedType, Zenon DEF StartRequest

\* search keeps the type of a query.
LEMMA SearchType ==
    ASSUME NEW r \in InFlight, NEW keep \in BOOLEAN, NEW past \in BOOLEAN,
           NEW L \in SUBSET Conns, NEW c \in MaybeConn
    PROVE  Search(r, keep, past, L, c) \in InFlight
<1> DEFINE armed == ArmUnless(keep, r)
           sent == IF r.pinned THEN {Through(r, c)} \ {NoConn} ELSE L
           goes == [armed EXCEPT !.stage = "Search", !.searched = sent,
                                 !.watched = @ \cup {"search"}, !.out["search"] = Inc(@)]
<1>1. armed \in InFlight
  BY ArmType, Zenon
<1>2. sent \in SUBSET Conns
  BY Zenon DEF Through, MaybeConn, InFlight
<1>3. "NotConnected" \in Outcome /\ "TimedOut" \in Outcome
  BY Zenon DEF Outcome
<1>4. goes \in InFlight
  <2> HIDE DEF armed, sent
  <2> QED BY <1>1, <1>2, IncType, Zenon DEF InFlight, Stage
<1> QED
  BY <1>1, <1>3, <1>4, FinishType, WaitForConnectionType, Zenon DEF Search

\* wait_late keeps the type of a query.
LEMMA WaitLateType ==
    ASSUME NEW r \in InFlight, NEW direct \in BOOLEAN
    PROVE  WaitLate(r, direct) \in InFlight
<1> DEFINE pending == {a \in Attempt :
                         /\ r.att[a].state # "lost"
                         /\ IF a = "request" THEN r.taken ELSE direct}
           waits == [r EXCEPT !.pending = pending]
<1>1. pending \in SUBSET Attempt
  BY Zenon
<1>2. waits \in InFlight
  <2> HIDE DEF pending
  <2> QED BY <1>1, Zenon DEF InFlight
<1>3. [waits EXCEPT !.stage = "Late"] \in InFlight
  <2> HIDE DEF waits
  <2> QED BY <1>2, Zenon DEF InFlight, Stage
<1>4. Finish(waits, "Failed") \in InFlight
  <2> HIDE DEF waits
  <2> QED BY <1>2, FinishType, Zenon DEF Outcome
<1> QED
  BY <1>3, <1>4, Zenon DEF WaitLate

\* send_direct keeps the type of a query.
LEMMA SendDirectType ==
    ASSUME NEW r \in InFlight, NEW preferred \in MaybeConn, NEW keep \in BOOLEAN,
           NEW L \in SUBSET Conns, NEW c \in MaybeConn
    PROVE  SendDirect(r, preferred, keep, L, c) \in InFlight
<1>1. ArmUnless(keep, r) \in InFlight
  BY ArmType, Zenon
<1>2. Through(r, c) # NoConn => Through(r, c) \in Conns
  BY Zenon DEF Through, MaybeConn, InFlight
<1>3. "direct" \in Attempt /\ "Direct" \in Stage /\ "NotConnected" \in Outcome
  BY Zenon DEF Attempt, Stage, Outcome
<1> QED
  BY <1>1, <1>2, <1>3, FinishType, WaitForConnectionType, PlacedType, Zenon DEF SendDirect

\* A query noted as perhaps taken, or struck off, keeps its type.
LEMMA TakenType ==
    ASSUME NEW r \in InFlight, NEW taken \in BOOLEAN
    PROVE  [r EXCEPT !.taken = taken] \in InFlight
BY Zenon DEF InFlight

\* lost keeps the type of a query.
LEMMA LostType ==
    ASSUME NEW r \in InFlight, NEW past \in BOOLEAN, NEW L \in SUBSET Conns, NEW c \in MaybeConn
    PROVE  Lost(r, past, L, c) \in InFlight
<1>1. Finish(r, "NotConnected") \in InFlight
  BY FinishType, Zenon DEF Outcome
<1>2. Search([r EXCEPT !.taken = TRUE], FALSE, past, L, c) \in InFlight
  <2>1. [r EXCEPT !.taken = TRUE] \in InFlight
    BY TakenType, Zenon
  <2> QED BY <2>1, SearchType, Zenon
<1>3. WaitLate(r, TRUE) \in InFlight
  BY WaitLateType, Zenon
<1> QED
  BY <1>1, <1>2, <1>3, Zenon DEF Lost

\* refused keeps the type of a query.
LEMMA RefusedType ==
    ASSUME NEW r \in InFlight, NEW a \in Attempt, NEW past \in BOOLEAN,
           NEW L \in SUBSET Conns, NEW c \in MaybeConn
    PROVE  Refused(r, a, past, L, c) \in InFlight
<1> DEFINE struck == IF a = "request" THEN [r EXCEPT !.taken = FALSE] ELSE r
           left == r.pending \ {a}
<1>1. struck \in InFlight
  BY TakenType, Zenon
<1>2. left \in SUBSET Attempt
  BY Zenon DEF InFlight
<1>3. Search(struck, FALSE, past, L, c) \in InFlight
  BY <1>1, SearchType, Zenon
<1>4. WaitLate(struck, FALSE) \in InFlight
  BY <1>1, WaitLateType, Zenon
<1>5. [struck EXCEPT !.pending = left] \in InFlight
  <2> HIDE DEF struck, left
  <2> QED BY <1>1, <1>2, Zenon DEF InFlight
<1>6. Finish([struck EXCEPT !.pending = {}], "Failed") \in InFlight
  <2> HIDE DEF struck
  <2>1. [struck EXCEPT !.pending = {}] \in InFlight
    BY <1>1, Zenon DEF InFlight
  <2> QED BY <2>1, FinishType, Zenon DEF Outcome
<1> QED
  BY <1>1, <1>3, <1>4, <1>5, <1>6, Zenon DEF Refused

\* queries_on_connection keeps the type of a query.
LEMMA OnDownType ==
    ASSUME NEW r \in InFlight, NEW c \in Conns, NEW past \in BOOLEAN,
           NEW L \in SUBSET Conns, NEW d \in MaybeConn
    PROVE  OnDown(r, c, past, L, d) \in InFlight
<1>1. Lost(r, past, L, d) \in InFlight
  BY LostType, Zenon
<1>2. Finish([r EXCEPT !.searched = @ \ {c}], "NotConnected") \in InFlight
  <2>1. [r EXCEPT !.searched = @ \ {c}] \in InFlight
    BY Zenon DEF InFlight
  <2> QED BY <2>1, FinishType, Zenon DEF Outcome
<1>3. Finish(r, "NotConnected") \in InFlight
  BY FinishType, Zenon DEF Outcome
<1> QED
  BY <1>1, <1>2, <1>3, Zenon DEF OnDown

\* followed_handover keeps the type of a query.
LEMMA FollowedHandoverType ==
    ASSUME NEW r \in InFlight, NEW gen \in Nat, NEW request \in BOOLEAN, NEW past \in BOOLEAN,
           NEW L \in SUBSET Conns, NEW c \in MaybeConn
    PROVE  FollowedHandover(r, gen, request, past, L, c) \in InFlight
<1> DEFINE a == IF request THEN "request" ELSE "direct"
           where == IF r.att[a].moved # NoConn THEN r.att[a].moved ELSE r.via
           read == [r EXCEPT !.att[a].moved = NoConn]
<1>1. a \in Attempt
  BY Zenon DEF Attempt
<1>2. r.att[a] \in Copy /\ where \in MaybeConn
  <2> HIDE DEF a
  <2> QED BY <1>1, Zenon DEF InFlight, Copy
<1>3. read \in InFlight
  <2> HIDE DEF a
  <2>1. [r.att[a] EXCEPT !.moved = NoConn] \in Copy
    BY <1>2, Zenon DEF Copy, MaybeConn
  <2>2. read = [r EXCEPT !.att[a] = [r.att[a] EXCEPT !.moved = NoConn]]
    BY <1>1, Zenon DEF InFlight
  <2> QED BY <1>1, <2>1, <2>2, Zenon DEF InFlight
<1>4. Search(r, FALSE, past, L, c) \in InFlight
  BY SearchType, Zenon
<1>5. WaitLate(r, FALSE) \in InFlight
  BY WaitLateType, Zenon
<1>6. Lost(read, past, L, c) \in InFlight
  BY <1>3, LostType, Zenon
<1>7. [read EXCEPT !.via = where] \in InFlight
  <2> HIDE DEF read, where
  <2> QED BY <1>2, <1>3, Zenon DEF InFlight
<1> QED
  BY <1>4, <1>5, <1>6, <1>7, Zenon DEF FollowedHandover

\* query_deadline keeps the type of a query.
LEMMA QueryDeadlineType ==
    ASSUME NEW r \in InFlight, NEW L \in SUBSET Conns, NEW c \in MaybeConn
    PROVE  QueryDeadline(r, L, c) \in InFlight
<1> DEFINE fired == [r EXCEPT !.timer = FALSE]
<1>1. fired \in InFlight
  BY Zenon DEF InFlight
<1>2. Search([fired EXCEPT !.taken = TRUE], FALSE, TRUE, L, c) \in InFlight
  <2> HIDE DEF fired
  <2>1. [fired EXCEPT !.taken = TRUE] \in InFlight
    BY <1>1, TakenType, Zenon
  <2> QED BY <2>1, SearchType, Zenon
<1>3. Finish(fired, "NotConnected") \in InFlight /\ Finish(fired, "TimedOut") \in InFlight
  <2> HIDE DEF fired
  <2> QED BY <1>1, FinishType, Zenon DEF Outcome
<1> QED
  BY <1>2, <1>3, Zenon DEF QueryDeadline

\* restart_waiting_queries keeps the type of a query.
LEMMA RestartType ==
    ASSUME NEW r \in InFlight, NEW past \in BOOLEAN, NEW L \in SUBSET Conns, NEW c \in MaybeConn
    PROVE  Restart(r, past, L, c) \in InFlight
<1> DEFINE unlisted == [r EXCEPT !.listed = FALSE]
<1>1. unlisted \in InFlight
  BY Zenon DEF InFlight
<1>2. Search(unlisted, TRUE, past, L, c) \in InFlight
  BY <1>1, SearchType, Zenon
<1>3. SendDirect(unlisted, NoConn, TRUE, L, c) \in InFlight
  BY <1>1, SendDirectType, Zenon DEF MaybeConn
<1>4. StartRequest(unlisted, TRUE, L, c) \in InFlight
  BY <1>1, StartRequestType, Zenon
<1> QED
  BY <1>1, <1>2, <1>3, <1>4, Zenon DEF Restart

-----------------------------------------------------------------------------
\* What the actions choose from has the type the handlers ask for.
LEMMA ChoiceType ==
    /\ Live \in SUBSET Conns
    /\ \A L \in SUBSET Conns : Choice(L) \subseteq MaybeConn
    /\ \A r : MayBePast(r) \subseteq BOOLEAN
BY Zenon DEF Live, Choice, MaybeConn, MayBePast

\* A query replaced by one of its type, with the waiting list's bookkeeping.
LEMMA BecomesType ==
    ASSUME TypeOK, NEW q \in Queries, NEW r \in InFlight, Becomes(q, r),
           UNCHANGED <<conn, shutDown>>, posted' \subseteq Task,
           backend' \in [Queries -> [Attempt -> Holder]]
    PROVE  TypeOK'
<1>1. inflight' \in [Queries -> InFlight]
  BY Zenon DEF TypeOK, Becomes
<1>2. waiting' \in SUBSET Queries
  BY Zenon DEF TypeOK, Becomes
<1>3. waitingEnded' \in Nat
  BY DEF TypeOK, Becomes
<1> QED
  BY <1>1, <1>2, <1>3, Zenon DEF TypeOK

\* The copies of a query, and what the outbox makes of one, are copies.
LEMMA CopyType ==
    /\ \A r \in InFlight, a \in Attempt : r.att[a] \in Copy
    /\ \A p \in Copy : [p EXCEPT !.state = "sent"] \in Copy
    /\ \A p \in Copy : [p EXCEPT !.state = "lost", !.at = NoConn] \in Copy
    /\ \A p \in Copy, c \in Conns : [p EXCEPT !.at = c, !.moved = c] \in Copy
<1>1. ASSUME NEW r \in InFlight, NEW a \in Attempt PROVE r.att[a] \in Copy
  BY Zenon DEF InFlight
<1>2. ASSUME NEW p \in Copy, NEW c \in Conns
      PROVE  /\ [p EXCEPT !.state = "sent"] \in Copy
             /\ [p EXCEPT !.state = "lost", !.at = NoConn] \in Copy
             /\ [p EXCEPT !.at = c, !.moved = c] \in Copy
  BY Zenon DEF Copy, SendState, MaybeConn
<1>3. ASSUME NEW p \in Copy
      PROVE  /\ [p EXCEPT !.state = "sent"] \in Copy
             /\ [p EXCEPT !.state = "lost", !.at = NoConn] \in Copy
  BY Zenon DEF Copy, SendState, MaybeConn
<1> QED BY <1>1, <1>2, <1>3, Zenon

\* A search that had its answer from c keeps the type of its query.
LEMMA AnsweredType ==
    ASSUME NEW r \in InFlight, NEW c
    PROVE  [r EXCEPT !.searched = @ \ {c}] \in InFlight
BY Zenon DEF InFlight

\* A copy handed over by the outbox is a copy.
LEMMA HandedOverType ==
    ASSUME NEW p \in Copy, NEW pinned \in BOOLEAN, NEW d \in MaybeConn
    PROVE  HandedOver(p, pinned, d) \in Copy
BY Zenon DEF HandedOver, Copy, SendState, MaybeConn

\* A query whose copies are replaced by copies keeps its type.
LEMMA CopiesType ==
    ASSUME NEW r \in InFlight, NEW att \in [Attempt -> Copy]
    PROVE  [r EXCEPT !.att = att] \in InFlight
BY Zenon DEF InFlight

\* One copy of one query is replaced.
LEMMA SetCopyType ==
    ASSUME TypeOK, NEW q \in Queries, NEW a \in Attempt, NEW p \in Copy, SetCopy(q, a, p)
    PROVE  inflight' \in [Queries -> InFlight]
<1>1. [inflight[q].att EXCEPT ![a] = p] \in [Attempt -> Copy]
  BY Zenon DEF TypeOK, InFlight
<1>2. [inflight[q] EXCEPT !.att = [inflight[q].att EXCEPT ![a] = p]] \in InFlight
  BY <1>1, CopiesType, Zenon DEF TypeOK
<1>3. inflight' = [inflight EXCEPT ![q] = [inflight[q] EXCEPT !.att = [inflight[q].att EXCEPT ![a] = p]]]
  BY Zenon DEF SetCopy, TypeOK, InFlight
<1> QED
  BY <1>2, <1>3, Zenon DEF TypeOK

\* The initial state has its type: no query, no connection.
LEMMA InitType == Init => TypeOK
<1> SUFFICES ASSUME Init PROVE TypeOK
  BY Zenon
<1>1. NoCopy \in Copy
  BY Zenon DEF NoCopy, Copy, SendState, MaybeConn
<1>2. [NewQuery(FALSE, FALSE, FALSE, NoConn) EXCEPT !.stage = "Idle"] \in InFlight
  BY <1>1, Zenon DEF NewQuery, InFlight, Stage, Outcome, MaybeConn
<1> QED
  BY <1>2, Zenon DEF Init, TypeOK, Holder, Task

\* Every step keeps the types.
LEMMA NextType == TypeOK /\ [Next]_vars => TypeOK'
<1> SUFFICES ASSUME TypeOK, [Next]_vars PROVE TypeOK'
  BY Zenon
<1> USE ChoiceType
<1>1. ASSUME NEW q \in Queries, StartQuery(q) PROVE TypeOK'
  <2>1. PICK addressed \in Addressed, pinned \in Pinned, timed \in Timed, c \in Choice(Live),
             lane \in MaybeConn :
           Becomes(q, IF shutDown THEN Finish(NewQuery(addressed, pinned, timed, lane), "ShutDown")
                      ELSE StartRequest(NewQuery(addressed, pinned, timed, lane), FALSE, Live, c))
    BY <1>1, Zenon DEF StartQuery, MaybeConn
  <2>2. NoCopy \in Copy
    BY Zenon DEF NoCopy, Copy, SendState, MaybeConn
  <2>3. addressed \in BOOLEAN /\ pinned \in BOOLEAN /\ timed \in BOOLEAN /\ lane \in MaybeConn
    BY QueryAssumption, Zenon DEF MaybeConn
  <2>4. NewQuery(addressed, pinned, timed, lane) \in InFlight
    BY <2>2, <2>3, Zenon DEF NewQuery, InFlight, Stage, Outcome, MaybeConn
  <2>5. /\ Finish(NewQuery(addressed, pinned, timed, lane), "ShutDown") \in InFlight
        /\ StartRequest(NewQuery(addressed, pinned, timed, lane), FALSE, Live, c) \in InFlight
    BY <2>4, FinishType, StartRequestType, Zenon DEF Outcome
  <2> QED
    BY <1>1, <2>1, <2>5, BecomesType, Zenon DEF StartQuery, TypeOK
<1>2. ASSUME NEW q \in Queries, Deadline(q) PROVE TypeOK'
  <2>1. PICK c \in Choice(Live) : Becomes(q, QueryDeadline(inflight[q], Live, c))
    BY <1>2, Zenon DEF Deadline
  <2>2. QueryDeadline(inflight[q], Live, c) \in InFlight
    BY QueryDeadlineType, Zenon DEF TypeOK
  <2> QED
    BY <1>2, <2>1, <2>2, BecomesType, Zenon DEF Deadline, TypeOK
<1>3. ASSUME NEW q \in Queries, NEW a \in Attempt, Reply(q, a) PROVE TypeOK'
  <2>1. Finish(inflight[q], "Replied") \in InFlight
    BY FinishType, Zenon DEF TypeOK, Outcome
  <2>2. backend' \in [Queries -> [Attempt -> Holder]]
    BY <1>3, Zenon DEF Reply, TypeOK, Holder
  <2> QED
    BY <1>3, <2>1, <2>2, BecomesType, Zenon DEF Reply, TypeOK
<1>4. ASSUME NEW q \in Queries, NEW a \in Attempt, DeliveryError(q, a) PROVE TypeOK'
  <2>1. PICK past \in MayBePast(inflight[q]), c \in Choice(Live) :
           Becomes(q, Refused(inflight[q], a, past, Live, c))
    BY <1>4, Zenon DEF DeliveryError
  <2>2. Refused(inflight[q], a, past, Live, c) \in InFlight
    BY RefusedType, Zenon DEF TypeOK
  <2>3. backend' \in [Queries -> [Attempt -> Holder]]
    BY <1>4, Zenon DEF DeliveryError, TypeOK, Holder
  <2> QED
    BY <1>4, <2>1, <2>2, <2>3, BecomesType, Zenon DEF DeliveryError, TypeOK
<1>5. ASSUME NEW q \in Queries, NEW c \in Conns, SearchRefused(q, c) PROVE TypeOK'
  <2> DEFINE r == [inflight[q] EXCEPT !.searched = @ \ {c}]
  <2>1. r \in InFlight
    BY AnsweredType, Zenon DEF TypeOK
  <2>2. WaitLate(r, FALSE) \in InFlight
    BY <2>1, WaitLateType, Zenon
  <2>3. Becomes(q, IF r.searched = {} THEN WaitLate(r, FALSE) ELSE r)
    BY <1>5, Zenon DEF SearchRefused
  <2> HIDE DEF r
  <2> QED
    BY <1>5, <2>1, <2>2, <2>3, BecomesType, Zenon DEF SearchRefused, TypeOK
<1>6. ASSUME NEW q \in Queries, NEW via \in Conns, Ping(q, via) PROVE TypeOK'
  <2>1. PICK c \in Choice(Live) : Becomes(q, SendDirect(inflight[q], via, FALSE, Live, c))
    BY <1>6, Zenon DEF Ping
  <2>2. SendDirect(inflight[q], via, FALSE, Live, c) \in InFlight
    BY SendDirectType, Zenon DEF TypeOK, MaybeConn
  <2> QED
    BY <1>6, <2>1, <2>2, BecomesType, Zenon DEF Ping, TypeOK
<1>7. ASSUME NEW c \in Conns, ConnUp(c) PROVE TypeOK'
  <2> DEFINE Up(q) == [a \in Attempt |->
                         IF inflight[q].att[a].state = "queued" /\ inflight[q].att[a].at = NoConn
                         THEN [inflight[q].att[a] EXCEPT !.at = c, !.moved = c]
                         ELSE inflight[q].att[a]]
  <2>1. ASSUME NEW q \in Queries PROVE Up(q) \in [Attempt -> Copy]
    <3>1. inflight[q] \in InFlight
      BY Zenon DEF TypeOK
    <3> QED BY <3>1, CopyType, Zenon
  <2>2. inflight' = [q \in Queries |-> [inflight[q] EXCEPT !.att = Up(q)]]
    BY <1>7, Zenon DEF ConnUp
  <2>3. inflight' \in [Queries -> InFlight]
    <3> HIDE DEF Up
    <3> QED BY <2>1, <2>2, CopiesType, Zenon DEF TypeOK
  <2> QED
    BY <1>7, <2>3, Zenon DEF ConnUp, TypeOK, PostFill, Task
<1>8. ASSUME NEW c \in Conns, ConnDown(c) PROVE TypeOK'
  <2> DEFINE L == Live \ {c}
  <2>1. PICK d \in Choice(L), writing \in SUBSET (Queries \X Attempt), late \in SUBSET Queries :
           inflight' = [q \in Queries |->
             LET r == OnDown(inflight[q], c, q \in late, L, d)
             IN  [r EXCEPT !.att = [a \in Attempt |->
                    IF @[a].state = "queued" /\ @[a].at = c /\ <<q, a>> \notin writing
                    THEN HandedOver(@[a], r.pinned, d) ELSE @[a]]]]
    BY <1>8, Zenon DEF ConnDown
  <2> DEFINE R(q) == OnDown(inflight[q], c, q \in late, L, d)
             Down(q) == [a \in Attempt |->
                           IF R(q).att[a].state = "queued" /\ R(q).att[a].at = c
                              /\ <<q, a>> \notin writing
                           THEN HandedOver(R(q).att[a], R(q).pinned, d) ELSE R(q).att[a]]
  <2>2. L \in SUBSET Conns /\ d \in MaybeConn
    BY Zenon
  <2>3. ASSUME NEW q \in Queries PROVE R(q) \in InFlight
    <3>1. inflight[q] \in InFlight /\ (q \in late) \in BOOLEAN
      BY DEF TypeOK
    <3> QED BY <2>2, <3>1, OnDownType, Zenon
  <2>4. ASSUME NEW q \in Queries PROVE [R(q) EXCEPT !.att = Down(q)] \in InFlight
    <3> HIDE DEF R
    <3>1. R(q).att \in [Attempt -> Copy] /\ R(q).pinned \in BOOLEAN
      BY <2>3, Zenon DEF InFlight
    <3>2. Down(q) \in [Attempt -> Copy]
      BY <2>2, <3>1, HandedOverType, Zenon
    <3> HIDE DEF Down
    <3> QED BY <2>3, <3>2, CopiesType, Zenon
  <2>5. inflight' = [q \in Queries |-> [R(q) EXCEPT !.att = Down(q)]]
    BY <2>1, Zenon
  <2>6. inflight' \in [Queries -> InFlight]
    <3> HIDE DEF R, Down
    <3> QED BY <2>4, <2>5, Zenon
  <2>7. posted' \subseteq Task
    <3>1. ASSUME NEW q \in Queries
          PROVE  FollowHandover(q, inflight[q].gen, inflight[q].stage = "Request") \in Task
      BY ZenonT(40) DEF FollowHandover, Task, TypeOK, InFlight
    <3>2. posted' = posted \cup {FollowHandover(q, inflight[q].gen, inflight[q].stage = "Request") :
                                   q \in {p \in Queries : Follows(inflight[p], c)}}
      BY <1>8, Zenon DEF ConnDown
    <3>3. posted \subseteq Task
      BY Zenon DEF TypeOK
    <3> QED BY <3>1, <3>2, <3>3, Zenon
  <2> QED
    BY <1>8, <2>6, <2>7, Zenon DEF ConnDown, TypeOK
<1>9. ASSUME RunFill PROVE TypeOK'
  <2>1. inflight' \in [Queries -> InFlight]
    <3>1. CASE shutDown \/ waiting = {}
      BY <1>9, <3>1, Zenon DEF RunFill, TypeOK
    <3>2. CASE ~(shutDown \/ waiting = {})
      <4>1. PICK c \in [Queries -> Choice(Live)], late \in SUBSET Queries :
               inflight' = [q \in Queries |->
                   IF q \in waiting /\ inflight[q].stage # "Done"
                   THEN Restart(inflight[q], q \in late, Live, c[q]) ELSE inflight[q]]
        BY <1>9, <3>2, Zenon DEF RunFill
      <4>2. ASSUME NEW q \in Queries PROVE Restart(inflight[q], q \in late, Live, c[q]) \in InFlight
        <5>1. inflight[q] \in InFlight /\ (q \in late) \in BOOLEAN /\ c[q] \in MaybeConn
          BY DEF TypeOK
        <5> QED BY <5>1, RestartType, Zenon
      <4> QED BY <4>1, <4>2, Zenon DEF TypeOK
    <3> QED BY <3>1, <3>2, Zenon
  <2>2. waiting' \subseteq waiting /\ waitingEnded' \in {waitingEnded, 0}
    <3>1. CASE shutDown \/ waiting = {}
      BY <1>9, <3>1, Zenon DEF RunFill
    <3>2. CASE ~(shutDown \/ waiting = {})
      <4>1. waiting' = {q \in waiting : inflight'[q].stage = "Waiting"} /\ waitingEnded' = 0
        BY <1>9, <3>2, Zenon DEF RunFill
      <4> QED BY <4>1, Zenon
    <3> QED BY <3>1, <3>2, Zenon
  <2>3. posted' \subseteq Task
    BY <1>9, Zenon DEF RunFill, TypeOK
  <2> QED
    BY <1>9, <2>1, <2>2, <2>3 DEF RunFill, TypeOK
<1>10. ASSUME NEW t \in posted, RunFollow(t) PROVE TypeOK'
  <2>1. CASE t.query \notin InFlightSet
    BY <1>10, <2>1, Zenon DEF RunFollow, TypeOK
  <2>2. CASE t.query \in InFlightSet
    <3>1. PICK past \in MayBePast(inflight[t.query]), c \in Choice(Live) :
            Becomes(t.query, FollowedHandover(inflight[t.query], t.gen, t.request, past, Live, c))
      BY <1>10, <2>2, Zenon DEF RunFollow
    <3>2. t.query \in Queries /\ t.gen \in Nat /\ t.request \in BOOLEAN
      BY <1>10 DEF RunFollow, TypeOK, Task, Fill
    <3>3. FollowedHandover(inflight[t.query], t.gen, t.request, past, Live, c) \in InFlight
      BY <3>2, FollowedHandoverType, Zenon DEF TypeOK
    <3> QED
      BY <1>10, <3>1, <3>2, <3>3, BecomesType, Zenon DEF RunFollow, TypeOK
  <2> QED BY <2>1, <2>2, Zenon
<1>11. ASSUME Shutdown PROVE TypeOK'
  <2>1. \A q \in Queries : Finish(inflight[q], "ShutDown") \in InFlight
    BY FinishType, Zenon DEF TypeOK, Outcome
  <2> QED
    BY <1>11, <2>1, Zenon DEF Shutdown, TypeOK
<1>12. ASSUME NEW q \in Queries, NEW a \in Attempt, Write(q, a) PROVE TypeOK'
  <2>1. [inflight[q].att[a] EXCEPT !.state = "sent"] \in Copy
    BY CopyType, Zenon DEF TypeOK
  <2>2. inflight' \in [Queries -> InFlight]
    BY <1>12, <2>1, SetCopyType, Zenon DEF Write
  <2> QED
    BY <1>12, <2>2, Zenon DEF Write, TypeOK, Holder
<1>13. ASSUME NEW q \in Queries, NEW a \in Attempt, Settle(q, a) PROVE TypeOK'
  <2>1. PICK d \in Choice(Live) : SetCopy(q, a, HandedOver(inflight[q].att[a], inflight[q].pinned, d))
    BY <1>13, Zenon DEF Settle
  <2>2. HandedOver(inflight[q].att[a], inflight[q].pinned, d) \in Copy
    <3>1. inflight[q] \in InFlight
      BY Zenon DEF TypeOK
    <3>2. inflight[q].att[a] \in Copy
      BY <3>1, Zenon DEF InFlight
    <3> QED BY <3>1, <3>2, HandedOverType, Zenon DEF InFlight
  <2>3. inflight' \in [Queries -> InFlight]
    BY <2>1, <2>2, SetCopyType, Zenon
  <2> QED
    BY <1>13, <2>3, Zenon DEF Settle, TypeOK
<1>14. ASSUME NEW q \in Queries, NEW a \in Attempt, Expire(q, a) PROVE TypeOK'
  <2>1. [inflight[q].att[a] EXCEPT !.state = "lost", !.at = NoConn] \in Copy
    BY CopyType, Zenon DEF TypeOK
  <2>2. inflight' \in [Queries -> InFlight]
    BY <1>14, <2>1, SetCopyType, Zenon DEF Expire
  <2> QED
    BY <1>14, <2>2, Zenon DEF Expire, TypeOK
<1>15. ASSUME NEW q \in Queries, NEW a \in Attempt, Route(q, a) PROVE TypeOK'
  BY <1>15 DEF Route, TypeOK, Holder
<1>16. CASE UNCHANGED vars
  BY <1>16, Zenon DEF vars, TypeOK
<1> QED
  BY <1>1, <1>2, <1>3, <1>4, <1>5, <1>6, <1>7, <1>8, <1>9, <1>10, <1>11, <1>12, <1>13, <1>14,
     <1>15, <1>16, Zenon DEF Next

\* Every variable of the query state machine keeps its type, in particular
\* no handler leaves a query in a stage, or to be resumed at one, that the
\* code does not know.
THEOREM QueryTypeOK == Spec => []TypeOK
BY InitType, NextType, PTL DEF Spec

-----------------------------------------------------------------------------
(* What a handler makes of the books of one query: the messages that went   *)
(* out for it, its timer, and the stage it is at.                           *)

Backends == [Attempt -> Holder]

Messages == {"request", "search", "direct"}

\* The books of a query in flight, in the middle of a handler included: what
\* it watches is what went out, once each, and a request it takes for perhaps
\* taken was not refused.
Books(r, b) ==
    /\ r.told = 0 /\ r.watched = {m \in Messages : r.out[m] > 0}
    /\ \A m \in Messages : r.out[m] <= 1
    /\ \A a \in Attempt : b[a] = "struck" => r.out[a] = 1
    /\ r.taken => r.out["request"] = 1 /\ b["request"] # "struck"

\* The timer is armed, n times at most; or it still may be armed.
Timed3(r, n) == r.gen <= n /\ n <= 3 /\ (r.timed => r.timer)
MayArm(r, keep, n) == IF keep THEN Timed3(r, n) ELSE r.gen + 1 <= n /\ n <= 3

Ended(r) ==
    /\ r.told = 1 /\ r.watched = {} /\ r.gen <= 3 /\ \A m \in Messages : r.out[m] <= 1

\* The books of a query between two handlers, by its stage.
Kept(r, b) ==
    /\ r.stage = "Done" => Ended(r)
    /\ r.stage # "Done" => Books(r, b) /\ (r.listed <=> r.stage = "Waiting")
    /\ r.stage = "Idle" => r.gen = 0 /\ \A m \in Messages : r.out[m] = 0
    /\ r.stage = "Request" => /\ Timed3(r, 1) /\ r.out["request"] = 1 /\ b["request"] # "struck"
                              /\ r.out["search"] = 0 /\ r.out["direct"] = 0
    /\ r.stage = "Search" => Timed3(r, 2) /\ r.out["direct"] = 0
    /\ r.stage = "Direct" => Timed3(r, 3) /\ r.out["direct"] = 1 /\ b["direct"] # "struck"
    /\ r.stage = "Late" => /\ Timed3(r, 3) /\ r.pending # {}
                           /\ \A a \in r.pending : r.out[a] = 1 /\ b[a] # "struck"
    /\ r.stage = "Waiting" =>
          /\ r.out["direct"] = 0
          /\ r.resume = "Request" => Timed3(r, 1) /\ r.out["request"] = 0 /\ r.out["search"] = 0
          /\ r.resume = "Search" => Timed3(r, 2) /\ r.out["search"] = 0
          /\ r.resume = "Direct" => Timed3(r, 3)

\* What a handler, told that the outbox would choose c, does to a query's
\* stage and to its place on the waiting list.
Goes(r, s, c) ==
    /\ StageRank(r) <= StageRank(s)
    /\ s.stage = "Waiting" => r.stage = "Waiting" \/ c = NoConn
    /\ s.stage = "Done" => (s.listed <=> r.listed)
    /\ r.stage = "Waiting" => s.stage \in {"Waiting", "Done"}

\* What such a handler makes of a query that was not waiting for one, at the
\* stage of rank n or past it.
Result(s, b, n, c) ==
    /\ Kept(s, b) /\ StageRank(s) >= n /\ (s.stage = "Done" => ~s.listed)
    /\ s.stage = "Waiting" => c = NoConn

\* Records that differ in nothing that matters here but the timer.
SameBooks(r, s) ==
    /\ s.stage = r.stage /\ s.resume = r.resume /\ s.timed = r.timed /\ s.taken = r.taken
    /\ s.pending = r.pending /\ s.watched = r.watched /\ s.listed = r.listed
    /\ s.told = r.told /\ s.out = r.out /\ s.pinned = r.pinned /\ s.lane = r.lane
    /\ s.outcome = r.outcome

\* What the rank of a stage is.
LEMMA Ranks ==
    ASSUME NEW r \in InFlight
    PROVE  /\ r.stage = "Idle" => StageRank(r) = 0
           /\ r.stage = "Request" => StageRank(r) = 1
           /\ r.stage = "Search" => StageRank(r) = 2
           /\ r.stage = "Direct" => StageRank(r) = 3
           /\ r.stage = "Late" => StageRank(r) = 4
           /\ r.stage = "Done" => StageRank(r) = 5
           /\ r.stage = "Waiting" /\ r.resume = "Request" => StageRank(r) = 1
           /\ r.stage = "Waiting" /\ r.resume = "Search" => StageRank(r) = 2
           /\ r.stage = "Waiting" /\ r.resume = "Direct" => StageRank(r) = 3
           /\ r.stage = "Waiting" => r.resume \in {"Request", "Search", "Direct"}
           /\ StageRank(r) \in 0..5
BY DEF StageRank, InFlight, Stage

\* arm_query: the timer runs from here.
LEMMA ArmKept ==
    ASSUME NEW r \in InFlight, NEW keep \in BOOLEAN, NEW n \in Nat, MayArm(r, keep, n)
    PROVE  SameBooks(r, ArmUnless(keep, r)) /\ Timed3(ArmUnless(keep, r), n)
<1>1. CASE keep
  BY <1>1, Zenon DEF SameBooks, ArmUnless, MayArm
<1>2. CASE ~keep
  <2> DEFINE s == Arm(r)
  <2>1. s.gen = r.gen + 1 /\ s.timer = r.timed /\ SameBooks(r, s) /\ s.timed = r.timed
    BY Zenon DEF Arm, SameBooks, InFlight, Inc
  <2> HIDE DEF s
  <2>2. SameBooks(r, s) /\ Timed3(s, n)
    BY <1>2, <2>1, Zenon DEF MayArm, Timed3
  <2> QED BY <1>2, <2>2, Zenon DEF ArmUnless, s
<1> QED BY <1>1, <1>2, Zenon

\* SameBooks records have the same books.
LEMMA SameBooksHold ==
    ASSUME NEW r, NEW s, NEW b, SameBooks(r, s), Books(r, b)
    PROVE  Books(s, b)
BY Zenon DEF SameBooks, Books

\* finish: any query in flight may end.
LEMMA FinishKept ==
    ASSUME NEW r \in InFlight, NEW b \in Backends, NEW o \in Outcome, r.stage # "Done",
           Books(r, b), r.gen <= 3
    PROVE  LET s == Finish(r, o)
           IN  Kept(s, b) /\ s.stage = "Done" /\ s.listed = r.listed
<1> DEFINE s == Finish(r, o)
<1>1. /\ s.stage = "Done" /\ s.told = r.told + 1 /\ s.watched = {} /\ s.gen = r.gen
      /\ s.out = r.out /\ s.listed = r.listed
  BY Zenon DEF Finish, InFlight, Inc
<1> HIDE DEF s
<1>2. Kept(s, b)
  BY <1>1 DEF Kept, Ended, Books
<1> QED BY <1>1, <1>2, Zenon DEF s

\* wait_for_connection, before the stage it will resume at.
LEMMA WaitKept ==
    ASSUME NEW r \in InFlight, NEW b \in Backends,
           NEW resume \in {"Request", "Search", "Direct"},
           Books(r, b), r.out["direct"] = 0,
           resume = "Request" => Timed3(r, 1) /\ r.out["request"] = 0 /\ r.out["search"] = 0,
           resume = "Search" => Timed3(r, 2) /\ r.out["search"] = 0,
           resume = "Direct" => Timed3(r, 3)
    PROVE  LET s == WaitForConnection(r, resume)
           IN  Kept(s, b) /\ s.stage = "Waiting" /\ s.resume = resume
<1> DEFINE s == WaitForConnection(r, resume)
<1>1. /\ s.stage = "Waiting" /\ s.resume = resume /\ s.listed = TRUE /\ s.out = r.out
      /\ s.taken = r.taken /\ s.told = r.told /\ s.watched = r.watched
      /\ s.gen = r.gen /\ s.timed = r.timed /\ s.timer = r.timer
  BY Zenon DEF WaitForConnection, InFlight
<1> HIDE DEF s
<1>2. Kept(s, b)
  BY <1>1, Zenon DEF Kept, Books, Timed3
<1> QED BY <1>1, <1>2, Zenon DEF s

\* What placing an attempt does to the books.
Places(r, s, a) ==
    /\ s.stage = IF a = "request" THEN "Request" ELSE "Direct"
    /\ s.listed = r.listed /\ s.out = [r.out EXCEPT ![a] = r.out[a] + 1]
    /\ s.taken = r.taken /\ s.told = r.told /\ s.watched = r.watched \cup {a}

\* An attempt not made before goes into the outbox.
LEMMA PlacesKept ==
    ASSUME NEW r \in InFlight, NEW b \in Backends, NEW a \in Attempt, NEW s,
           Places(r, s, a), Books(r, b), ~r.listed, r.out["direct"] = 0,
           a = "request" => Timed3(s, 1) /\ r.out["request"] = 0 /\ r.out["search"] = 0,
           a = "direct" => Timed3(s, 3)
    PROVE  Kept(s, b)
<1>0. r.out \in [Messages -> Nat] /\ a \in Messages /\ (a = "request" \/ a = "direct")
  BY Zenon DEF InFlight, Messages, Attempt
<1>1. s.out[a] = 1 /\ \A m \in Messages \ {a} : s.out[m] = r.out[m]
  BY <1>0 DEF Places
<1>2. Books(s, b)
  <2>1. s.watched = {m \in Messages : s.out[m] > 0}
    BY <1>0, <1>1 DEF Books, Places
  <2>2. "request" \in Messages /\ \A o \in Attempt : o \in Messages
    BY Zenon DEF Messages, Attempt
  <2> QED BY <1>0, <1>1, <2>1, <2>2 DEF Books, Places
<1>3. b[a] # "struck"
  BY <1>0 DEF Books
<1>4. "request" \in Messages /\ "search" \in Messages /\ "direct" \in Messages
  BY Zenon DEF Messages
<1> QED BY <1>0, <1>1, <1>2, <1>3, <1>4, Zenon DEF Kept, Timed3, Places

\* What the code does to place one, and its timer.
LEMMA PlacedKept ==
    ASSUME NEW r \in InFlight, NEW a \in Attempt, NEW c \in MaybeConn
    PROVE  LET stage == IF a = "request" THEN "Request" ELSE "Direct"
               s == Placed(r, a, stage, c)
           IN  /\ Places(r, s, a) /\ s.gen = r.gen
               /\ s.timed = r.timed /\ s.timer = r.timer
<1>1. r.out \in [Messages -> Nat] /\ a \in Messages
  BY Zenon DEF InFlight, Messages, Attempt
<1> QED BY <1>1, Zenon DEF Placed, InFlight, Inc, Places

\* start_request, of a query none of whose messages went out.
LEMMA StartRequestKept ==
    ASSUME NEW r \in InFlight, NEW b \in Backends, NEW keep \in BOOLEAN,
           NEW L \in SUBSET Conns, NEW c \in MaybeConn,
           Books(r, b), ~r.listed, r.stage # "Done", MayArm(r, keep, 1),
           \A m \in Messages : r.out[m] = 0
    PROVE  LET s == StartRequest(r, keep, L, c)
           IN  Result(s, b, 1, c)
<1> USE DEF Result
<1> DEFINE s == StartRequest(r, keep, L, c)
           armed == ArmUnless(keep, r)
<1>0. Through(r, c) \in MaybeConn /\ s \in InFlight
  BY StartRequestType, ZenonT(40) DEF Through, InFlight
<1>1. armed \in InFlight /\ SameBooks(r, armed) /\ Timed3(armed, 1)
  BY ArmType, ArmKept, Zenon
<1>2. Books(armed, b) /\ armed.out = r.out /\ ~armed.listed
  BY <1>1, SameBooksHold, Zenon DEF SameBooks
<1>3. r.gen <= 3
  BY DEF MayArm, Timed3, InFlight
<1>4. r.out["request"] = 0 /\ r.out["search"] = 0 /\ r.out["direct"] = 0
  BY Zenon DEF Messages
<1>5. CASE Refuses(r, L)
  <2>1. s = Finish(r, "NotConnected")
    BY <1>5, Zenon DEF StartRequest
  <2>2. Kept(s, b) /\ s.stage = "Done" /\ ~s.listed
    BY <1>3, <2>1, FinishKept, Zenon DEF Outcome
  <2> QED BY <1>0, <2>2, Ranks
<1>6. CASE ~Refuses(r, L) /\ Through(r, c) = NoConn
  <2>1. s = WaitForConnection(armed, "Request")
    <3>1. Arm(WaitForConnection(r, "Request")) = WaitForConnection(Arm(r), "Request")
      BY Zenon DEF Arm, WaitForConnection, InFlight
    <3> QED BY <1>6, <3>1, Zenon DEF StartRequest, ArmUnless
  <2>2. Kept(s, b) /\ s.stage = "Waiting" /\ s.resume = "Request"
    <3> HIDE DEF armed
    <3> QED BY <1>1, <1>2, <1>4, <2>1, WaitKept, Zenon
  <2>3. c = NoConn
    BY <1>6, Zenon DEF Through
  <2> QED BY <1>0, <2>2, <2>3, Ranks
<1>7. CASE ~Refuses(r, L) /\ Through(r, c) # NoConn
  <2> DEFINE p == Placed(r, "request", "Request", Through(r, c))
  <2>1. s = ArmUnless(keep, p)
    BY <1>7, Zenon DEF StartRequest
  <2>2. p \in InFlight
    BY <1>0, <1>7, PlacedType, Zenon DEF MaybeConn, Attempt, Stage
  <2>3. /\ Places(r, p, "request") /\ p.gen = r.gen
        /\ p.timed = r.timed /\ p.timer = r.timer
    BY <1>0, PlacedKept, Zenon DEF Attempt
  <2> HIDE DEF p
  <2>4. MayArm(p, keep, 1)
    BY <2>3, Zenon DEF MayArm, Timed3
  <2>5. SameBooks(p, s) /\ Timed3(s, 1)
    BY <2>1, <2>2, <2>4, ArmKept, Zenon
  <2>6. Places(r, s, "request")
    BY <2>3, <2>5, Zenon DEF Places, SameBooks
  <2>7. Kept(s, b)
    BY <1>4, <2>5, <2>6, PlacesKept, Zenon DEF Attempt
  <2> QED BY <1>0, <2>6, <2>7, Ranks DEF Places
<1> QED BY <1>5, <1>6, <1>7, Zenon

\* search, of a query that has not searched.
LEMMA SearchKept ==
    ASSUME NEW r \in InFlight, NEW b \in Backends, NEW keep \in BOOLEAN, NEW past \in BOOLEAN,
           NEW L \in SUBSET Conns, NEW c \in MaybeConn, (c = NoConn <=> L = {}),
           Books(r, b), ~r.listed, r.stage # "Done", MayArm(r, keep, 2),
           r.out["search"] = 0, r.out["direct"] = 0
    PROVE  LET s == Search(r, keep, past, L, c)
           IN  Result(s, b, 2, c)
<1> USE DEF Result
<1> DEFINE s == Search(r, keep, past, L, c)
           armed == ArmUnless(keep, r)
           sent == IF r.pinned THEN {Through(r, c)} \ {NoConn} ELSE L
           goes == [armed EXCEPT !.stage = "Search", !.searched = sent,
                                 !.watched = @ \cup {"search"}, !.out["search"] = Inc(@)]
<1>0. s \in InFlight
  BY SearchType, Zenon
<1>1. armed \in InFlight /\ SameBooks(r, armed) /\ Timed3(armed, 2)
  BY ArmType, ArmKept, Zenon
<1>2. Books(armed, b) /\ armed.out = r.out /\ ~armed.listed /\ armed.stage # "Done"
  BY <1>1, SameBooksHold, Zenon DEF SameBooks
<1>3. r.gen <= 3 /\ armed.gen <= 3
  <2>1. r.gen <= 3
    BY DEF MayArm, Timed3, InFlight
  <2>2. armed.gen <= 3
    <3> HIDE DEF armed
    <3> QED BY <1>1 DEF Timed3, InFlight
  <2> QED BY <2>1, <2>2, Zenon
<1>4. CASE r.addressed /\ past
  <2>1. s = Finish(r, "TimedOut")
    BY <1>4, Zenon DEF Search
  <2>2. Kept(s, b) /\ s.stage = "Done" /\ ~s.listed
    BY <1>3, <2>1, FinishKept, Zenon DEF Outcome
  <2> QED BY <1>0, <2>2, Ranks
<1>5. CASE ~(r.addressed /\ past) /\ Refuses(r, L)
  <2>1. s = Finish(armed, "NotConnected")
    BY <1>5, Zenon DEF Search
  <2>2. Kept(s, b) /\ s.stage = "Done" /\ ~s.listed
    <3> HIDE DEF armed
    <3> QED BY <1>1, <1>2, <1>3, <2>1, FinishKept, Zenon DEF Outcome
  <2> QED BY <1>0, <2>2, Ranks
<1>6. CASE ~(r.addressed /\ past) /\ ~Refuses(r, L) /\ sent = {}
  <2>1. s = WaitForConnection(armed, "Search")
    BY <1>6, Zenon DEF Search
  <2>2. Kept(s, b) /\ s.stage = "Waiting" /\ s.resume = "Search"
    <3> HIDE DEF armed
    <3> QED BY <1>1, <1>2, <2>1, WaitKept, Zenon
  <2>3. c = NoConn
    BY <1>6, Zenon DEF Through
  <2> QED BY <1>0, <2>2, <2>3, Ranks
<1>7. CASE ~(r.addressed /\ past) /\ ~Refuses(r, L) /\ sent # {}
  <2>1. s = goes
    BY <1>7, Zenon DEF Search
  <2> HIDE DEF armed, sent
  <2>2. /\ goes.stage = "Search" /\ goes.out = [armed.out EXCEPT !["search"] = @ + 1]
        /\ goes.watched = armed.watched \cup {"search"} /\ goes.told = armed.told
        /\ goes.taken = armed.taken /\ goes.gen = armed.gen /\ goes.timed = armed.timed
        /\ goes.timer = armed.timer /\ goes.listed = armed.listed
    BY <1>1, Zenon DEF InFlight, Inc
  <2>3. armed.out \in [Messages -> Nat]
    BY <1>1, Zenon DEF InFlight, Messages
  <2> HIDE DEF goes
  <2>4. goes.out["search"] = 1 /\ \A m \in Messages \ {"search"} : goes.out[m] = armed.out[m]
    BY <1>2, <2>2, <2>3 DEF Messages
  <2>5. goes.watched = {m \in Messages : goes.out[m] > 0}
    BY <1>2, <2>2, <2>3, <2>4 DEF Books, Messages
  <2>6. Books(goes, b)
    BY <1>2, <2>2, <2>4, <2>5 DEF Books, Messages, Attempt
  <2>7. Kept(goes, b)
    BY <1>1, <1>2, <2>2, <2>4, <2>6, Zenon DEF Kept, Timed3, Messages
  <2> QED BY <1>0, <2>1, <2>2, <2>7, Ranks
<1> QED BY <1>4, <1>5, <1>6, <1>7, Zenon

\* send_direct, of a query that has not.
LEMMA SendDirectKept ==
    ASSUME NEW r \in InFlight, NEW b \in Backends, NEW preferred \in MaybeConn,
           NEW keep \in BOOLEAN, NEW L \in SUBSET Conns, NEW c \in MaybeConn,
           Books(r, b), ~r.listed, r.stage # "Done", MayArm(r, keep, 3), r.out["direct"] = 0
    PROVE  LET s == SendDirect(r, preferred, keep, L, c)
           IN  Result(s, b, 3, c)
<1> USE DEF Result
<1> DEFINE s == SendDirect(r, preferred, keep, L, c)
           armed == ArmUnless(keep, r)
<1>0. s \in InFlight /\ Through(r, c) \in MaybeConn
  <2>1. s \in InFlight
    BY SendDirectType, Zenon
  <2>2. Through(r, c) \in MaybeConn
    BY Zenon DEF Through, InFlight
  <2> QED BY <2>1, <2>2, Zenon
<1>1. armed \in InFlight /\ SameBooks(r, armed) /\ Timed3(armed, 3)
  BY ArmType, ArmKept, Zenon
<1>2. Books(armed, b) /\ armed.out = r.out /\ ~armed.listed /\ armed.stage # "Done"
  BY <1>1, SameBooksHold, Zenon DEF SameBooks
<1>3. ASSUME NEW d \in MaybeConn, s = Placed(armed, "direct", "Direct", d)
      PROVE  Kept(s, b) /\ s.stage = "Direct"
  <2> HIDE DEF armed, s
  <2>1. Places(armed, s, "direct") /\ Timed3(s, 3)
    BY <1>1, <1>3, PlacedKept, ZenonT(40) DEF Attempt, Timed3
  <2> QED BY <1>1, <1>2, <2>1, PlacesKept, Zenon DEF Attempt, Places
<1>4. CASE preferred \in L
  <2>1. s = Placed(armed, "direct", "Direct", preferred)
    BY <1>4, Zenon DEF SendDirect
  <2> QED BY <1>0, <1>3, <2>1, Ranks
<1>5. CASE preferred \notin L /\ Refuses(r, L)
  <2>1. s = Finish(armed, "NotConnected")
    BY <1>5, Zenon DEF SendDirect
  <2>2. Kept(s, b) /\ s.stage = "Done" /\ ~s.listed
    <3> HIDE DEF armed
    <3> QED BY <1>1, <1>2, <2>1, FinishKept, Zenon DEF Outcome, Timed3
  <2> QED BY <1>0, <2>2, Ranks
<1>6. CASE preferred \notin L /\ ~Refuses(r, L) /\ Through(r, c) = NoConn
  <2>1. s = WaitForConnection(armed, "Direct")
    BY <1>6, Zenon DEF SendDirect
  <2>2. Kept(s, b) /\ s.stage = "Waiting" /\ s.resume = "Direct"
    <3> HIDE DEF armed
    <3> QED BY <1>1, <1>2, <2>1, WaitKept, Zenon
  <2>3. c = NoConn
    BY <1>6, Zenon DEF Through
  <2> QED BY <1>0, <2>2, <2>3, Ranks
<1>7. CASE preferred \notin L /\ ~Refuses(r, L) /\ Through(r, c) # NoConn
  <2>1. s = Placed(armed, "direct", "Direct", Through(r, c))
    BY <1>7, Zenon DEF SendDirect
  <2> QED BY <1>0, <1>3, <2>1, Ranks
<1> QED BY <1>4, <1>5, <1>6, <1>7, Zenon

\* wait_late: what is waited for went out and was not refused.
LEMMA WaitLateKept ==
    ASSUME NEW r \in InFlight, NEW b \in Backends, NEW direct \in BOOLEAN, NEW c,
           Books(r, b), ~r.listed, r.stage # "Done", Timed3(r, 3),
           direct => r.out["direct"] = 1 /\ b["direct"] # "struck"
    PROVE  LET s == WaitLate(r, direct)
           IN  Result(s, b, 4, c)
<1> USE DEF Result
<1> DEFINE pending == {a \in Attempt :
                         /\ r.att[a].state # "lost"
                         /\ IF a = "request" THEN r.taken ELSE direct}
           waits == [r EXCEPT !.pending = pending]
           late == [waits EXCEPT !.stage = "Late"]
           s == WaitLate(r, direct)
<1>0. s \in InFlight
  BY WaitLateType, Zenon
<1>1. \A a \in pending : r.out[a] = 1 /\ b[a] # "struck"
  BY Zenon DEF Attempt, Books
<1>2. pending \in SUBSET Attempt
  BY Zenon
<1>3. s = IF pending = {} THEN Finish(waits, "Failed") ELSE late
  BY Zenon DEF WaitLate
<1> HIDE DEF pending, s
<1>4. /\ waits \in InFlight /\ waits.stage = r.stage /\ waits.told = r.told
      /\ waits.watched = r.watched /\ waits.out = r.out /\ waits.taken = r.taken
      /\ waits.gen = r.gen /\ waits.timed = r.timed /\ waits.timer = r.timer
      /\ waits.listed = r.listed /\ waits.pending = pending
  BY <1>2, Zenon DEF InFlight
<1> HIDE DEF waits
<1>5. Books(waits, b)
  BY <1>4, Zenon DEF Books
<1>6. CASE pending = {}
  <2>1. Kept(s, b) /\ s.stage = "Done" /\ ~s.listed
    BY <1>3, <1>4, <1>5, <1>6, FinishKept, Zenon DEF Outcome, Timed3
  <2> QED BY <1>0, <2>1, Ranks DEF s
<1>7. CASE pending # {}
  <2>1. /\ late.stage = "Late" /\ late.told = r.told
        /\ late.watched = r.watched /\ late.out = r.out /\ late.taken = r.taken
        /\ late.gen = r.gen /\ late.timed = r.timed /\ late.timer = r.timer
        /\ late.listed = r.listed /\ late.pending = pending
    BY <1>4, Zenon DEF InFlight
  <2> HIDE DEF late
  <2>2. Kept(late, b)
    BY <1>1, <1>7, <2>1, Zenon DEF Kept, Books, Timed3
  <2> QED BY <1>0, <1>3, <1>7, <2>1, <2>2, Ranks DEF s
<1> QED BY <1>6, <1>7, Zenon

\* A query in flight, not waiting for a connection, may go on.
LEMMA KeptGoes ==
    ASSUME NEW r \in InFlight, NEW b, Kept(r, b), r.stage \notin {"Idle", "Done"}
    PROVE  /\ Books(r, b) /\ Timed3(r, 3)
           /\ r.stage # "Waiting" => ~r.listed
           /\ r.stage = "Waiting" => r.listed
           /\ r.stage = "Request" => MayArm(r, FALSE, 2)
           /\ r.stage = "Search" => MayArm(r, FALSE, 3)
<1>1. r.gen \in Nat /\ r.stage \in Stage /\ r.resume \in {"Request", "Search", "Direct"}
  BY Zenon DEF InFlight
<1>2. Timed3(r, 3)
  BY <1>1 DEF Kept, Timed3, Stage
<1> QED BY <1>1, <1>2 DEF Kept, MayArm, Timed3

\* lost: the connection an attempt went through is gone.
LEMMA LostKept ==
    ASSUME NEW r \in InFlight, NEW b \in Backends, NEW past \in BOOLEAN,
           NEW L \in SUBSET Conns, NEW c \in MaybeConn, (c = NoConn <=> L = {}),
           Kept(r, b), r.stage \in {"Request", "Direct"}
    PROVE  LET s == Lost(r, past, L, c)
           IN  Result(s, b, IF r.stage = "Request" THEN 2 ELSE 4, c)
<1> DEFINE s == Lost(r, past, L, c)
<1>0. /\ s \in InFlight /\ Books(r, b) /\ Timed3(r, 3) /\ ~r.listed
      /\ r.stage = "Request" => MayArm(r, FALSE, 2)
  BY LostType, KeptGoes, Zenon
<1>1. CASE r.pinned
  <2>1. s = Finish(r, "NotConnected")
    BY <1>1, Zenon DEF Lost
  <2>2. Kept(s, b) /\ s.stage = "Done" /\ ~s.listed
    BY <1>0, <2>1, FinishKept, Zenon DEF Outcome, Timed3
  <2> QED BY <1>0, <2>2, Ranks DEF Result
<1>2. CASE ~r.pinned /\ r.stage = "Request"
  <2> DEFINE t == [r EXCEPT !.taken = TRUE]
  <2>1. s = Search(t, FALSE, past, L, c)
    BY <1>2, Zenon DEF Lost
  <2>2. /\ t \in InFlight /\ t.stage = r.stage /\ t.out = r.out /\ t.told = r.told
        /\ t.watched = r.watched /\ t.gen = r.gen /\ t.listed = r.listed /\ t.taken = TRUE
    BY Zenon DEF InFlight
  <2> HIDE DEF t
  <2>3. Books(t, b)
    BY <1>0, <1>2, <2>2, Zenon DEF Books, Kept
  <2>4. MayArm(t, FALSE, 2) /\ t.out["search"] = 0 /\ t.out["direct"] = 0
    BY <1>0, <1>2, <2>2, Zenon DEF MayArm, Kept
  <2> QED BY <1>0, <1>2, <2>1, <2>2, <2>3, <2>4, SearchKept, Zenon
<1>3. CASE ~r.pinned /\ r.stage = "Direct"
  <2>1. s = WaitLate(r, TRUE)
    BY <1>3, Zenon DEF Lost
  <2>2. r.out["direct"] = 1 /\ b["direct"] # "struck"
    BY <1>3, Zenon DEF Kept
  <2> QED BY <1>0, <1>3, <2>1, <2>2, WaitLateKept, Zenon
<1> QED BY <1>1, <1>2, <1>3, Zenon

\* refused: the attempt the delivery error is for is struck off.
LEMMA RefusedKept ==
    ASSUME NEW r \in InFlight, NEW b \in Backends, NEW a \in Attempt, NEW past \in BOOLEAN,
           NEW L \in SUBSET Conns, NEW c \in MaybeConn, (c = NoConn <=> L = {}),
           Kept(r, b), r.stage \notin {"Idle", "Done"}, a \in r.watched
    PROVE  LET s == Refused(r, a, past, L, c)
           IN  Kept(s, [b EXCEPT ![a] = "struck"]) /\ Goes(r, s, c)
<1> DEFINE s == Refused(r, a, past, L, c)
           b2 == [b EXCEPT ![a] = "struck"]
           struck == IF a = "request" THEN [r EXCEPT !.taken = FALSE] ELSE r
           left == r.pending \ {a}
<1>0. /\ s \in InFlight /\ Books(r, b) /\ Timed3(r, 3)
      /\ r.stage # "Waiting" => ~r.listed
      /\ r.stage = "Request" => MayArm(r, FALSE, 2)
  BY RefusedType, KeptGoes, Zenon
<1>1. b2 \in Backends /\ b2[a] = "struck" /\ \A o \in Attempt \ {a} : b2[o] = b[o]
  BY Zenon DEF Backends, Holder
<1>2. /\ struck \in InFlight /\ struck.stage = r.stage /\ struck.resume = r.resume
      /\ struck.out = r.out /\ struck.told = r.told /\ struck.watched = r.watched
      /\ struck.gen = r.gen /\ struck.timed = r.timed /\ struck.timer = r.timer
      /\ struck.listed = r.listed /\ struck.pending = r.pending
      /\ struck.taken => r.taken /\ a # "request"
  BY Zenon DEF InFlight
<1>3. a \in {"request", "direct"} /\ Attempt = {"request", "direct"} /\ r.out[a] = 1
  <2>1. a \in Messages /\ r.out[a] > 0 /\ r.out[a] <= 1 /\ r.out[a] \in Nat
    BY <1>0, Zenon DEF Books, InFlight, Messages
  <2> QED BY <2>1 DEF Attempt
<1> HIDE DEF b2, struck
<1>4. Books(struck, b2)
  BY <1>0, <1>1, <1>2, <1>3 DEF Books
<1>5. Timed3(struck, 3) /\ (r.stage = "Request" => MayArm(struck, FALSE, 2))
  BY <1>0, <1>2, Zenon DEF Timed3, MayArm
<1> SUFFICES Kept(s, b2) /\ Goes(r, s, c)
  BY Zenon DEF b2
<1>6. CASE r.stage = "Request" /\ a = "request"
  <2>1. s = Search(struck, FALSE, past, L, c)
    BY <1>6, Zenon DEF Refused, struck
  <2>2. struck.out["search"] = 0 /\ struck.out["direct"] = 0
    BY <1>2, <1>6, Zenon DEF Kept
  <2>3. ~struck.listed /\ struck.stage # "Done" /\ MayArm(struck, FALSE, 2) /\ struck \in InFlight
    BY <1>0, <1>2, <1>5, <1>6, Zenon
  <2>4. Result(Search(struck, FALSE, past, L, c), b2, 2, c)
    BY <1>1, <1>4, <2>2, <2>3, SearchKept, Zenon
  <2>5. Result(s, b2, 2, c) /\ StageRank(r) = 1
    BY <1>6, <2>1, <2>4, Ranks, Zenon
  <2> HIDE DEF s
  <2>6. ~r.listed /\ StageRank(s) \in Nat
    <3>1. StageRank(s) \in 0..5
      BY <1>0, Ranks, Zenon
    <3> QED BY <1>0, <1>6, <3>1
  <2> QED BY <1>6, <2>5, <2>6 DEF Result, Goes
<1>7. CASE r.stage = "Direct" /\ a = "direct"
  <2>1. s = WaitLate(struck, FALSE)
    BY <1>7, Zenon DEF Refused, struck
  <2>2. Result(s, b2, 4, NoConn)
    BY <1>0, <1>1, <1>2, <1>4, <1>5, <1>7, <2>1, WaitLateKept, Zenon
  <2>3. s.stage # "Waiting"
    BY <1>0, <2>2, Ranks DEF Result
  <2> QED BY <1>0, <1>7, <2>2, <2>3, Ranks DEF Result, Goes
<1>8. CASE r.stage = "Late"
  <2>1. left \in SUBSET Attempt /\ \A o \in left : r.out[o] = 1 /\ b2[o] # "struck"
    BY <1>1, <1>8, Zenon DEF InFlight, Kept
  <2>2. s = IF left = {} THEN Finish([struck EXCEPT !.pending = {}], "Failed")
            ELSE [struck EXCEPT !.pending = left]
    BY <1>8, Zenon DEF Refused, struck
  <2> HIDE DEF left
  <2>3. ASSUME NEW p \in SUBSET Attempt
        PROVE  LET t == [struck EXCEPT !.pending = p]
               IN  /\ t \in InFlight /\ t.stage = r.stage /\ t.out = r.out /\ t.told = r.told
                   /\ t.watched = r.watched /\ t.gen = r.gen /\ t.timed = r.timed
                   /\ t.timer = r.timer /\ t.listed = r.listed /\ t.taken = struck.taken
                   /\ t.pending = p
    BY <1>2, Zenon DEF InFlight
  <2>4. CASE left = {}
    <3> DEFINE t == [struck EXCEPT !.pending = {}]
    <3>1. /\ t \in InFlight /\ t.stage = r.stage /\ t.out = r.out /\ t.told = r.told
          /\ t.watched = r.watched /\ t.gen = r.gen /\ t.listed = r.listed
          /\ t.taken = struck.taken
      BY <2>3, Zenon
    <3>2. s = Finish(t, "Failed")
      BY <2>2, <2>4, Zenon
    <3> HIDE DEF t, s
    <3>3. Books(t, b2)
      BY <1>2, <1>4, <3>1, ZenonT(40) DEF Books
    <3>4. Kept(s, b2) /\ s.stage = "Done" /\ s.listed = t.listed
      BY <1>0, <1>1, <1>8, <3>1, <3>2, <3>3, FinishKept, Zenon DEF Outcome, Timed3
    <3> QED BY <1>0, <1>8, <3>1, <3>4, Ranks DEF Goes
  <2>5. CASE left # {}
    <3>1. /\ s.stage = r.stage /\ s.out = r.out /\ s.told = r.told
          /\ s.watched = r.watched /\ s.gen = r.gen /\ s.timed = r.timed
          /\ s.timer = r.timer /\ s.listed = r.listed /\ s.taken = struck.taken
          /\ s.pending = left
      BY <2>1, <2>2, <2>3, <2>5
    <3> HIDE DEF s
    <3>2. Books(s, b2)
      BY <1>2, <1>4, <3>1, ZenonT(40) DEF Books
    <3>3. Kept(s, b2)
      BY <1>0, <1>8, <2>1, <2>5, <3>1, <3>2, ZenonT(40) DEF Kept, Timed3
    <3> QED BY <1>0, <1>8, <3>1, <3>3, Ranks DEF Goes
  <2> QED BY <2>4, <2>5, Zenon
<1>9. CASE /\ ~(r.stage = "Request" /\ a = "request")
           /\ ~(r.stage = "Direct" /\ a = "direct") /\ r.stage # "Late"
  <2>1. s = struck
    BY <1>9, Zenon DEF Refused, struck
  <2> HIDE DEF s
  <2>2. Kept(s, b2)
    BY <1>0, <1>1, <1>2, <1>3, <1>4, <1>9, <2>1, Zenon DEF Kept, Timed3
  <2>3. StageRank(s) = StageRank(r)
    BY <1>2, <2>1, Zenon DEF StageRank
  <2>4. StageRank(r) <= StageRank(s)
    BY <1>0, <2>3, Ranks
  <2> QED BY <1>2, <1>9, <2>1, <2>2, <2>4, Zenon DEF Goes
<1> QED BY <1>6, <1>7, <1>8, <1>9, Zenon

\* What a handler makes of a query that was not waiting for a connection.
LEMMA ResultGoes ==
    ASSUME NEW r \in InFlight, NEW s \in InFlight, NEW b, NEW c, NEW n \in Nat,
           r.stage # "Waiting", ~r.listed, StageRank(r) <= n, Result(s, b, n, c)
    PROVE  Kept(s, b) /\ Goes(r, s, c)
BY Ranks DEF Result, Goes

\* A query that stays as it is.
LEMMA StaysGoes ==
    ASSUME NEW r \in InFlight, NEW c
    PROVE  Goes(r, r, c)
BY Ranks DEF Goes

\* A query in flight that ends.
LEMMA FinishGoes ==
    ASSUME NEW r \in InFlight, NEW b \in Backends, NEW o \in Outcome, NEW c,
           Kept(r, b), r.stage \notin {"Idle", "Done"}
    PROVE  LET s == Finish(r, o)
           IN  Kept(s, b) /\ Goes(r, s, c) /\ s.stage = "Done"
<1> DEFINE s == Finish(r, o)
<1>1. Kept(s, b) /\ s.stage = "Done" /\ s.listed = r.listed /\ s \in InFlight
  BY KeptGoes, FinishKept, FinishType, Zenon DEF Timed3
<1> QED BY <1>1, Ranks DEF Goes

\* SameBooks records, timer and all, are kept alike, also while what a
\* multiplexer makes of the attempts changes, unless it refuses one.
LEMMA SameBooksKept ==
    ASSUME NEW r, NEW s, NEW b, NEW b2, SameBooks(r, s), s.gen = r.gen, s.timer = r.timer,
           \A a \in Attempt : b2[a] = "struck" => b[a] = "struck",
           Kept(r, b), r.pending \in SUBSET Attempt
    PROVE  Kept(s, b2) /\ StageRank(s) = StageRank(r)
<1>1. r.stage # "Done" => Books(s, b2)
  BY Zenon DEF Kept, Books, SameBooks, Attempt
<1>2. Kept(s, b2)
  BY <1>1 DEF Kept, Timed3, Ended, SameBooks, Attempt
<1> QED BY <1>2, Zenon DEF SameBooks, StageRank

\* queries_on_connection.
LEMMA OnDownKept ==
    ASSUME NEW r \in InFlight, NEW b \in Backends, NEW c \in Conns, NEW past \in BOOLEAN,
           NEW L \in SUBSET Conns, NEW d \in MaybeConn, (d = NoConn <=> L = {}), Kept(r, b)
    PROVE  LET s == OnDown(r, c, past, L, d)
           IN  /\ Kept(s, b) /\ Goes(r, s, d)
               /\ r.stage \in {"Idle", "Waiting", "Done"} => s = r
<1> DEFINE s == OnDown(r, c, past, L, d)
<1>0. s \in InFlight
  BY OnDownType, Zenon
<1>1. CASE r.stage \in {"Request", "Direct"} /\ r.via = c /\ ~Follows(r, c)
  <2>1. s = Lost(r, past, L, d)
    BY <1>1, Zenon DEF OnDown
  <2>2. Result(s, b, IF r.stage = "Request" THEN 2 ELSE 4, d)
    BY <1>1, <2>1, LostKept, Zenon
  <2>3. StageRank(r) <= (IF r.stage = "Request" THEN 2 ELSE 4) /\ ~r.listed
    <3>1. ~r.listed
      BY <1>1, KeptGoes, Zenon
    <3> QED BY <1>1, <3>1, Ranks
  <2> HIDE DEF s
  <2>4. Kept(s, b) /\ Goes(r, s, d)
    BY <1>0, <1>1, <2>2, <2>3, ResultGoes, Zenon
  <2> QED BY <1>1, <2>4, Zenon DEF s
<1>2. CASE r.stage = "Search" /\ r.pinned /\ c \in r.searched
  <2> DEFINE t == [r EXCEPT !.searched = @ \ {c}]
  <2>1. s = Finish(t, "NotConnected")
    BY <1>2, Zenon DEF OnDown
  <2>2. t \in InFlight /\ SameBooks(r, t) /\ t.gen = r.gen /\ t.timer = r.timer
    BY Zenon DEF InFlight, SameBooks
  <2> HIDE DEF t, s
  <2>3. Kept(t, b) /\ StageRank(t) = StageRank(r) /\ t.stage = r.stage /\ t.listed = r.listed
    BY <2>2, SameBooksKept DEF InFlight, SameBooks
  <2>4. Kept(s, b) /\ Goes(t, s, d)
    BY <1>2, <2>1, <2>2, <2>3, FinishGoes, Zenon DEF Outcome
  <2>5. Goes(r, s, d)
    BY <2>3, <2>4, Zenon DEF Goes
  <2> QED BY <1>2, <2>4, <2>5, Zenon DEF s
<1>3. CASE r.stage = "Late" /\ r.pinned /\ r.lane = c
  <2>1. s = Finish(r, "NotConnected")
    BY <1>3, Zenon DEF OnDown
  <2> HIDE DEF s
  <2>2. Kept(s, b) /\ Goes(r, s, d)
    BY <1>3, <2>1, FinishGoes, Zenon DEF Outcome
  <2> QED BY <1>3, <2>2, Zenon DEF s
<1>4. CASE /\ ~(r.stage \in {"Request", "Direct"} /\ r.via = c /\ ~Follows(r, c))
           /\ ~(r.stage = "Search" /\ r.pinned /\ c \in r.searched)
           /\ ~(r.stage = "Late" /\ r.pinned /\ r.lane = c)
  <2>1. s = r
    BY <1>4, Zenon DEF OnDown
  <2> HIDE DEF s
  <2>2. Kept(s, b) /\ Goes(r, s, d)
    BY <2>1, StaysGoes, Zenon
  <2> QED BY <2>1, <2>2, Zenon DEF s
<1> QED BY <1>1, <1>2, <1>3, <1>4, Zenon

\* followed_handover.
LEMMA FollowedHandoverKept ==
    ASSUME NEW r \in InFlight, NEW b \in Backends, NEW gen \in Nat, NEW request \in BOOLEAN,
           NEW past \in BOOLEAN, NEW L \in SUBSET Conns, NEW c \in MaybeConn,
           (c = NoConn <=> L = {}), Kept(r, b), r.stage \notin {"Idle", "Done"}
    PROVE  LET s == FollowedHandover(r, gen, request, past, L, c)
           IN  Kept(s, b) /\ Goes(r, s, c)
<1> DEFINE s == FollowedHandover(r, gen, request, past, L, c)
           a == IF request THEN "request" ELSE "direct"
           stage == IF request THEN "Request" ELSE "Direct"
           where == IF r.att[a].moved # NoConn THEN r.att[a].moved ELSE r.via
           read == [r EXCEPT !.att[a].moved = NoConn]
           moves == [read EXCEPT !.via = where]
<1>0. s \in InFlight
  BY FollowedHandoverType, Zenon
<1>1. CASE r.gen # gen \/ r.stage # stage
  <2>1. s = r
    BY <1>1, Zenon DEF FollowedHandover
  <2> HIDE DEF s
  <2>2. Kept(s, b) /\ Goes(r, s, c)
    BY <2>1, StaysGoes, Zenon
  <2> QED BY <2>2, Zenon DEF s
<1>2. CASE r.gen = gen /\ r.stage = stage /\ r.att[a].state = "lost"
  <2>1. s = IF request THEN Search(r, FALSE, past, L, c) ELSE WaitLate(r, FALSE)
    BY <1>2, Zenon DEF FollowedHandover
  <2>2. Books(r, b) /\ Timed3(r, 3) /\ ~r.listed /\ (request => MayArm(r, FALSE, 2))
    BY <1>2, KeptGoes, Zenon
  <2>3. CASE request
    <3>1. r.out["search"] = 0 /\ r.out["direct"] = 0
      BY <1>2, <2>3, Zenon DEF Kept
    <3>2. Result(s, b, 2, c)
      BY <1>2, <2>1, <2>2, <2>3, <3>1, SearchKept, Zenon
    <3>3. StageRank(r) <= 2
      BY <1>2, <2>3, Ranks
    <3> HIDE DEF s
    <3>4. Kept(s, b) /\ Goes(r, s, c)
      BY <1>0, <1>2, <2>2, <2>3, <3>2, <3>3, ResultGoes, Zenon
    <3> QED BY <3>4, Zenon DEF s
  <2>4. CASE ~request
    <3>1. Result(s, b, 4, c)
      BY <1>2, <2>1, <2>2, <2>4, WaitLateKept, Zenon
    <3>2. StageRank(r) <= 4
      BY <1>2, <2>4, Ranks
    <3> HIDE DEF s
    <3>3. Kept(s, b) /\ Goes(r, s, c)
      BY <1>0, <1>2, <2>2, <2>4, <3>1, <3>2, ResultGoes, Zenon
    <3> QED BY <3>3, Zenon DEF s
  <2> QED BY <2>3, <2>4, Zenon
<1>3. CASE r.gen = gen /\ r.stage = stage /\ r.att[a].state # "lost"
  <2>1. s = IF where \notin L THEN Lost(read, past, L, c) ELSE moves
    BY <1>3, Zenon DEF FollowedHandover
  <2>2. r.stage \in {"Request", "Direct"}
    BY <1>3, Zenon
  <2>3. a \in Attempt /\ r.att[a] \in Copy
    BY Zenon DEF Attempt, InFlight
  <2> HIDE DEF a, s
  <2>4. /\ read \in InFlight /\ SameBooks(r, read) /\ read.gen = r.gen /\ read.timer = r.timer
    <3>1. [r.att EXCEPT ![a].moved = NoConn] \in [Attempt -> Copy]
      BY <2>3, ZenonT(20) DEF InFlight, Copy, MaybeConn
    <3> QED BY <2>3, <3>1, Zenon DEF InFlight, SameBooks
  <2> HIDE DEF read, where
  <2>5. /\ Kept(read, b) /\ StageRank(read) = StageRank(r) /\ read.stage = r.stage
        /\ read.listed = r.listed
    BY <2>4, SameBooksKept DEF InFlight, SameBooks
  <2>6. ASSUME where \notin L PROVE Kept(s, b) /\ Goes(r, s, c)
    <3>1. Result(s, b, IF r.stage = "Request" THEN 2 ELSE 4, c)
      BY <2>1, <2>2, <2>4, <2>5, <2>6, LostKept, Zenon
    <3>2. StageRank(r) <= (IF r.stage = "Request" THEN 2 ELSE 4) /\ ~r.listed
      <4>1. ~r.listed
        BY <2>2, KeptGoes, Zenon
      <4> QED BY <2>2, <4>1, Ranks
    <3>3. s \in InFlight
      BY <1>0, Zenon DEF s
    <3> QED BY <2>2, <3>1, <3>2, <3>3, ResultGoes, Zenon
  <2>7. ASSUME where \in L PROVE Kept(s, b) /\ Goes(r, s, c)
    <3>1. SameBooks(read, s) /\ s.gen = read.gen /\ s.timer = read.timer
      BY <2>1, <2>4, <2>7, Zenon DEF InFlight, SameBooks
    <3>2. Kept(s, b) /\ StageRank(s) = StageRank(read)
      BY <2>4, <2>5, <3>1, SameBooksKept DEF InFlight
    <3>3. StageRank(r) <= StageRank(s)
      BY <2>5, <3>2, Ranks
    <3> QED BY <2>2, <2>5, <3>1, <3>2, <3>3, Zenon DEF Goes, SameBooks
  <2> QED BY <2>6, <2>7, Zenon DEF s
<1> QED BY <1>1, <1>2, <1>3, Zenon

\* query_deadline.
LEMMA QueryDeadlineKept ==
    ASSUME NEW r \in InFlight, NEW b \in Backends, NEW L \in SUBSET Conns,
           NEW c \in MaybeConn, (c = NoConn <=> L = {}), Kept(r, b),
           r.stage \notin {"Idle", "Done"}
    PROVE  LET s == QueryDeadline(r, L, c)
           IN  Kept(s, b) /\ Goes(r, s, c)
<1> DEFINE s == QueryDeadline(r, L, c)
           fired == [r EXCEPT !.timer = FALSE]
           t == [fired EXCEPT !.taken = TRUE]
<1>0. s \in InFlight
  BY QueryDeadlineType, Zenon
<1>1. /\ fired \in InFlight /\ SameBooks(r, fired) /\ fired.gen = r.gen
  BY Zenon DEF InFlight, SameBooks
<1>2. /\ Books(r, b) /\ Timed3(r, 3) /\ (r.stage # "Waiting" => ~r.listed)
      /\ r.stage = "Request" => MayArm(r, FALSE, 2)
  BY KeptGoes, Zenon
<1>3. s = CASE r.stage = "Request" -> Search(t, FALSE, TRUE, L, c)
            [] r.stage = "Waiting" -> Finish(fired, "NotConnected")
            [] OTHER -> Finish(fired, "TimedOut")
  BY Zenon DEF QueryDeadline
<1> HIDE DEF fired, s
<1>4. CASE r.stage = "Request"
  <2>1. s = Search(t, FALSE, TRUE, L, c)
    BY <1>3, <1>4, Zenon
  <2>2. /\ t \in InFlight /\ t.stage = r.stage /\ t.out = r.out /\ t.told = r.told
        /\ t.watched = r.watched /\ t.gen = r.gen /\ t.listed = r.listed /\ t.taken = TRUE
    BY <1>1, Zenon DEF InFlight, SameBooks
  <2> HIDE DEF t
  <2>3. Books(t, b)
    BY <1>2, <1>4, <2>2, ZenonT(40) DEF Books, Kept
  <2>4. MayArm(t, FALSE, 2) /\ t.out["search"] = 0 /\ t.out["direct"] = 0
    BY <1>2, <1>4, <2>2, Zenon DEF MayArm, Kept
  <2>5. Result(s, b, 2, c)
    BY <1>2, <1>4, <2>1, <2>2, <2>3, <2>4, SearchKept, Zenon
  <2>6. StageRank(r) <= 2
    BY <1>4, Ranks
  <2>7. s \in InFlight
    BY <1>0, Zenon DEF s
  <2> QED BY <1>2, <1>4, <2>5, <2>6, <2>7, ResultGoes, Zenon DEF s
<1>5. CASE r.stage # "Request"
  <2>1. PICK o \in {"NotConnected", "TimedOut"} : s = Finish(fired, o)
    BY <1>3, <1>5, Zenon
  <2>2. Books(fired, b) /\ fired.stage # "Done" /\ fired.gen <= 3
    BY <1>1, <1>2, SameBooksHold, Zenon DEF SameBooks, Timed3
  <2>3. Kept(s, b) /\ s.stage = "Done" /\ s.listed = fired.listed
    BY <1>1, <2>1, <2>2, FinishKept, Zenon DEF Outcome
  <2>4. s \in InFlight /\ fired.listed = r.listed
    BY <1>0, <1>1, Zenon DEF s, SameBooks
  <2>5. StageRank(r) <= StageRank(s)
    BY <2>3, <2>4, Ranks
  <2> QED BY <2>3, <2>4, <2>5, Zenon DEF Goes, s
<1> QED BY <1>4, <1>5, Zenon

\* restart_waiting_queries, for a query that waits: it waits on only when no
\* connection lives.
LEMMA RestartKept ==
    ASSUME NEW r \in InFlight, NEW b \in Backends, NEW past \in BOOLEAN,
           NEW L \in SUBSET Conns, NEW c \in MaybeConn, (c = NoConn <=> L = {}),
           Kept(r, b), r.stage = "Waiting"
    PROVE  LET s == Restart(r, past, L, c)
           IN  Result(s, b, StageRank(r), c)
<1> DEFINE s == Restart(r, past, L, c)
           u == [r EXCEPT !.listed = FALSE]
<1>1. /\ u \in InFlight /\ u.stage = r.stage /\ u.out = r.out /\ u.told = r.told
      /\ u.watched = r.watched /\ u.gen = r.gen /\ u.taken = r.taken /\ ~u.listed
      /\ u.timed = r.timed /\ u.timer = r.timer
  BY Zenon DEF InFlight
<1>2. s = CASE r.resume = "Search" -> Search(u, TRUE, past, L, c)
            [] r.resume = "Direct" -> SendDirect(u, NoConn, TRUE, L, c)
            [] OTHER -> StartRequest(u, TRUE, L, c)
  BY Zenon DEF Restart
<1> HIDE DEF u
<1>3. Books(u, b)
  BY <1>1, Zenon DEF Books, Kept
<1>4. CASE r.resume = "Search"
  <2>1. MayArm(u, TRUE, 2) /\ u.out["search"] = 0 /\ u.out["direct"] = 0
    BY <1>1, <1>4, Zenon DEF Kept, MayArm, Timed3
  <2>2. Result(s, b, 2, c)
    BY <1>1, <1>2, <1>3, <1>4, <2>1, SearchKept, Zenon
  <2> QED BY <1>4, <2>2, Ranks, Zenon
<1>5. CASE r.resume = "Direct"
  <2>1. MayArm(u, TRUE, 3) /\ u.out["direct"] = 0
    BY <1>1, <1>5, Zenon DEF Kept, MayArm, Timed3
  <2>2. s = SendDirect(u, NoConn, TRUE, L, c)
    BY <1>2, <1>5, Zenon
  <2>3. Result(s, b, 3, c)
    BY <1>1, <1>3, <2>1, <2>2, SendDirectKept, ZenonT(40) DEF MaybeConn
  <2> QED BY <1>5, <2>3, Ranks, Zenon
<1>6. CASE r.resume = "Request"
  <2>1. MayArm(u, TRUE, 1) /\ \A m \in Messages : u.out[m] = 0
    BY <1>1, <1>6, Zenon DEF Kept, MayArm, Timed3, Messages
  <2>2. Result(s, b, 1, c)
    BY <1>1, <1>2, <1>3, <1>6, <2>1, StartRequestKept, Zenon
  <2> QED BY <1>6, <2>2, Ranks, Zenon
<1> QED BY <1>4, <1>5, <1>6, Zenon DEF InFlight

-----------------------------------------------------------------------------
(* What a query knows of its attempts.  NoFalseFailure is not inductive:   *)
(* the step that ends a query relies on what it noted about its attempts   *)
(* at earlier stages, which is HopeRemembered.                             *)

\* What the next stage relies on: each attempt a multiplexer has was sent, and
\* the query has not failed.
Going(r, b) ==
    /\ r.outcome # "Failed" /\ r.stage # "Done"
    /\ \A a \in Attempt : b[a] # "none" => r.att[a].state = "sent"

\* It is past its request too: it knows whether that may be answered.
Onward(r, b) ==
    /\ Going(r, b) /\ r.att["direct"].state = "none"
    /\ ~r.taken => Hopeless(r, b, "request")

\* Records that differ in nothing that matters here.
Alike(r, s) ==
    /\ s.stage = r.stage /\ s.resume = r.resume /\ s.att = r.att
    /\ s.taken = r.taken /\ s.pending = r.pending /\ s.outcome = r.outcome

\* The timer, the listing and the search's answers do not matter here.
LEMMA AlikeRecords ==
    ASSUME NEW r \in InFlight
    PROVE  /\ \A keep \in BOOLEAN : Alike(r, ArmUnless(keep, r))
           /\ Alike(r, [r EXCEPT !.timer = FALSE])
           /\ Alike(r, [r EXCEPT !.listed = FALSE])
           /\ \A c : Alike(r, [r EXCEPT !.searched = @ \ {c}])
BY Zenon DEF Alike, ArmUnless, Arm, InFlight

\* What is said of a record holds of one alike.
LEMMA AlikeHope ==
    ASSUME NEW r, NEW s, NEW b, Alike(r, s)
    PROVE  /\ Going(r, b) => Going(s, b)
           /\ Onward(r, b) => Onward(s, b)
           /\ RemembersHope(r, b) => RemembersHope(s, b)
BY Zenon DEF Alike, Going, Onward, RemembersHope, Hopeless

\* What finish does to them.
LEMMA FinishKeeps ==
    ASSUME NEW r \in InFlight, r.stage # "Done", NEW o \in Outcome
    PROVE  LET s == Finish(r, o)
           IN  s.stage = "Done" /\ s.att = r.att /\ s.outcome = o
BY Zenon DEF Finish, InFlight

\* A query may end with any outcome but Failed, and with Failed when no attempt
\* can be answered.
LEMMA FinishHope ==
    ASSUME NEW r \in InFlight, NEW b \in Backends, NEW o \in Outcome, Going(r, b),
           o = "Failed" => \A a \in Attempt : Hopeless(r, b, a)
    PROVE  RemembersHope(Finish(r, o), b)
<1>1. /\ Finish(r, o).stage = "Done" /\ Finish(r, o).att = r.att
      /\ Finish(r, o).outcome = o
  BY FinishKeeps, Zenon DEF Going
<1> QED BY <1>1, Zenon DEF RemembersHope, Hopeless, Going

\* wait_for_connection, before the stage it will resume at.
LEMMA WaitHope ==
    ASSUME NEW r \in InFlight, NEW b \in Backends, Going(r, b),
           NEW resume \in {"Request", "Search", "Direct"},
           r.att["direct"].state = "none",
           resume = "Request" => r.att["request"].state = "none",
           resume # "Request" /\ ~r.taken => Hopeless(r, b, "request")
    PROVE  RemembersHope(WaitForConnection(r, resume), b)
<1> DEFINE s == WaitForConnection(r, resume)
<1>1. /\ s.stage = "Waiting" /\ s.resume = resume /\ s.att = r.att
      /\ s.taken = r.taken /\ s.outcome = r.outcome
  BY Zenon DEF WaitForConnection, InFlight
<1> HIDE DEF s
<1>2. RemembersHope(s, b)
  BY <1>1, Zenon DEF RemembersHope, Hopeless, Going
<1> QED BY <1>2, Zenon DEF s

\* An attempt not made before goes into the outbox.
LEMMA PlacedHope ==
    ASSUME NEW r \in InFlight, NEW b \in Backends, Going(r, b), NEW a \in Attempt,
           NEW c \in MaybeConn, r.att[a].state = "none", r.att["direct"].state = "none",
           a = "direct" /\ ~r.taken => Hopeless(r, b, "request")
    PROVE  RemembersHope(Placed(r, a, IF a = "request" THEN "Request" ELSE "Direct", c), b)
<1> DEFINE s == Placed(r, a, IF a = "request" THEN "Request" ELSE "Direct", c)
<1>1. /\ s.stage = IF a = "request" THEN "Request" ELSE "Direct"
      /\ s.taken = r.taken /\ s.outcome = r.outcome
      /\ s.att = [r.att EXCEPT ![a] = [state |-> "queued", at |-> c, moved |-> NoConn]]
  BY Zenon DEF Placed, InFlight
<1>2. r.att \in [Attempt -> Copy]
  BY Zenon DEF InFlight
<1>3. b[a] = "none"
  BY Zenon DEF Going
<1> HIDE DEF s
<1>4. RemembersHope(s, b)
  BY <1>1, <1>2, <1>3, Zenon DEF RemembersHope, Hopeless, Going, Attempt
<1> QED BY <1>4, Zenon DEF s

\* start_request, of a query with no attempt yet.
LEMMA StartRequestHope ==
    ASSUME NEW r \in InFlight, NEW b \in Backends, NEW keep \in BOOLEAN,
           NEW L \in SUBSET Conns, NEW c \in MaybeConn,
           Going(r, b), \A a \in Attempt : r.att[a].state = "none"
    PROVE  RemembersHope(StartRequest(r, keep, L, c), b)
<1>1. Through(r, c) \in MaybeConn
  BY Zenon DEF Through, InFlight
<1>2. RemembersHope(Finish(r, "NotConnected"), b)
  BY FinishHope, Zenon DEF Outcome
<1>3. RemembersHope(ArmUnless(keep, WaitForConnection(r, "Request")), b)
  <2>1. RemembersHope(WaitForConnection(r, "Request"), b)
    BY WaitHope, Zenon DEF Attempt
  <2> QED BY <2>1, WaitForConnectionType, AlikeRecords, AlikeHope, Zenon
<1>4. ASSUME Through(r, c) # NoConn
      PROVE  RemembersHope(ArmUnless(keep, Placed(r, "request", "Request", Through(r, c))), b)
  <2>1. RemembersHope(Placed(r, "request", "Request", Through(r, c)), b)
    BY <1>1, PlacedHope, Zenon DEF Attempt
  <2>2. Placed(r, "request", "Request", Through(r, c)) \in InFlight
    BY <1>1, <1>4, PlacedType, Zenon DEF MaybeConn, Attempt, Stage
  <2> QED BY <2>1, <2>2, AlikeRecords, AlikeHope, Zenon
<1> QED BY <1>2, <1>3, <1>4, Zenon DEF StartRequest

\* search, of a query past its request.
LEMMA SearchHope ==
    ASSUME NEW r \in InFlight, NEW b \in Backends, NEW keep \in BOOLEAN, NEW past \in BOOLEAN,
           NEW L \in SUBSET Conns, NEW c \in MaybeConn, Onward(r, b)
    PROVE  RemembersHope(Search(r, keep, past, L, c), b)
<1> DEFINE armed == ArmUnless(keep, r)
           sent == IF r.pinned THEN {Through(r, c)} \ {NoConn} ELSE L
           goes == [armed EXCEPT !.stage = "Search", !.searched = sent,
                                 !.watched = @ \cup {"search"}, !.out["search"] = Inc(@)]
<1>1. armed \in InFlight /\ Onward(armed, b)
  BY ArmType, AlikeRecords, AlikeHope, Zenon
<1>2. RemembersHope(Finish(r, "TimedOut"), b)
  BY FinishHope, Zenon DEF Outcome, Onward
<1>3. RemembersHope(Finish(armed, "NotConnected"), b)
  <2> HIDE DEF armed
  <2> QED BY <1>1, FinishHope, Zenon DEF Outcome, Onward
<1>4. RemembersHope(WaitForConnection(armed, "Search"), b)
  <2> HIDE DEF armed
  <2> QED BY <1>1, WaitHope, Zenon DEF Onward
<1>5. RemembersHope(goes, b)
  <2> HIDE DEF armed, sent
  <2>1. /\ goes.stage = "Search" /\ goes.att = armed.att
        /\ goes.taken = armed.taken /\ goes.outcome = armed.outcome
    BY <1>1, Zenon DEF InFlight
  <2> HIDE DEF goes
  <2> QED BY <1>1, <2>1, Zenon DEF RemembersHope, Onward, Going, Hopeless
<1> QED BY <1>2, <1>3, <1>4, <1>5, Zenon DEF Search

\* wait_late: the attempts left out of the wait cannot be answered.
LEMMA WaitLateHope ==
    ASSUME NEW r \in InFlight, NEW b \in Backends, NEW direct \in BOOLEAN, Going(r, b),
           ~r.taken => Hopeless(r, b, "request"),
           ~direct => Hopeless(r, b, "direct")
    PROVE  RemembersHope(WaitLate(r, direct), b)
<1> DEFINE pending == {a \in Attempt :
                         /\ r.att[a].state # "lost"
                         /\ IF a = "request" THEN r.taken ELSE direct}
           waits == [r EXCEPT !.pending = pending]
<1>1. ASSUME NEW a \in Attempt \ pending PROVE Hopeless(r, b, a)
  BY Zenon DEF Attempt, Going, Hopeless
<1>2. pending \in SUBSET Attempt
  BY Zenon
<1> HIDE DEF pending
<1>3. /\ waits \in InFlight /\ waits.stage = r.stage /\ waits.att = r.att
      /\ waits.outcome = r.outcome /\ waits.pending = pending
  BY <1>2, Zenon DEF InFlight
<1>4. pending = {} => RemembersHope(Finish(waits, "Failed"), b)
  <2> HIDE DEF waits
  <2> QED BY <1>1, <1>3, FinishHope, Zenon DEF Outcome, Going, Hopeless
<1>5. RemembersHope([waits EXCEPT !.stage = "Late"], b)
  <2> HIDE DEF waits
  <2> DEFINE late == [waits EXCEPT !.stage = "Late"]
  <2>1. /\ late.stage = "Late" /\ late.att = r.att /\ late.pending = pending
        /\ late.outcome = r.outcome
    BY <1>3, Zenon DEF InFlight
  <2> HIDE DEF late
  <2>2. RemembersHope(late, b)
    BY <1>1, <2>1, Zenon DEF RemembersHope, Going, Hopeless
  <2> QED BY <2>2, Zenon DEF late
<1> QED BY <1>4, <1>5, Zenon DEF WaitLate, pending

\* send_direct, of a query past its request.
LEMMA SendDirectHope ==
    ASSUME NEW r \in InFlight, NEW b \in Backends, NEW preferred, NEW keep \in BOOLEAN,
           NEW L \in SUBSET Conns, NEW c \in MaybeConn, Onward(r, b)
    PROVE  RemembersHope(SendDirect(r, preferred, keep, L, c), b)
<1> DEFINE armed == ArmUnless(keep, r)
<1>1. armed \in InFlight /\ Onward(armed, b)
  BY ArmType, AlikeRecords, AlikeHope, Zenon
<1>2. Through(r, c) \in MaybeConn
  BY ZenonT(20) DEF Through, InFlight
<1> HIDE DEF armed
<1>3. RemembersHope(Finish(armed, "NotConnected"), b)
  BY <1>1, FinishHope, Zenon DEF Outcome, Onward
<1>4. RemembersHope(WaitForConnection(armed, "Direct"), b)
  BY <1>1, WaitHope, Zenon DEF Onward
<1>5. ASSUME NEW d \in MaybeConn PROVE RemembersHope(Placed(armed, "direct", "Direct", d), b)
  BY <1>1, PlacedHope, Zenon DEF Onward, Attempt
<1> QED BY <1>2, <1>3, <1>4, <1>5, Zenon DEF SendDirect, armed, MaybeConn

\* A query in flight has not failed; past its request it knows about it.
LEMMA HopeGoing ==
    ASSUME NEW r, NEW b, RemembersHope(r, b), r.stage # "Done"
    PROVE  /\ Going(r, b)
           /\ r.stage = "Search" \/ (r.stage = "Waiting" /\ r.resume # "Request") => Onward(r, b)
BY Zenon DEF RemembersHope, Going, Onward

\* lost, of an attempt that may have been taken.
LEMMA LostHope ==
    ASSUME NEW r \in InFlight, NEW b \in Backends, NEW past \in BOOLEAN,
           NEW L \in SUBSET Conns, NEW c \in MaybeConn,
           RemembersHope(r, b), r.stage \in {"Request", "Direct"}
    PROVE  RemembersHope(Lost(r, past, L, c), b)
<1>1. Going(r, b)
  BY HopeGoing, Zenon
<1>2. RemembersHope(Finish(r, "NotConnected"), b)
  BY <1>1, FinishHope, Zenon DEF Outcome
<1>3. r.stage = "Request" => RemembersHope(Search([r EXCEPT !.taken = TRUE], FALSE, past, L, c), b)
  <2> DEFINE t == [r EXCEPT !.taken = TRUE]
  <2>1. /\ t \in InFlight /\ t.att = r.att /\ t.outcome = r.outcome /\ t.stage = r.stage
        /\ t.taken = TRUE
    BY Zenon DEF InFlight
  <2> HIDE DEF t
  <2>2. r.stage = "Request" => Onward(t, b)
    BY <1>1, <2>1, Zenon DEF Going, Onward, RemembersHope
  <2>3. r.stage = "Request" => RemembersHope(Search(t, FALSE, past, L, c), b)
    BY <2>1, <2>2, SearchHope, Zenon
  <2> QED BY <2>3, Zenon DEF t
<1>4. r.stage = "Direct" => RemembersHope(WaitLate(r, TRUE), b)
  BY <1>1, WaitLateHope, Zenon DEF RemembersHope
<1> QED BY <1>2, <1>3, <1>4, Zenon DEF Lost

\* refused: the attempt the delivery error is for cannot be answered.
LEMMA RefusedHope ==
    ASSUME NEW r \in InFlight, NEW b \in Backends, NEW a \in Attempt, NEW past \in BOOLEAN,
           NEW L \in SUBSET Conns, NEW c \in MaybeConn,
           RemembersHope(r, b), r.stage \notin {"Idle", "Done"}, b[a] = "bounced"
    PROVE  RemembersHope(Refused(r, a, past, L, c), [b EXCEPT ![a] = "struck"])
<1> DEFINE b2 == [b EXCEPT ![a] = "struck"]
           struck == IF a = "request" THEN [r EXCEPT !.taken = FALSE] ELSE r
           left == r.pending \ {a}
<1>1. b2 \in Backends /\ b2[a] = "struck" /\ \A o \in Attempt \ {a} : b2[o] = b[o]
  BY Zenon DEF Backends, Holder
<1>2. /\ struck \in InFlight /\ struck.att = r.att /\ struck.stage = r.stage
      /\ struck.resume = r.resume /\ struck.outcome = r.outcome /\ struck.pending = r.pending
      /\ a # "request" => struck.taken = r.taken
  BY Zenon DEF InFlight
<1>3. Hopeless(r, b2, a) /\ r.att[a].state = "sent" /\ r.outcome # "Failed"
  BY <1>1, Zenon DEF Hopeless, RemembersHope
<1>4. \A o \in Attempt : Hopeless(r, b, o) => Hopeless(r, b2, o)
  BY <1>1, <1>3, Zenon DEF Hopeless
<1>5. \A o \in Attempt : Hopeless(struck, b2, o) <=> Hopeless(r, b2, o)
  BY <1>2, Zenon DEF Hopeless
<1>6. a \in {"request", "direct"} /\ {"request", "direct"} = Attempt
  BY Zenon DEF Attempt
<1> HIDE DEF b2, struck
<1>7. Going(struck, b2)
  BY <1>1, <1>2, <1>3, Zenon DEF Going, RemembersHope
<1>8. CASE r.stage = "Request" /\ a = "request"
  <2>1. Onward(struck, b2)
    BY <1>2, <1>3, <1>5, <1>7, <1>8, Zenon DEF Onward, RemembersHope
  <2> QED BY <1>1, <1>2, <1>8, <2>1, SearchHope, Zenon DEF Refused, b2, struck
<1>9. CASE r.stage = "Direct" /\ a = "direct"
  <2>1. ~struck.taken => Hopeless(struck, b2, "request")
    BY <1>2, <1>4, <1>5, <1>6, <1>9, Zenon DEF RemembersHope
  <2>2. Hopeless(struck, b2, "direct")
    BY <1>3, <1>5, <1>6, <1>9, Zenon
  <2>3. RemembersHope(WaitLate(struck, FALSE), b2)
    BY <1>1, <1>2, <1>7, <2>1, <2>2, WaitLateHope, Zenon
  <2> QED BY <1>9, <2>3, Zenon DEF Refused, b2, struck
<1>10. CASE r.stage = "Late"
  <2>1. \A o \in Attempt \ left : Hopeless(struck, b2, o)
    BY <1>3, <1>4, <1>5, <1>10, Zenon DEF RemembersHope
  <2>2. left \in SUBSET Attempt
    BY Zenon DEF InFlight
  <2> HIDE DEF left
  <2>3. ASSUME NEW p \in SUBSET Attempt
        PROVE  LET s == [struck EXCEPT !.pending = p]
               IN  /\ s \in InFlight /\ s.att = r.att /\ s.stage = r.stage
                   /\ s.outcome = r.outcome /\ s.pending = p
    BY <1>2, Zenon DEF InFlight
  <2>4. ASSUME left = {} PROVE RemembersHope(Finish([struck EXCEPT !.pending = {}], "Failed"), b2)
    <3> DEFINE s == [struck EXCEPT !.pending = {}]
    <3>1. /\ s \in InFlight /\ s.att = r.att /\ s.stage = r.stage /\ s.outcome = r.outcome
      BY <2>3, Zenon
    <3> HIDE DEF s
    <3>2. Going(s, b2) /\ \A o \in Attempt : Hopeless(s, b2, o)
      BY <1>2, <1>7, <2>1, <2>4, <3>1, Zenon DEF Going, Hopeless
    <3>3. RemembersHope(Finish(s, "Failed"), b2)
      BY <1>1, <3>1, <3>2, FinishHope, Zenon DEF Outcome
    <3> QED BY <3>3, Zenon DEF s
  <2>5. RemembersHope([struck EXCEPT !.pending = left], b2)
    <3> DEFINE s == [struck EXCEPT !.pending = left]
    <3>1. /\ s.att = r.att /\ s.stage = r.stage /\ s.outcome = r.outcome /\ s.pending = left
      BY <2>2, <2>3, Zenon
    <3> HIDE DEF s
    <3>2. RemembersHope(s, b2)
      BY <1>2, <1>3, <1>7, <1>10, <2>1, <3>1 DEF Going, Hopeless, RemembersHope
    <3> QED BY <3>2, Zenon DEF s
  <2> QED BY <1>10, <2>4, <2>5, Zenon DEF Refused, b2, struck, left
<1>11. CASE /\ ~(r.stage = "Request" /\ a = "request")
            /\ ~(r.stage = "Direct" /\ a = "direct") /\ r.stage # "Late"
  <2>1. RemembersHope(struck, b2)
    BY <1>1, <1>2, <1>3, <1>4, <1>5, <1>6, <1>7, <1>11, ZenonT(20) DEF RemembersHope, Going
  <2> QED BY <1>11, <2>1, Zenon DEF Refused, b2, struck
<1> QED BY <1>8, <1>9, <1>10, <1>11, Zenon

\* Copies change state only by being given up on unwritten.
OnlyLapses(old, new) ==
    \A a \in Attempt : new[a].state # old[a].state =>
                           old[a].state = "queued" /\ new[a].state = "lost"

\* The outbox moves a copy or gives up one not written: nothing to remember.
LEMMA CopiesHope ==
    ASSUME NEW r, NEW s, NEW b, RemembersHope(r, b),
           s.stage = r.stage, s.resume = r.resume, s.taken = r.taken,
           s.pending = r.pending, s.outcome = r.outcome,
           OnlyLapses(r.att, s.att)
    PROVE  RemembersHope(s, b)
<1>1. \A a \in Attempt : Hopeless(r, b, a) => Hopeless(s, b, a)
  BY Zenon DEF Hopeless, OnlyLapses
<1>2. \A a \in Attempt :
        /\ b[a] # "none" => s.att[a].state = "sent"
        /\ r.att[a].state = "none" => s.att[a].state = "none"
  BY Zenon DEF RemembersHope, OnlyLapses
<1>3. "request" \in Attempt /\ "direct" \in Attempt
  BY Zenon DEF Attempt
<1>4. s.outcome = "Failed" => s.stage = "Done" /\ \A a \in Attempt : Hopeless(s, b, a)
  BY <1>1, Zenon DEF RemembersHope
<1>5. s.stage = "Late" => \A a \in Attempt \ s.pending : Hopeless(s, b, a)
  BY <1>1, Zenon DEF RemembersHope
<1>6. /\ ~s.taken
      /\ s.stage \in {"Search", "Direct"} \/ (s.stage = "Waiting" /\ s.resume # "Request")
      => Hopeless(s, b, "request")
  BY <1>1, <1>3, ZenonT(20) DEF RemembersHope
<1>7. /\ s.stage \in {"Idle", "Request", "Search", "Waiting"} => s.att["direct"].state = "none"
      /\ s.stage = "Idle" \/ (s.stage = "Waiting" /\ s.resume = "Request") =>
            s.att["request"].state = "none"
  BY <1>2, <1>3, Zenon DEF RemembersHope
<1> QED BY <1>2, <1>4, <1>5, <1>6, <1>7, Zenon DEF RemembersHope

\* The same, of a record whose copies are replaced.
LEMMA AttHope ==
    ASSUME NEW r \in InFlight, NEW b, RemembersHope(r, b), NEW att,
           OnlyLapses(r.att, att)
    PROVE  RemembersHope([r EXCEPT !.att = att], b)
<1> DEFINE s == [r EXCEPT !.att = att]
<1>1. /\ s.stage = r.stage /\ s.resume = r.resume /\ s.taken = r.taken
      /\ s.pending = r.pending /\ s.outcome = r.outcome /\ s.att = att
  BY Zenon DEF InFlight
<1> HIDE DEF s
<1>2. RemembersHope(s, b)
  BY <1>1, CopiesHope, Zenon
<1> QED BY <1>2, Zenon DEF s

\* queries_on_connection.
LEMMA OnDownHope ==
    ASSUME NEW r \in InFlight, NEW b \in Backends, NEW c \in Conns, NEW past \in BOOLEAN,
           NEW L \in SUBSET Conns, NEW d \in MaybeConn, RemembersHope(r, b)
    PROVE  RemembersHope(OnDown(r, c, past, L, d), b)
<1>1. r.stage \in {"Request", "Direct"} => RemembersHope(Lost(r, past, L, d), b)
  BY LostHope, Zenon
<1>2. r.stage = "Search" => RemembersHope(Finish([r EXCEPT !.searched = @ \ {c}], "NotConnected"), b)
  <2>1. [r EXCEPT !.searched = @ \ {c}] \in InFlight /\ Alike(r, [r EXCEPT !.searched = @ \ {c}])
    BY AnsweredType, AlikeRecords, Zenon
  <2> QED BY <2>1, AlikeHope, HopeGoing, FinishHope, Zenon DEF Outcome
<1>3. r.stage = "Late" => RemembersHope(Finish(r, "NotConnected"), b)
  BY HopeGoing, FinishHope, Zenon DEF Outcome
<1> QED BY <1>1, <1>2, <1>3, Zenon DEF OnDown

\* followed_handover.
LEMMA FollowedHandoverHope ==
    ASSUME NEW r \in InFlight, NEW b \in Backends, NEW gen \in Nat, NEW request \in BOOLEAN,
           NEW past \in BOOLEAN, NEW L \in SUBSET Conns, NEW c \in MaybeConn,
           RemembersHope(r, b)
    PROVE  RemembersHope(FollowedHandover(r, gen, request, past, L, c), b)
<1> DEFINE a == IF request THEN "request" ELSE "direct"
           stage == IF request THEN "Request" ELSE "Direct"
           where == IF r.att[a].moved # NoConn THEN r.att[a].moved ELSE r.via
           read == [r EXCEPT !.att[a].moved = NoConn]
           moves == [read EXCEPT !.via = where]
<1>1. a \in Attempt /\ r.att[a] \in Copy /\ r.att \in [Attempt -> Copy]
  BY Zenon DEF Attempt, InFlight
<1>2. r.att[a].state = "lost" => Hopeless(r, b, a)
  BY <1>1, Zenon DEF Hopeless, RemembersHope
<1>3. ASSUME r.stage = "Request", request, r.att[a].state = "lost"
      PROVE  RemembersHope(Search(r, FALSE, past, L, c), b)
  <2>1. Onward(r, b)
    BY <1>2, <1>3, HopeGoing, Zenon DEF Onward, RemembersHope
  <2> QED BY <2>1, SearchHope, Zenon
<1>4. ASSUME r.stage = "Direct", ~request, r.att[a].state = "lost"
      PROVE  RemembersHope(WaitLate(r, FALSE), b)
  <2>1. Going(r, b) /\ Hopeless(r, b, "direct") /\ (~r.taken => Hopeless(r, b, "request"))
    BY <1>2, <1>4, HopeGoing, Zenon DEF RemembersHope
  <2> QED BY <2>1, WaitLateHope, Zenon
<1> HIDE DEF a
<1>5. /\ read \in InFlight /\ read.stage = r.stage /\ read.resume = r.resume
      /\ read.taken = r.taken /\ read.pending = r.pending /\ read.outcome = r.outcome
      /\ \A o \in Attempt : read.att[o].state = r.att[o].state
  <2>1. [r.att EXCEPT ![a].moved = NoConn] \in [Attempt -> Copy]
    BY <1>1, Zenon DEF Copy, MaybeConn
  <2>2. \A o \in Attempt : [r.att EXCEPT ![a].moved = NoConn][o].state = r.att[o].state
    BY <1>1, Zenon DEF Copy
  <2> QED BY <1>1, <2>1, <2>2, Zenon DEF InFlight
<1> HIDE DEF read, where
<1>6. RemembersHope(read, b)
  <2>1. OnlyLapses(r.att, read.att)
    BY <1>5, Zenon DEF OnlyLapses
  <2> QED BY <1>5, <2>1, CopiesHope, Zenon
<1>7. r.stage \in {"Request", "Direct"} => RemembersHope(Lost(read, past, L, c), b)
  BY <1>5, <1>6, LostHope, Zenon
<1>8. RemembersHope(moves, b)
  <2>1. /\ moves.stage = read.stage /\ moves.resume = read.resume /\ moves.att = read.att
        /\ moves.taken = read.taken /\ moves.pending = read.pending
        /\ moves.outcome = read.outcome
    BY <1>5, Zenon DEF InFlight
  <2> QED BY <1>6, <2>1, AlikeHope, Zenon DEF Alike
<1> QED BY <1>3, <1>4, <1>7, <1>8, Zenon DEF FollowedHandover, read, where, a

\* query_deadline.
LEMMA QueryDeadlineHope ==
    ASSUME NEW r \in InFlight, NEW b \in Backends, NEW L \in SUBSET Conns, NEW c \in MaybeConn,
           RemembersHope(r, b), r.stage \notin {"Idle", "Done"}
    PROVE  RemembersHope(QueryDeadline(r, L, c), b)
<1> DEFINE fired == [r EXCEPT !.timer = FALSE]
           t == [fired EXCEPT !.taken = TRUE]
<1>1. fired \in InFlight /\ fired.stage = r.stage /\ RemembersHope(fired, b) /\ Going(fired, b)
  <2>1. fired \in InFlight /\ Alike(r, fired)
    BY AlikeRecords, Zenon DEF InFlight
  <2> QED BY <2>1, AlikeHope, HopeGoing, Zenon DEF Alike
<1> HIDE DEF fired
<1>2. /\ t \in InFlight /\ t.att = fired.att /\ t.outcome = fired.outcome
      /\ t.stage = fired.stage /\ t.taken = TRUE
  BY <1>1, Zenon DEF InFlight
<1> HIDE DEF t
<1>3. r.stage = "Request" => RemembersHope(Search(t, FALSE, TRUE, L, c), b)
  <2>1. r.stage = "Request" => Onward(t, b)
    BY <1>1, <1>2, Zenon DEF Going, Onward, RemembersHope
  <2> QED BY <1>2, <2>1, SearchHope, Zenon
<1>4. RemembersHope(Finish(fired, "NotConnected"), b) /\ RemembersHope(Finish(fired, "TimedOut"), b)
  BY <1>1, FinishHope, Zenon DEF Outcome
<1> QED BY <1>3, <1>4, Zenon DEF QueryDeadline, fired, t

\* restart_waiting_queries, for one query.
LEMMA RestartHope ==
    ASSUME NEW r \in InFlight, NEW b \in Backends, NEW past \in BOOLEAN,
           NEW L \in SUBSET Conns, NEW c \in MaybeConn, RemembersHope(r, b)
    PROVE  RemembersHope(Restart(r, past, L, c), b)
<1> DEFINE unlisted == [r EXCEPT !.listed = FALSE]
<1>1. unlisted \in InFlight /\ Alike(r, unlisted)
  BY AlikeRecords, Zenon DEF InFlight
<1> HIDE DEF unlisted
<1>2. /\ RemembersHope(unlisted, b) /\ unlisted.stage = r.stage
      /\ unlisted.resume = r.resume /\ unlisted.att = r.att
  BY <1>1, AlikeHope, Zenon DEF Alike
<1>3. r.stage = "Waiting" /\ r.resume = "Search" =>
        RemembersHope(Search(unlisted, TRUE, past, L, c), b)
  BY <1>1, <1>2, HopeGoing, SearchHope, Zenon
<1>4. r.stage = "Waiting" /\ r.resume = "Direct" =>
        RemembersHope(SendDirect(unlisted, NoConn, TRUE, L, c), b)
  BY <1>1, <1>2, HopeGoing, SendDirectHope, Zenon
<1>5. r.stage = "Waiting" /\ r.resume \notin {"Search", "Direct"} =>
        RemembersHope(StartRequest(unlisted, TRUE, L, c), b)
  <2>1. ASSUME r.stage = "Waiting", r.resume \notin {"Search", "Direct"}
        PROVE  Going(unlisted, b) /\ \A a \in Attempt : unlisted.att[a].state = "none"
    BY <1>2, <2>1, HopeGoing, ZenonT(20) DEF RemembersHope, Attempt, InFlight
  <2> QED BY <1>1, <2>1, StartRequestHope, ZenonT(40)
<1> QED BY <1>2, <1>3, <1>4, <1>5, Zenon DEF Restart, unlisted

-----------------------------------------------------------------------------
\* An action that runs one query's handler.
LEMMA BecomesHope ==
    ASSUME TypeOK, HopeRemembered, NEW q \in Queries, NEW r, Becomes(q, r),
           RemembersHope(r, backend'[q]),
           \A p \in Queries \ {q} : backend'[p] = backend[p]
    PROVE  HopeRemembered'
<1>1. inflight' = [inflight EXCEPT ![q] = r]
  BY ZenonT(20) DEF Becomes
<1>2. inflight'[q] = r /\ \A p \in Queries \ {q} : inflight'[p] = inflight[p]
  BY <1>1, Zenon DEF TypeOK
<1> QED BY <1>2, ZenonT(20) DEF HopeRemembered

\* The outbox changes one copy, to c.
LEMMA SetCopyHope ==
    ASSUME TypeOK, HopeRemembered, NEW q \in Queries, NEW a \in Attempt, NEW p \in Copy,
           SetCopy(q, a, p), inflight[q].att[a].state = "queued", UNCHANGED backend,
           p.state \in {"queued", "lost"}
    PROVE  HopeRemembered'
<1>1. inflight[q] \in InFlight /\ inflight[q].att \in [Attempt -> Copy]
  BY Zenon DEF TypeOK, InFlight
<1>2. inflight' = [inflight EXCEPT ![q] = [inflight[q] EXCEPT !.att[a] = p]]
  BY Zenon DEF SetCopy, TypeOK
<1> DEFINE r == inflight[q]
           s == [r EXCEPT !.att[a] = p]
<1>3. /\ s.stage = r.stage /\ s.resume = r.resume /\ s.taken = r.taken
      /\ s.pending = r.pending /\ s.outcome = r.outcome /\ s.att = [r.att EXCEPT ![a] = p]
  BY <1>1, Zenon DEF InFlight
<1>4. inflight'[q] = s /\ \A o \in Queries \ {q} : inflight'[o] = inflight[o]
  BY <1>2, ZenonT(20) DEF TypeOK
<1>5. RemembersHope(s, backend[q])
  <2> HIDE DEF s
  <2>1. OnlyLapses(r.att, s.att)
    BY <1>1, <1>3, Zenon DEF OnlyLapses
  <2>2. RemembersHope(r, backend[q])
    BY ZenonT(20) DEF HopeRemembered
  <2> HIDE DEF r
  <2> QED BY <1>3, <2>1, <2>2, CopiesHope, ZenonT(20)
<1> QED BY <1>4, <1>5, ZenonT(20) DEF HopeRemembered

\* No query has an attempt at the start.
LEMMA InitHope == Init => HopeRemembered
<1> SUFFICES ASSUME Init, NEW q \in Queries PROVE RemembersHope(inflight[q], backend[q])
  BY Zenon DEF HopeRemembered
<1>1. /\ inflight[q].stage = "Idle" /\ inflight[q].outcome = "none"
      /\ inflight[q].att = [a \in Attempt |-> NoCopy] /\ ~inflight[q].taken
  BY Zenon DEF Init, NewQuery
<1>2. backend[q] = [a \in Attempt |-> "none"]
  BY Zenon DEF Init
<1> QED BY <1>1, <1>2 DEF RemembersHope, Hopeless, Attempt, NoCopy

\* Every step keeps what the queries remember, one action at a time.
LEMMA NextHope == TypeOK /\ HopeRemembered /\ [Next]_vars => HopeRemembered'
<1> SUFFICES ASSUME TypeOK, HopeRemembered, [Next]_vars PROVE HopeRemembered'
  BY Zenon
<1> USE ChoiceType
<1>0. /\ \A q \in Queries : inflight[q] \in InFlight /\ backend[q] \in Backends
      /\ \A q \in Queries : RemembersHope(inflight[q], backend[q])
  BY Zenon DEF TypeOK, HopeRemembered, Backends
<1>1. ASSUME NEW q \in Queries, StartQuery(q) PROVE HopeRemembered'
  <2>1. PICK addressed \in Addressed, pinned \in Pinned, timed \in Timed,
             c \in Choice(Live), lane \in MaybeConn :
           Becomes(q, IF shutDown THEN Finish(NewQuery(addressed, pinned, timed, lane), "ShutDown")
                      ELSE StartRequest(NewQuery(addressed, pinned, timed, lane), FALSE, Live, c))
    BY <1>1, Zenon DEF StartQuery, MaybeConn
  <2> DEFINE r == NewQuery(addressed, pinned, timed, lane)
  <2>2. addressed \in BOOLEAN /\ pinned \in BOOLEAN /\ timed \in BOOLEAN
    BY QueryAssumption, Zenon
  <2>3. NoCopy \in Copy
    BY ZenonT(20) DEF NoCopy, Copy, SendState, MaybeConn
  <2>4. r \in InFlight
    BY <2>2, <2>3, Zenon DEF NewQuery, InFlight, Stage, Outcome, MaybeConn
  <2>5. /\ r.stage = "Request" /\ r.outcome = "none"
        /\ \A a \in Attempt : r.att[a].state = "none"
    BY ZenonT(40) DEF NewQuery, NoCopy
  <2>6. \A a \in Attempt : backend[q][a] = "none"
    BY <1>0, <1>1, Zenon DEF StartQuery, RemembersHope, Attempt
  <2> HIDE DEF r
  <2>7. Going(r, backend[q])
    BY <2>5, <2>6, Zenon DEF Going
  <2>8. /\ RemembersHope(Finish(r, "ShutDown"), backend[q])
        /\ RemembersHope(StartRequest(r, FALSE, Live, c), backend[q])
    BY <1>0, <2>4, <2>5, <2>7, FinishHope, StartRequestHope, Zenon DEF Outcome
  <2>9. Becomes(q, IF shutDown THEN Finish(r, "ShutDown") ELSE StartRequest(r, FALSE, Live, c))
    BY <2>1, Zenon DEF r
  <2>10. UNCHANGED backend
    BY <1>1, Zenon DEF StartQuery
  <2> QED BY <2>8, <2>9, <2>10, BecomesHope, Zenon
<1>2. ASSUME NEW q \in Queries, Deadline(q) PROVE HopeRemembered'
  <2>1. PICK c \in Choice(Live) : Becomes(q, QueryDeadline(inflight[q], Live, c))
    BY <1>2, ZenonT(20) DEF Deadline
  <2>2. RemembersHope(QueryDeadline(inflight[q], Live, c), backend[q])
    BY <1>0, <1>2, QueryDeadlineHope, Zenon DEF Deadline, InFlightSet
  <2>3. UNCHANGED backend
    BY <1>2, Zenon DEF Deadline
  <2> QED BY <2>1, <2>2, <2>3, BecomesHope, Zenon
<1>3. ASSUME NEW q \in Queries, NEW a \in Attempt, Reply(q, a) PROVE HopeRemembered'
  <2>1. /\ backend' = [backend EXCEPT ![q][a] = "answered"]
        /\ inflight[q].stage # "Done" /\ backend[q][a] = "has"
    BY <1>3, Zenon DEF Reply, InFlightSet
  <2>2. /\ backend'[q] = [backend[q] EXCEPT ![a] = "answered"]
        /\ \A p \in Queries \ {q} : backend'[p] = backend[p]
    BY <2>1, Zenon DEF TypeOK
  <2>3. backend'[q] \in Backends
    BY <1>0, <2>2, Zenon DEF Backends, Holder
  <2>4. Going(inflight[q], backend'[q])
    <3>1. Going(inflight[q], backend[q])
      BY <1>0, <2>1, HopeGoing, ZenonT(20)
    <3> QED BY <1>0, <2>1, <2>2, <3>1, Zenon DEF Going, Backends
  <2>5. RemembersHope(Finish(inflight[q], "Replied"), backend'[q])
    BY <1>0, <2>3, <2>4, FinishHope, Zenon DEF Outcome
  <2>6. Becomes(q, Finish(inflight[q], "Replied"))
    BY <1>3, ZenonT(20) DEF Reply
  <2> QED BY <2>2, <2>5, <2>6, BecomesHope, Zenon
<1>4. ASSUME NEW q \in Queries, NEW a \in Attempt, DeliveryError(q, a) PROVE HopeRemembered'
  <2>1. PICK past \in MayBePast(inflight[q]), c \in Choice(Live) :
           Becomes(q, Refused(inflight[q], a, past, Live, c))
    BY <1>4, Zenon DEF DeliveryError
  <2>2. /\ backend' = [backend EXCEPT ![q][a] = "struck"]
        /\ inflight[q].stage \notin {"Idle", "Done"} /\ backend[q][a] = "bounced"
    BY <1>4, Zenon DEF DeliveryError, InFlightSet
  <2>3. /\ backend'[q] = [backend[q] EXCEPT ![a] = "struck"]
        /\ \A p \in Queries \ {q} : backend'[p] = backend[p]
    BY <2>2, Zenon DEF TypeOK
  <2>4. RemembersHope(Refused(inflight[q], a, past, Live, c), [backend[q] EXCEPT ![a] = "struck"])
    BY <1>0, <2>2, RefusedHope
  <2> QED BY <2>1, <2>3, <2>4, BecomesHope, Zenon
<1>5. ASSUME NEW q \in Queries, NEW c \in Conns, SearchRefused(q, c) PROVE HopeRemembered'
  <2> DEFINE r == [inflight[q] EXCEPT !.searched = @ \ {c}]
  <2>1. Becomes(q, IF r.searched = {} THEN WaitLate(r, FALSE) ELSE r)
    BY <1>5, Zenon DEF SearchRefused
  <2>2. inflight[q].stage = "Search" /\ UNCHANGED backend
    BY <1>5, Zenon DEF SearchRefused
  <2>3. r \in InFlight /\ Alike(inflight[q], r)
    BY <1>0, AnsweredType, AlikeRecords, Zenon
  <2> HIDE DEF r
  <2>4. RemembersHope(r, backend[q]) /\ Onward(r, backend[q])
    BY <1>0, <2>2, <2>3, AlikeHope, HopeGoing, Zenon
  <2>5. RemembersHope(WaitLate(r, FALSE), backend[q])
    <3>1. Hopeless(r, backend[q], "direct")
      BY <2>4, Zenon DEF Onward, Going, Hopeless, Attempt
    <3> QED BY <1>0, <2>3, <2>4, <3>1, WaitLateHope, Zenon DEF Onward
  <2> QED BY <2>1, <2>2, <2>4, <2>5, BecomesHope, Zenon
<1>6. ASSUME NEW q \in Queries, NEW via \in Conns, Ping(q, via) PROVE HopeRemembered'
  <2>1. PICK c \in Choice(Live) : Becomes(q, SendDirect(inflight[q], via, FALSE, Live, c))
    BY <1>6, Zenon DEF Ping
  <2>2. inflight[q].stage = "Search" /\ UNCHANGED backend
    BY <1>6, Zenon DEF Ping
  <2>3. RemembersHope(SendDirect(inflight[q], via, FALSE, Live, c), backend[q])
    BY <1>0, <2>2, HopeGoing, SendDirectHope, Zenon
  <2> QED BY <2>1, <2>2, <2>3, BecomesHope, Zenon
<1>7. ASSUME NEW c \in Conns, ConnUp(c) PROVE HopeRemembered'
  <2> DEFINE Up(q) == [a \in Attempt |->
                         IF inflight[q].att[a].state = "queued" /\ inflight[q].att[a].at = NoConn
                         THEN [inflight[q].att[a] EXCEPT !.at = c, !.moved = c]
                         ELSE inflight[q].att[a]]
  <2>1. inflight' = [q \in Queries |-> [inflight[q] EXCEPT !.att = Up(q)]] /\ UNCHANGED backend
    BY <1>7, Zenon DEF ConnUp
  <2>2. ASSUME NEW q \in Queries PROVE RemembersHope([inflight[q] EXCEPT !.att = Up(q)], backend[q])
    <3>1. OnlyLapses(inflight[q].att, Up(q))
      <4>1. ASSUME NEW p \in Copy PROVE [p EXCEPT !.at = c, !.moved = c].state = p.state
        BY Zenon DEF Copy
      <4>2. \A a \in Attempt : inflight[q].att[a] \in Copy
        BY <1>0, CopyType, Zenon
      <4> QED BY <4>1, <4>2, Zenon DEF OnlyLapses
    <3> HIDE DEF Up
    <3> QED BY <1>0, <3>1, AttHope, Zenon
  <2> HIDE DEF Up
  <2> QED BY <2>1, <2>2, Zenon DEF HopeRemembered
<1>8. ASSUME NEW c \in Conns, ConnDown(c) PROVE HopeRemembered'
  <2> DEFINE L == Live \ {c}
  <2>1. PICK d \in Choice(L), writing \in SUBSET (Queries \X Attempt), late \in SUBSET Queries :
           inflight' = [q \in Queries |->
             LET r == OnDown(inflight[q], c, q \in late, L, d)
             IN  [r EXCEPT !.att = [a \in Attempt |->
                    IF @[a].state = "queued" /\ @[a].at = c /\ <<q, a>> \notin writing
                    THEN HandedOver(@[a], r.pinned, d) ELSE @[a]]]]
    BY <1>8, Zenon DEF ConnDown
  <2> DEFINE R(q) == OnDown(inflight[q], c, q \in late, L, d)
             Down(q) == [a \in Attempt |->
                           IF R(q).att[a].state = "queued" /\ R(q).att[a].at = c
                              /\ <<q, a>> \notin writing
                           THEN HandedOver(R(q).att[a], R(q).pinned, d) ELSE R(q).att[a]]
  <2>2. L \in SUBSET Conns /\ d \in MaybeConn
    BY Zenon
  <2>3. ASSUME NEW q \in Queries PROVE R(q) \in InFlight /\ RemembersHope(R(q), backend[q])
    <3>1. (q \in late) \in BOOLEAN
      OBVIOUS
    <3> QED BY <1>0, <2>2, <3>1, OnDownType, OnDownHope, Zenon
  <2> HIDE DEF R
  <2>4. ASSUME NEW q \in Queries PROVE RemembersHope([R(q) EXCEPT !.att = Down(q)], backend[q])
    <3>1. OnlyLapses(R(q).att, Down(q))
      <4>1. \A a \in Attempt : R(q).att[a] \in Copy
        BY <2>3, CopyType, Zenon
      <4>2. ASSUME NEW p \in Copy, NEW pinned
            PROVE  HandedOver(p, pinned, d).state \in {p.state, "lost"}
        BY Zenon DEF HandedOver, Copy
      <4> QED BY <4>1, <4>2, Zenon DEF OnlyLapses
    <3> HIDE DEF Down
    <3> QED BY <1>0, <2>3, <3>1, AttHope, ZenonT(20)
  <2>5. inflight' = [q \in Queries |-> [R(q) EXCEPT !.att = Down(q)]] /\ UNCHANGED backend
    BY <1>8, <2>1, Zenon DEF ConnDown, R
  <2> HIDE DEF Down
  <2> QED BY <2>4, <2>5, Zenon DEF HopeRemembered
<1>9. ASSUME RunFill PROVE HopeRemembered'
  <2>1. CASE shutDown \/ waiting = {}
    BY <1>9, <2>1, ZenonT(40) DEF RunFill, HopeRemembered
  <2>2. CASE ~(shutDown \/ waiting = {})
    <3>1. PICK c \in [Queries -> Choice(Live)], late \in SUBSET Queries :
             inflight' = [q \in Queries |->
                 IF q \in waiting /\ inflight[q].stage # "Done"
                 THEN Restart(inflight[q], q \in late, Live, c[q]) ELSE inflight[q]]
      BY <1>9, <2>2, Zenon DEF RunFill
    <3>2. ASSUME NEW q \in Queries
          PROVE  RemembersHope(Restart(inflight[q], q \in late, Live, c[q]), backend[q])
      <4>1. (q \in late) \in BOOLEAN /\ c[q] \in MaybeConn
        OBVIOUS
      <4> QED BY <1>0, <4>1, RestartHope, Zenon
    <3>3. UNCHANGED backend
      BY <1>9, Zenon DEF RunFill
    <3> QED BY <1>0, <3>1, <3>2, <3>3, Zenon DEF HopeRemembered
  <2> QED BY <2>1, <2>2, Zenon
<1>10. ASSUME NEW t \in posted, RunFollow(t) PROVE HopeRemembered'
  <2>1. CASE t.query \notin InFlightSet
    BY <1>10, <2>1, ZenonT(20) DEF RunFollow, HopeRemembered
  <2>2. CASE t.query \in InFlightSet
    <3>1. t.query \in Queries /\ t.gen \in Nat /\ t.request \in BOOLEAN
      BY <1>10, <2>2 DEF RunFollow, TypeOK, Task, Fill
    <3>2. PICK past \in MayBePast(inflight[t.query]), c \in Choice(Live) :
             Becomes(t.query,
                     FollowedHandover(inflight[t.query], t.gen, t.request, past, Live, c))
      BY <1>10, <2>2, ZenonT(20) DEF RunFollow
    <3>3. RemembersHope(FollowedHandover(inflight[t.query], t.gen, t.request, past, Live, c),
                        backend[t.query])
      BY <1>0, <3>1, FollowedHandoverHope, ZenonT(20)
    <3>4. UNCHANGED backend
      BY <1>10, ZenonT(20) DEF RunFollow
    <3> QED BY <3>1, <3>2, <3>3, <3>4, BecomesHope, ZenonT(20)
  <2> QED BY <2>1, <2>2, ZenonT(20)
<1>11. ASSUME Shutdown PROVE HopeRemembered'
  <2>1. /\ inflight' = [q \in Queries |->
              IF q \in InFlightSet THEN Finish(inflight[q], "ShutDown") ELSE inflight[q]]
        /\ UNCHANGED backend
    BY <1>11, Zenon DEF Shutdown
  <2>2. ASSUME NEW q \in InFlightSet PROVE RemembersHope(Finish(inflight[q], "ShutDown"), backend[q])
    BY <1>0, HopeGoing, FinishHope, ZenonT(40) DEF InFlightSet, Outcome
  <2> QED BY <1>0, <2>1, <2>2, Zenon DEF HopeRemembered
<1>12. ASSUME NEW q \in Queries, NEW a \in Attempt, Write(q, a) PROVE HopeRemembered'
  <2> DEFINE p == [inflight[q].att[a] EXCEPT !.state = "sent"]
             r == inflight[q]
             s == [r EXCEPT !.att[a] = p]
  <2>1. r.att[a].state = "queued" /\ SetCopy(q, a, p) /\ backend' = [backend EXCEPT ![q][a] = "mux"]
    BY <1>12, Zenon DEF Write
  <2>2. /\ backend'[q] = [backend[q] EXCEPT ![a] = "mux"]
        /\ \A o \in Queries \ {q} : backend'[o] = backend[o] /\ inflight'[o] = inflight[o]
        /\ inflight'[q] = s
    BY <2>1, Zenon DEF TypeOK, SetCopy
  <2>3. r \in InFlight /\ RemembersHope(r, backend[q]) /\ backend[q] \in Backends
    BY <1>0, Zenon
  <2>4. p.state = "sent" /\ r.att \in [Attempt -> Copy]
    <3>1. inflight[q].att[a] \in Copy
      BY <1>0, CopyType, Zenon
    <3>2. ASSUME NEW o \in Copy PROVE [o EXCEPT !.state = "sent"].state = "sent"
      BY Zenon DEF Copy
    <3> QED BY <2>3, <3>1, <3>2, Zenon DEF InFlight
  <2> HIDE DEF p, r
  <2>5. /\ s.stage = r.stage /\ s.resume = r.resume /\ s.taken = r.taken
        /\ s.pending = r.pending /\ s.outcome = r.outcome /\ s.att = [r.att EXCEPT ![a] = p]
    BY <2>3, Zenon DEF InFlight
  <2> HIDE DEF s
  <2>6. ~Hopeless(r, backend[q], a) /\ r.att[a].state # "none"
    BY <2>1, Zenon DEF Hopeless
  <2>7. \A o \in Attempt \ {a} :
          /\ Hopeless(r, backend[q], o) => Hopeless(s, backend'[q], o)
          /\ s.att[o] = r.att[o] /\ backend'[q][o] = backend[q][o]
    BY <2>2, <2>3, <2>4, <2>5, Zenon DEF Hopeless, Backends
  <2>8. s.att[a].state = "sent"
    BY <2>4, <2>5, Zenon
  <2>9. a \in {"request", "direct"} /\ Attempt = {"request", "direct"}
    BY Zenon DEF Attempt
  <2>10. RemembersHope(s, backend'[q])
    BY <2>3, <2>5, <2>6, <2>7, <2>8, <2>9, ZenonT(40) DEF RemembersHope
  <2> QED BY <1>0, <2>2, <2>10, Zenon DEF HopeRemembered
<1>13. ASSUME NEW q \in Queries, NEW a \in Attempt, Settle(q, a) PROVE HopeRemembered'
  <2>1. PICK d \in Choice(Live) : SetCopy(q, a, HandedOver(inflight[q].att[a], inflight[q].pinned, d))
    BY <1>13, Zenon DEF Settle
  <2>2. inflight[q].att[a] \in Copy /\ inflight[q].pinned \in BOOLEAN
    BY <1>0, CopyType, Zenon DEF InFlight
  <2>3. inflight[q].att[a].state = "queued" /\ UNCHANGED backend
    BY <1>13, Zenon DEF Settle
  <2>4. HandedOver(inflight[q].att[a], inflight[q].pinned, d) \in Copy
    BY <2>2, HandedOverType, Zenon
  <2>5. ASSUME NEW p \in Copy, NEW pinned, p.state = "queued"
        PROVE  HandedOver(p, pinned, d).state \in {"queued", "lost"}
    BY <2>5, Zenon DEF HandedOver, Copy
  <2> QED BY <2>1, <2>2, <2>3, <2>4, <2>5, SetCopyHope, Zenon
<1>14. ASSUME NEW q \in Queries, NEW a \in Attempt, Expire(q, a) PROVE HopeRemembered'
  <2>1. inflight[q].att[a] \in Copy
    BY <1>0, CopyType, Zenon
  <2>2. /\ inflight[q].att[a].state = "queued" /\ UNCHANGED backend
        /\ SetCopy(q, a, [inflight[q].att[a] EXCEPT !.state = "lost", !.at = NoConn])
    BY <1>14, Zenon DEF Expire
  <2>3. ASSUME NEW p \in Copy
        PROVE  /\ [p EXCEPT !.state = "lost", !.at = NoConn] \in Copy
               /\ [p EXCEPT !.state = "lost", !.at = NoConn].state \in {"queued", "lost"}
    BY CopyType, Zenon DEF Copy
  <2> QED BY <2>1, <2>2, <2>3, SetCopyHope, Zenon
<1>15. ASSUME NEW q \in Queries, NEW a \in Attempt, Route(q, a) PROVE HopeRemembered'
  <2>1. PICK s \in {"has", "bounced", "dropped"} : backend' = [backend EXCEPT ![q][a] = s]
    BY <1>15, Zenon DEF Route
  <2>2. backend[q][a] = "mux" /\ UNCHANGED inflight
    BY <1>15, Zenon DEF Route
  <2>3. /\ backend'[q] = [backend[q] EXCEPT ![a] = s]
        /\ \A o \in Queries \ {q} : backend'[o] = backend[o]
    BY <2>1, ZenonT(20) DEF TypeOK
  <2>4. RemembersHope(inflight[q], backend'[q])
    BY <1>0, <2>2, <2>3 DEF RemembersHope, Hopeless, Backends, Attempt
  <2> QED BY <1>0, <2>2, <2>3, <2>4, Zenon DEF HopeRemembered
<1>16. CASE UNCHANGED vars
  BY <1>16, Zenon DEF vars, HopeRemembered
<1> QED
  BY <1>1, <1>2, <1>3, <1>4, <1>5, <1>6, <1>7, <1>8, <1>9, <1>10, <1>11, <1>12, <1>13, <1>14,
     <1>15, <1>16, ZenonT(20) DEF Next

\* A query that does not note its request as perhaps taken, or leaves an
\* attempt out of its wait for a late reply, is right: nobody can answer it.
THEOREM QueryHopeRemembered == Spec => []HopeRemembered
BY InitType, InitHope, NextType, NextHope, PTL DEF Spec

\* A query that ended Failed left no attempt that could still be answered
\* (wait_late, refused).
THEOREM QueryNoFalseFailure == Spec => []NoFalseFailure
<1>1. HopeRemembered => NoFalseFailure
  BY Zenon DEF HopeRemembered, RemembersHope, NoFalseFailure, Hopeless
<1> QED BY <1>1, QueryHopeRemembered, PTL, ZenonT(20)

-----------------------------------------------------------------------------
(* What a query waits for.  Each handler keeps the books of one query;     *)
(* here the waiting list and the posted pass are followed, action by       *)
(* action.                                                                 *)

\* The inductive invariant: every query's books, the waiting list's, the
\* posted pass, and nothing in flight from a shutdown on.
KeptInv ==
    /\ \A q \in Queries : Kept(inflight[q], backend[q])
    /\ waitingEnded = Cardinality({q \in waiting : inflight[q].stage = "Done"})
    /\ \A q \in Queries : inflight[q].stage = "Waiting" => q \in waiting
    /\ \A q \in waiting : inflight[q].stage \in {"Waiting", "Done"}
    /\ NoLostWakeup
    /\ shutDown => \A q \in Queries : inflight[q].stage \in {"Idle", "Done"}

\* What NeverBack says of a step.
Forward ==
    \A q \in Queries :
        /\ StageRank(inflight[q]) <= StageRank(inflight'[q])
        /\ inflight[q].stage = "Done" => inflight'[q].outcome = inflight[q].outcome

\* The outbox has nothing to choose only when no connection lives.
LEMMA ChosenLive ==
    ASSUME NEW L \in SUBSET Conns, NEW c \in Choice(L)
    PROVE  c \in MaybeConn /\ (c = NoConn <=> L = {})
BY QueryAssumption, ZenonT(20) DEF Choice, MaybeConn

\* An ended entry of the waiting list is counted, and cleared out with the
\* others when they are too many.
LEMMA BecomesListing ==
    ASSUME CountFacts, TypeOK, KeptInv, NEW q \in Queries, NEW r \in InFlight, Becomes(q, r),
           inflight[q].stage # "Done", NEW c, Goes(inflight[q], r, c),
           NEW b, Kept(r, b)
    PROVE  /\ waitingEnded' = Cardinality({w \in waiting' : inflight'[w].stage = "Done"})
           /\ \A p \in Queries : inflight'[p].stage = "Waiting" => p \in waiting'
           /\ \A p \in waiting' : inflight'[p].stage \in {"Waiting", "Done"}
<1> DEFINE W == waiting \cup (IF r.listed /\ r.stage # "Done" THEN {q} ELSE {})
           counts == r.stage = "Done" /\ r.listed
           E == waitingEnded + (IF counts THEN 1 ELSE 0)
           D == {w \in waiting : inflight[w].stage = "Done"}
           N == {w \in W : inflight'[w].stage = "Done"}
<1>1. inflight'[q] = r /\ \A p \in Queries \ {q} : inflight'[p] = inflight[p]
  BY Zenon DEF Becomes, TypeOK
<1>2. \/ waiting' = W /\ waitingEnded' = E
      \/ waiting' = {w \in W : inflight'[w].stage # "Done"} /\ waitingEnded' = 0
  <2>1. PICK clears \in BOOLEAN :
          /\ waiting' = IF clears THEN {w \in W : [inflight EXCEPT ![q] = r][w].stage # "Done"} ELSE W
          /\ waitingEnded' = IF clears THEN 0 ELSE E
          /\ inflight' = [inflight EXCEPT ![q] = r]
    BY Zenon DEF Becomes
  <2> QED BY <2>1, Zenon
<1>3. waiting \subseteq Queries /\ waiting \subseteq W /\ W \subseteq waiting \cup {q}
  BY ZenonT(20) DEF TypeOK
<1>4. /\ \A p \in waiting : inflight[p].stage \in {"Waiting", "Done"}
      /\ \A p \in Queries : inflight[p].stage = "Waiting" => p \in waiting
      /\ waitingEnded = Cardinality(D) /\ waitingEnded \in Nat
      /\ inflight[q].listed <=> inflight[q].stage = "Waiting"
  BY ZenonT(40) DEF KeptInv, Kept, TypeOK
<1>5. /\ r.stage # "Done" => (r.listed <=> r.stage = "Waiting")
      /\ r.stage = "Done" => (r.listed <=> inflight[q].listed)
      /\ inflight[q].stage = "Waiting" => r.stage \in {"Waiting", "Done"}
  BY ZenonT(20) DEF Kept, Goes
<1>6. Cardinality(N) = E
  <2>1. IsFiniteSet(D)
    <3>1. D \subseteq Queries
      BY <1>3, Zenon
    <3> QED BY <3>1, QueryAssumption, Zenon DEF CountFacts, SubsetCount
  <2>2. CASE counts
    <3>1. q \in waiting /\ q \notin D /\ W = waiting
      BY <1>4, <1>5, <2>2, ZenonT(20)
    <3>2. N = D \cup {q}
      BY <1>1, <1>3, <2>2, <3>1, Zenon
    <3>3. Cardinality(D \cup {q}) = Cardinality(D) + 1
      BY <2>1, <3>1, Zenon DEF CountFacts, AddCount
    <3> QED BY <1>4, <2>2, <3>2, <3>3, Zenon
  <2>3. CASE ~counts
    <3>1. q \notin D /\ q \notin N
      <4>1. r.stage = "Done" => q \notin W
        BY <1>4, <1>5, <2>3, Zenon
      <4> QED BY <1>1, <4>1, Zenon
    <3>2. N = D
      BY <1>1, <1>3, <3>1, Zenon
    <3>3. waitingEnded \in Nat /\ Cardinality(D) = waitingEnded
      BY <1>4, Zenon
    <3>4. E = waitingEnded
      BY <2>3, <3>3
    <3> QED BY <3>2, <3>3, <3>4, Zenon
  <2> QED BY <2>2, <2>3, ZenonT(20)
<1>7. \A p \in Queries : inflight'[p].stage = "Waiting" => p \in W
  BY <1>1, <1>3, <1>4, <1>5, ZenonT(20)
<1>8. \A p \in W : inflight'[p].stage \in {"Waiting", "Done"}
  BY <1>1, <1>3, <1>4, <1>5, ZenonT(20)
<1>9. CASE waiting' = W /\ waitingEnded' = E
  BY <1>6, <1>7, <1>8, <1>9, Zenon
<1>10. CASE waiting' = {w \in W : inflight'[w].stage # "Done"} /\ waitingEnded' = 0
  <2>1. {w \in waiting' : inflight'[w].stage = "Done"} = {}
    BY <1>10, Zenon
  <2>2. Cardinality({}) = 0
    BY ZenonT(20) DEF CountFacts, EmptyCount
  <2> QED BY <1>7, <1>8, <1>10, <2>1, <2>2, Zenon
<1> HIDE DEF W, E, N, counts
<1> QED BY <1>2, <1>9, <1>10, ZenonT(20)

\* An action that runs one query's handler.
LEMMA BecomesKept ==
    ASSUME CountFacts, TypeOK, KeptInv, NEW q \in Queries, NEW r \in InFlight, Becomes(q, r),
           inflight[q].stage # "Done", NEW c \in Choice(Live), Goes(inflight[q], r, c),
           Kept(r, backend'[q]), \A p \in Queries \ {q} : backend'[p] = backend[p],
           UNCHANGED <<conn, shutDown>>, Fill \in posted => Fill \in posted',
           shutDown => r.stage = "Done"
    PROVE  KeptInv' /\ Forward
<1>1. inflight'[q] = r /\ \A p \in Queries \ {q} : inflight'[p] = inflight[p]
  BY ZenonT(40) DEF Becomes, TypeOK
<1>2. \A p \in Queries : Kept(inflight'[p], backend'[p])
  BY <1>1, ZenonT(20) DEF KeptInv
<1>3. /\ waitingEnded' = Cardinality({w \in waiting' : inflight'[w].stage = "Done"})
      /\ \A p \in Queries : inflight'[p].stage = "Waiting" => p \in waiting'
      /\ \A p \in waiting' : inflight'[p].stage \in {"Waiting", "Done"}
  BY BecomesListing, ZenonT(40)
<1>4. NoLostWakeup'
  <2>1. Live' = Live /\ (c = NoConn <=> Live = {})
    BY ChoiceType, ChosenLive, Zenon DEF Live
  <2>2. r.stage = "Waiting" => inflight[q].stage = "Waiting" \/ Live = {}
    BY <2>1, ZenonT(20) DEF Goes
  <2> QED BY <1>1, <2>1, <2>2, ZenonT(20) DEF NoLostWakeup, KeptInv
<1>5. shutDown' => \A p \in Queries : inflight'[p].stage \in {"Idle", "Done"}
  BY <1>1, ZenonT(40) DEF KeptInv
<1>6. Forward
  <2>1. \A p \in Queries : StageRank(inflight[p]) \in 0..5
    BY Ranks, ZenonT(40) DEF TypeOK
  <2>2. \A p \in Queries : StageRank(inflight[p]) <= StageRank(inflight'[p])
    BY <1>1, <2>1 DEF Goes
  <2> QED BY <1>1, <2>2, ZenonT(20) DEF Forward
<1> QED BY <1>2, <1>3, <1>4, <1>5, <1>6, ZenonT(20) DEF KeptInv

\* A step that touches the copies in the outbox, and what became of them
\* beyond it, unless that is a refusal.
LEMMA CopiesKept ==
    ASSUME TypeOK, KeptInv, UNCHANGED <<waiting, waitingEnded, shutDown>>,
           Fill \in posted => Fill \in posted', Live' = Live \/ Fill \in posted',
           \A q \in Queries : /\ SameBooks(inflight[q], inflight'[q])
                              /\ inflight'[q].gen = inflight[q].gen
                              /\ inflight'[q].timer = inflight[q].timer,
           \A q \in Queries, a \in Attempt :
               backend'[q][a] = "struck" => backend[q][a] = "struck"
    PROVE  KeptInv' /\ Forward
<1>1. ASSUME NEW q \in Queries
      PROVE  /\ Kept(inflight'[q], backend'[q])
             /\ StageRank(inflight'[q]) = StageRank(inflight[q])
  <2>1. Kept(inflight[q], backend[q]) /\ inflight[q].pending \in SUBSET Attempt
    BY ZenonT(20) DEF KeptInv, TypeOK, InFlight
  <2> QED BY <2>1, SameBooksKept
<1>2. \A q \in Queries : /\ inflight'[q].stage = inflight[q].stage
                         /\ inflight'[q].outcome = inflight[q].outcome
  BY ZenonT(20) DEF SameBooks
<1>3. waiting \subseteq Queries
  BY ZenonT(20) DEF TypeOK
<1>4. {q \in waiting' : inflight'[q].stage = "Done"} = {q \in waiting : inflight[q].stage = "Done"}
  BY <1>2, <1>3, ZenonT(20)
<1>5. NoLostWakeup'
  BY <1>2, ZenonT(20) DEF NoLostWakeup, KeptInv
<1>6. Forward
  <2>1. \A q \in Queries : StageRank(inflight[q]) \in 0..5
    BY Ranks, Zenon DEF TypeOK
  <2> QED BY <1>1, <1>2, <2>1 DEF Forward
<1> QED BY <1>1, <1>2, <1>3, <1>4, <1>5, <1>6, Zenon DEF KeptInv

\* A record whose copies are replaced is alike.
LEMMA CopiesSame ==
    ASSUME NEW r \in InFlight, NEW att
    PROVE  LET s == [r EXCEPT !.att = att]
           IN  SameBooks(r, s) /\ s.gen = r.gen /\ s.timer = r.timer
BY Zenon DEF InFlight, SameBooks

\* The same when one copy of one query is replaced.
LEMMA SetCopySame ==
    ASSUME TypeOK, NEW q \in Queries, NEW a \in Attempt, NEW p, SetCopy(q, a, p)
    PROVE  \A o \in Queries : /\ SameBooks(inflight[o], inflight'[o])
                              /\ inflight'[o].gen = inflight[o].gen
                              /\ inflight'[o].timer = inflight[o].timer
<1>1. inflight[q] \in InFlight
  BY Zenon DEF TypeOK
<1>2. inflight' = [inflight EXCEPT ![q] = [inflight[q] EXCEPT !.att = [inflight[q].att EXCEPT ![a] = p]]]
  BY Zenon DEF SetCopy, TypeOK, InFlight
<1>3. /\ inflight'[q] = [inflight[q] EXCEPT !.att = [inflight[q].att EXCEPT ![a] = p]]
      /\ \A o \in Queries \ {q} : inflight'[o] = inflight[o]
  BY <1>2, Zenon DEF TypeOK
<1>4. /\ SameBooks(inflight[q], inflight'[q]) /\ inflight'[q].gen = inflight[q].gen
      /\ inflight'[q].timer = inflight[q].timer
  BY <1>1, <1>3, CopiesSame
<1> QED BY <1>3, <1>4, Zenon DEF SameBooks

\* Nothing is in flight at the start.
LEMMA InitKept == ASSUME CountFacts, Init PROVE KeptInv
<1>1. ASSUME NEW q \in Queries PROVE Kept(inflight[q], backend[q]) /\ inflight[q].stage = "Idle"
  <2>1. /\ inflight[q].stage = "Idle" /\ inflight[q].told = 0 /\ inflight[q].watched = {}
        /\ inflight[q].out = [m \in Messages |-> 0] /\ ~inflight[q].taken /\ ~inflight[q].listed
        /\ inflight[q].gen = 0
    BY Zenon DEF Init, NewQuery, Messages
  <2>2. \A a \in Attempt : backend[q][a] = "none"
    BY Zenon DEF Init
  <2>3. Books(inflight[q], backend[q])
    BY <2>1, <2>2 DEF Books, Messages
  <2> QED BY <2>1, <2>3, Zenon DEF Kept
<1>2. waiting = {} /\ waitingEnded = 0 /\ shutDown = FALSE
  BY Zenon DEF Init
<1>3. Cardinality({q \in waiting : inflight[q].stage = "Done"}) = 0
  <2>1. {q \in waiting : inflight[q].stage = "Done"} = {}
    BY <1>2, Zenon
  <2> QED BY <2>1, Zenon DEF CountFacts, EmptyCount
<1>4. NoLostWakeup
  BY <1>1, Zenon DEF NoLostWakeup
<1> QED BY <1>1, <1>2, <1>3, <1>4, ZenonT(20) DEF KeptInv

\* A connection dies: the queries that lose their attempt wait for another
\* only when none lives.
LEMMA ConnDownKept ==
    ASSUME TypeOK, TypeOK', KeptInv, NEW c \in Conns, ConnDown(c)
    PROVE  KeptInv' /\ Forward
<1> DEFINE L == Live \ {c}
<1>1. PICK d \in Choice(L), writing \in SUBSET (Queries \X Attempt), late \in SUBSET Queries :
         inflight' = [q \in Queries |->
           LET r == OnDown(inflight[q], c, q \in late, L, d)
           IN  [r EXCEPT !.att = [a \in Attempt |->
                  IF @[a].state = "queued" /\ @[a].at = c /\ <<q, a>> \notin writing
                  THEN HandedOver(@[a], r.pinned, d) ELSE @[a]]]]
  BY Zenon DEF ConnDown
<1> DEFINE R(q) == OnDown(inflight[q], c, q \in late, L, d)
           Down(q) == [a \in Attempt |->
                         IF R(q).att[a].state = "queued" /\ R(q).att[a].at = c
                            /\ <<q, a>> \notin writing
                         THEN HandedOver(R(q).att[a], R(q).pinned, d) ELSE R(q).att[a]]
<1>2. L \in SUBSET Conns /\ d \in MaybeConn /\ (d = NoConn <=> L = {})
  BY ChoiceType, ChosenLive, Zenon
<1>3. /\ conn' = [conn EXCEPT ![c] = "gone"] /\ conn[c] = "live"
      /\ waiting' = waiting \cup {q \in Queries : inflight'[q].listed /\ inflight'[q].stage = "Waiting"}
      /\ posted \subseteq posted' /\ UNCHANGED <<waitingEnded, shutDown, backend>>
  BY Zenon DEF ConnDown
<1>4. inflight' = [q \in Queries |-> [R(q) EXCEPT !.att = Down(q)]]
  BY <1>1, ZenonT(20)
<1>5. ASSUME NEW q \in Queries
      PROVE  /\ R(q) \in InFlight /\ Kept(R(q), backend[q]) /\ Goes(inflight[q], R(q), d)
             /\ inflight[q].stage \in {"Idle", "Waiting", "Done"} => R(q) = inflight[q]
  <2>1. (q \in late) \in BOOLEAN /\ inflight[q] \in InFlight /\ backend[q] \in Backends
    BY DEF TypeOK, Backends
  <2>2. Kept(inflight[q], backend[q])
    BY Zenon DEF KeptInv
  <2>3. PICK past \in BOOLEAN : past = (q \in late)
    BY <2>1, Zenon
  <2> HIDE DEF L
  <2>4. R(q) = OnDown(inflight[q], c, past, L, d)
    BY <2>3, Zenon
  <2>5. R(q) \in InFlight
    BY <1>2, <2>1, <2>4, OnDownType, Zenon
  <2> HIDE DEF R
  <2> QED BY <1>2, <2>1, <2>2, <2>4, <2>5, OnDownKept
<1> HIDE DEF R
<1>6. ASSUME NEW q \in Queries
      PROVE  /\ SameBooks(R(q), inflight'[q])
             /\ Kept(inflight'[q], backend[q]) /\ StageRank(inflight'[q]) = StageRank(R(q))
  <2>1. inflight'[q] = [R(q) EXCEPT !.att = Down(q)]
    BY <1>4, ZenonT(20)
  <2>2. R(q).pending \in SUBSET Attempt
    BY <1>5, Zenon DEF InFlight
  <2> HIDE DEF Down
  <2>3. /\ SameBooks(R(q), inflight'[q])
        /\ inflight'[q].gen = R(q).gen /\ inflight'[q].timer = R(q).timer
    BY <1>5, <2>1, CopiesSame
  <2>4. Kept(R(q), backend[q])
    BY <1>5, Zenon
  <2>5. Kept(inflight'[q], backend[q]) /\ StageRank(inflight'[q]) = StageRank(R(q))
    BY <2>2, <2>3, <2>4, SameBooksKept, ZenonT(40)
  <2> QED BY <2>3, <2>5, Zenon
<1> HIDE DEF Down
<1>7. ASSUME NEW q \in Queries
      PROVE  /\ inflight'[q].stage = "Waiting" => inflight[q].stage = "Waiting" \/ L = {}
             /\ inflight[q].stage \in {"Idle", "Waiting", "Done"} =>
                   /\ inflight'[q].stage = inflight[q].stage
                   /\ inflight'[q].outcome = inflight[q].outcome
             /\ inflight'[q].stage = "Waiting" => q \in waiting'
  <2>1. /\ inflight'[q].stage = R(q).stage /\ inflight'[q].listed = R(q).listed
        /\ inflight'[q].outcome = R(q).outcome
    BY <1>6, Zenon DEF SameBooks
  <2>2. R(q).stage = "Waiting" => inflight[q].stage = "Waiting" \/ L = {}
    BY <1>2, <1>5, Zenon DEF Goes
  <2>3. R(q).stage = "Waiting" => R(q).listed
    <3>1. Kept(R(q), backend[q])
      BY <1>5, Zenon
    <3>2. "Waiting" # "Done"
      OBVIOUS
    <3> QED BY <3>1, <3>2, Zenon DEF Kept
  <2>4. R(q).listed /\ R(q).stage = "Waiting" => q \in waiting'
    BY <1>3, <2>1, Zenon
  <2>5. inflight[q].stage \in {"Idle", "Waiting", "Done"} => R(q) = inflight[q]
    BY <1>5, Zenon
  <2> QED BY <2>1, <2>2, <2>3, <2>4, <2>5, Zenon
<1>8. /\ waiting \subseteq Queries /\ waiting' \subseteq Queries
      /\ \A q \in waiting : inflight[q].stage \in {"Waiting", "Done"}
      /\ waitingEnded = Cardinality({q \in waiting : inflight[q].stage = "Done"})
  BY Zenon DEF TypeOK, KeptInv
<1>9. {q \in waiting' : inflight'[q].stage = "Done"} = {q \in waiting : inflight[q].stage = "Done"}
  BY <1>3, <1>7, <1>8, Zenon
<1>10. \A q \in waiting' : inflight'[q].stage \in {"Waiting", "Done"}
  BY <1>3, <1>7, <1>8, Zenon
<1>11. NoLostWakeup'
  <2>1. Live' = L
    BY <1>3, Zenon DEF Live, TypeOK
  <2>2. ASSUME NEW q \in Queries, inflight'[q].stage = "Waiting", L # {} PROVE Fill \in posted
    BY <1>7, <2>2, Zenon DEF NoLostWakeup, KeptInv
  <2> QED BY <1>3, <2>1, <2>2, Zenon DEF NoLostWakeup
<1>12. shutDown' => \A q \in Queries : inflight'[q].stage \in {"Idle", "Done"}
  BY <1>3, <1>7, Zenon DEF KeptInv
<1>13. Forward
  <2>1. \A q \in Queries : StageRank(inflight[q]) <= StageRank(inflight'[q])
    BY <1>5, <1>6, Zenon DEF Goes
  <2> QED BY <1>7, <2>1, ZenonT(40) DEF Forward
<1> QED BY <1>3, <1>6, <1>7, <1>8, <1>9, <1>10, <1>11, <1>12, <1>13, Zenon DEF KeptInv

\* The posted pass: whoever still waits then has no connection to go to.
LEMMA RunFillKept ==
    ASSUME CountFacts, TypeOK, TypeOK', KeptInv, RunFill
    PROVE  KeptInv' /\ Forward
<1>0. \A q \in Queries : StageRank(inflight[q]) \in 0..5
  BY Ranks, ZenonT(20) DEF TypeOK
<1>1. UNCHANGED <<conn, shutDown, backend>>
  BY Zenon DEF RunFill
<1>2. CASE shutDown \/ waiting = {}
  <2>1. UNCHANGED <<inflight, waiting, waitingEnded>>
    BY <1>2, Zenon DEF RunFill
  <2>2. \A q \in Queries : inflight[q].stage # "Waiting"
    BY <1>2, ZenonT(20) DEF KeptInv
  <2>3. NoLostWakeup'
    BY <2>1, <2>2, ZenonT(20) DEF NoLostWakeup
  <2>4. Forward
    BY <1>0, <2>1 DEF Forward
  <2> QED BY <1>1, <2>1, <2>3, <2>4, Zenon DEF KeptInv
<1>3. CASE ~(shutDown \/ waiting = {})
  <2>1. PICK c \in [Queries -> Choice(Live)], late \in SUBSET Queries :
           inflight' = [q \in Queries |->
               IF q \in waiting /\ inflight[q].stage # "Done"
               THEN Restart(inflight[q], q \in late, Live, c[q]) ELSE inflight[q]]
    BY <1>3, Zenon DEF RunFill
  <2>2. waiting' = {q \in waiting : inflight'[q].stage = "Waiting"} /\ waitingEnded' = 0
    BY <1>3, Zenon DEF RunFill
  <2>3. /\ waiting \subseteq Queries
        /\ \A q \in waiting : inflight[q].stage \in {"Waiting", "Done"}
        /\ \A q \in Queries : inflight[q].stage = "Waiting" => q \in waiting
    BY Zenon DEF TypeOK, KeptInv
  <2>4. ASSUME NEW q \in Queries, inflight[q].stage = "Waiting"
        PROVE  Result(inflight'[q], backend[q], StageRank(inflight[q]), c[q])
    <3>1. /\ (q \in late) \in BOOLEAN /\ inflight[q] \in InFlight /\ backend[q] \in Backends
          /\ Kept(inflight[q], backend[q])
      BY DEF TypeOK, Backends, KeptInv
    <3>2. inflight'[q] = Restart(inflight[q], q \in late, Live, c[q])
      BY <2>1, <2>3, <2>4, Zenon
    <3>3. c[q] \in MaybeConn /\ (c[q] = NoConn <=> Live = {}) /\ Live \in SUBSET Conns
      BY ChoiceType, ChosenLive, Zenon
    <3> QED BY <2>4, <3>1, <3>2, <3>3, RestartKept, Zenon
  <2>5. ASSUME NEW q \in Queries, inflight[q].stage # "Waiting"
        PROVE  inflight'[q] = inflight[q]
    BY <2>1, <2>3, <2>5, Zenon
  <2>6. ASSUME NEW q \in Queries
        PROVE  /\ Kept(inflight'[q], backend[q])
               /\ StageRank(inflight[q]) <= StageRank(inflight'[q])
               /\ inflight'[q].stage = "Waiting" => inflight[q].stage = "Waiting" /\ Live = {}
    <3>1. c[q] = NoConn => Live = {}
      BY ChoiceType, ChosenLive, Zenon
    <3>2. CASE inflight[q].stage = "Waiting"
      <4>1. StageRank(inflight'[q]) \in 0..5
        BY Ranks, ZenonT(40) DEF TypeOK
      <4> QED BY <1>0, <2>4, <3>1, <3>2, <4>1, Zenon DEF Result
    <3>3. CASE inflight[q].stage # "Waiting"
      BY <1>0, <2>5, <3>3 DEF KeptInv
    <3> QED BY <3>2, <3>3, Zenon
  <2>7. NoLostWakeup'
    <3>1. Live' = Live
      BY <1>1, Zenon DEF Live
    <3> QED BY <2>6, <3>1, Zenon DEF NoLostWakeup
  <2>8. Cardinality({q \in waiting' : inflight'[q].stage = "Done"}) = 0
    <3>1. {q \in waiting' : inflight'[q].stage = "Done"} = {}
      BY <2>2, Zenon
    <3> QED BY <3>1, Zenon DEF CountFacts, EmptyCount
  <2>9. Forward
    BY <2>5, <2>6, Zenon DEF Forward
  <2>10. /\ \A q \in Queries : inflight'[q].stage = "Waiting" => q \in waiting'
         /\ \A q \in waiting' : inflight'[q].stage \in {"Waiting", "Done"}
    BY <2>2, <2>3, <2>6, Zenon
  <2>11. ~shutDown'
    BY <1>1, <1>3, Zenon
  <2> QED BY <1>1, <2>2, <2>6, <2>7, <2>8, <2>9, <2>10, <2>11, Zenon DEF KeptInv
<1> QED BY <1>2, <1>3, ZenonT(20)

\* A shutdown ends what is in flight.
LEMMA ShutdownKept ==
    ASSUME CountFacts, TypeOK, KeptInv, Shutdown
    PROVE  KeptInv' /\ Forward
<1>1. /\ inflight' = [q \in Queries |->
            IF q \in InFlightSet THEN Finish(inflight[q], "ShutDown") ELSE inflight[q]]
      /\ waiting' = {} /\ waitingEnded' = 0 /\ UNCHANGED <<conn, posted, backend>>
  BY Zenon DEF Shutdown
<1>2. ASSUME NEW q \in Queries
      PROVE  /\ Kept(inflight'[q], backend[q]) /\ inflight'[q].stage \in {"Idle", "Done"}
             /\ StageRank(inflight[q]) <= StageRank(inflight'[q])
             /\ inflight[q].stage = "Done" => inflight'[q] = inflight[q]
  <2>1. inflight[q] \in InFlight /\ backend[q] \in Backends /\ Kept(inflight[q], backend[q])
    BY Zenon DEF TypeOK, Backends, KeptInv
  <2>2. StageRank(inflight[q]) \in 0..5
    BY <2>1, Ranks, ZenonT(40)
  <2>3. CASE q \in InFlightSet
    <3>1. inflight'[q] = Finish(inflight[q], "ShutDown")
      BY <1>1, <2>3, Zenon
    <3>2. inflight[q].stage \notin {"Idle", "Done"}
      BY <2>3, Zenon DEF InFlightSet
    <3>3. /\ Kept(inflight'[q], backend[q]) /\ Goes(inflight[q], inflight'[q], NoConn)
          /\ inflight'[q].stage = "Done"
      BY <2>1, <3>1, <3>2, FinishGoes, ZenonT(40) DEF Outcome
    <3> QED BY <3>2, <3>3, Zenon DEF Goes
  <2>4. CASE q \notin InFlightSet
    BY <1>1, <2>1, <2>2, <2>4 DEF InFlightSet
  <2> QED BY <2>3, <2>4, Zenon
<1>3. Cardinality({q \in waiting' : inflight'[q].stage = "Done"}) = 0
  <2>1. {q \in waiting' : inflight'[q].stage = "Done"} = {}
    BY <1>1, Zenon
  <2> QED BY <2>1, Zenon DEF CountFacts, EmptyCount
<1>4. NoLostWakeup'
  BY <1>2, Zenon DEF NoLostWakeup
<1>5. Forward
  BY <1>2, Zenon DEF Forward
<1> QED BY <1>1, <1>2, <1>3, <1>4, <1>5, Zenon DEF KeptInv

\* Every step keeps the books and takes no query back.
LEMMA NextKept ==
    ASSUME CountFacts, TypeOK, TypeOK', KeptInv, [Next]_vars
    PROVE  KeptInv' /\ Forward
<1>0. /\ \A q \in Queries : inflight[q] \in InFlight /\ backend[q] \in Backends
      /\ \A q \in Queries : Kept(inflight[q], backend[q])
      /\ Live \in SUBSET Conns
      /\ \A c \in Choice(Live) : c \in MaybeConn /\ (c = NoConn <=> Live = {})
      /\ \A r : MayBePast(r) \subseteq BOOLEAN
  BY ChoiceType, ChosenLive, Zenon DEF TypeOK, KeptInv, Backends
<1>a. \A q \in InFlightSet : ~shutDown /\ inflight[q].stage \notin {"Idle", "Done"}
  BY Zenon DEF InFlightSet, KeptInv
<1>1. ASSUME NEW q \in Queries, StartQuery(q) PROVE KeptInv' /\ Forward
  <2>1. PICK addressed \in Addressed, pinned \in Pinned, timed \in Timed,
             c \in Choice(Live), lane \in MaybeConn :
           Becomes(q, IF shutDown THEN Finish(NewQuery(addressed, pinned, timed, lane), "ShutDown")
                      ELSE StartRequest(NewQuery(addressed, pinned, timed, lane), FALSE, Live, c))
    BY <1>1, Zenon DEF StartQuery, MaybeConn
  <2> DEFINE n == NewQuery(addressed, pinned, timed, lane)
             r == IF shutDown THEN Finish(n, "ShutDown") ELSE StartRequest(n, FALSE, Live, c)
  <2>2. addressed \in BOOLEAN /\ pinned \in BOOLEAN /\ timed \in BOOLEAN
    BY QueryAssumption, Zenon
  <2>3. NoCopy \in Copy
    BY ZenonT(20) DEF NoCopy, Copy, SendState, MaybeConn
  <2>4. n \in InFlight
    BY <2>2, <2>3, Zenon DEF NewQuery, InFlight, Stage, Outcome, MaybeConn
  <2>5. /\ n.stage = "Request" /\ n.told = 0 /\ n.watched = {} /\ ~n.taken /\ ~n.listed
        /\ n.gen = 0 /\ n.out = [m \in Messages |-> 0]
    BY ZenonT(40) DEF NewQuery, Messages
  <2>6. /\ inflight[q].stage = "Idle" /\ ~inflight[q].listed
        /\ \A a \in Attempt : backend[q][a] # "struck"
    BY <1>0, <1>1 DEF StartQuery, Kept, Books, Attempt, Messages
  <2> HIDE DEF n
  <2>7. Books(n, backend[q]) /\ MayArm(n, FALSE, 1) /\ \A m \in Messages : n.out[m] = 0
    <3>1. \A m \in Messages : n.out[m] = 0
      BY <2>5, Zenon
    <3>2. MayArm(n, FALSE, 1)
      BY <2>5 DEF MayArm
    <3>3. n.watched = {m \in Messages : n.out[m] > 0} /\ \A m \in Messages : n.out[m] <= 1
      BY <2>5, <3>1
    <3> QED BY <2>5, <2>6, <3>1, <3>2, <3>3, Zenon DEF Books
  <2>8. /\ Finish(n, "ShutDown") \in InFlight /\ StartRequest(n, FALSE, Live, c) \in InFlight
    BY <1>0, <2>4, FinishType, StartRequestType, Zenon DEF Outcome
  <2>9. /\ Kept(Finish(n, "ShutDown"), backend[q]) /\ Finish(n, "ShutDown").stage = "Done"
        /\ ~Finish(n, "ShutDown").listed
    BY <1>0, <2>4, <2>5, <2>7, FinishKept DEF Outcome
  <2>10. Result(StartRequest(n, FALSE, Live, c), backend[q], 1, c)
    BY <1>0, <2>4, <2>5, <2>7, StartRequestKept, Zenon
  <2>11. /\ Kept(r, backend[q]) /\ (r.stage = "Done" => ~r.listed) /\ r \in InFlight
         /\ r.stage = "Waiting" => c = NoConn
         /\ shutDown => r.stage = "Done"
    BY <2>8, <2>9, <2>10, Zenon DEF Result
  <2>12. Becomes(q, r)
    BY <2>1, Zenon DEF n
  <2> HIDE DEF r
  <2>13. StageRank(inflight[q]) = 0 /\ StageRank(r) \in 0..5
    BY <1>0, <2>6, <2>11, Ranks, ZenonT(40)
  <2>14. Goes(inflight[q], r, c)
    BY <2>6, <2>11, <2>13 DEF Goes
  <2>15. UNCHANGED <<conn, posted, shutDown, backend>>
    BY <1>1, Zenon DEF StartQuery
  <2> QED BY <2>6, <2>11, <2>12, <2>14, <2>15, BecomesKept, Zenon
<1>2. ASSUME NEW q \in Queries, Deadline(q) PROVE KeptInv' /\ Forward
  <2>1. PICK c \in Choice(Live) : Becomes(q, QueryDeadline(inflight[q], Live, c))
    BY <1>2, Zenon DEF Deadline
  <2>2. q \in InFlightSet /\ UNCHANGED <<conn, posted, shutDown, backend>>
    BY <1>2, Zenon DEF Deadline
  <2> DEFINE r == QueryDeadline(inflight[q], Live, c)
  <2>3. r \in InFlight /\ Kept(r, backend[q]) /\ Goes(inflight[q], r, c)
    BY <1>0, <1>a, <2>2, QueryDeadlineType, QueryDeadlineKept, Zenon
  <2> HIDE DEF r
  <2> QED BY <1>a, <2>1, <2>2, <2>3, BecomesKept, Zenon DEF r
<1>3. ASSUME NEW q \in Queries, NEW a \in Attempt, Reply(q, a) PROVE KeptInv' /\ Forward
  <2> DEFINE r == Finish(inflight[q], "Replied")
  <2>1. /\ q \in InFlightSet /\ UNCHANGED <<conn, posted, shutDown>>
        /\ backend' = [backend EXCEPT ![q][a] = "answered"] /\ Becomes(q, r)
    BY <1>3, ZenonT(40) DEF Reply
  <2>2. /\ backend'[q] = [backend[q] EXCEPT ![a] = "answered"]
        /\ \A p \in Queries \ {q} : backend'[p] = backend[p]
    BY <2>1, Zenon DEF TypeOK
  <2>3. PICK c \in Choice(Live) : TRUE
    BY Zenon DEF Choice
  <2>4. r \in InFlight /\ Kept(r, backend[q]) /\ Goes(inflight[q], r, c) /\ r.stage = "Done"
    BY <1>0, <1>a, <2>1, FinishType, FinishGoes, Zenon DEF Outcome
  <2> HIDE DEF r
  <2>5. Kept(r, backend'[q])
    BY <2>4, Zenon DEF Kept
  <2> QED BY <1>a, <2>1, <2>2, <2>4, <2>5, BecomesKept, Zenon
<1>4. ASSUME NEW q \in Queries, NEW a \in Attempt, DeliveryError(q, a) PROVE KeptInv' /\ Forward
  <2>1. PICK past \in MayBePast(inflight[q]), c \in Choice(Live) :
           Becomes(q, Refused(inflight[q], a, past, Live, c))
    BY <1>4, Zenon DEF DeliveryError
  <2>2. /\ q \in InFlightSet /\ a \in inflight[q].watched /\ UNCHANGED <<conn, posted, shutDown>>
        /\ backend' = [backend EXCEPT ![q][a] = "struck"]
    BY <1>4, Zenon DEF DeliveryError
  <2>3. /\ backend'[q] = [backend[q] EXCEPT ![a] = "struck"]
        /\ \A p \in Queries \ {q} : backend'[p] = backend[p]
    BY <2>2, Zenon DEF TypeOK
  <2> DEFINE r == Refused(inflight[q], a, past, Live, c)
  <2>4. past \in BOOLEAN
    BY <1>0, Zenon
  <2>5. r \in InFlight /\ Kept(r, [backend[q] EXCEPT ![a] = "struck"]) /\ Goes(inflight[q], r, c)
    BY <1>0, <1>a, <2>2, <2>4, RefusedType, RefusedKept, Zenon
  <2> HIDE DEF r
  <2> QED BY <1>a, <2>1, <2>2, <2>3, <2>5, BecomesKept, ZenonT(40) DEF r
<1>5. ASSUME NEW q \in Queries, NEW d \in Conns, SearchRefused(q, d) PROVE KeptInv' /\ Forward
  <2> DEFINE t == [inflight[q] EXCEPT !.searched = @ \ {d}]
             r == IF t.searched = {} THEN WaitLate(t, FALSE) ELSE t
  <2>1. /\ q \in InFlightSet /\ inflight[q].stage = "Search" /\ Becomes(q, r)
        /\ UNCHANGED <<conn, posted, shutDown, backend>>
    BY <1>5, Zenon DEF SearchRefused
  <2>2. PICK c \in Choice(Live) : TRUE
    BY ZenonT(20) DEF Choice
  <2>3. inflight[q] \in InFlight /\ Kept(inflight[q], backend[q]) /\ backend[q] \in Backends
    BY <1>0, Zenon
  <2>4. t \in InFlight /\ SameBooks(inflight[q], t) /\ t.gen = inflight[q].gen /\ t.timer = inflight[q].timer
    BY <2>3, ZenonT(40) DEF InFlight, SameBooks
  <2> HIDE DEF t
  <2>5. Kept(t, backend[q]) /\ StageRank(t) = StageRank(inflight[q]) /\ t.stage = "Search"
    BY <2>1, <2>3, <2>4, SameBooksKept DEF InFlight, SameBooks
  <2>6. Books(t, backend[q]) /\ Timed3(t, 3) /\ ~t.listed
    BY <2>4, <2>5, KeptGoes, Zenon
  <2>7. Result(WaitLate(t, FALSE), backend[q], 4, c) /\ WaitLate(t, FALSE) \in InFlight
    BY <2>3, <2>4, <2>5, <2>6, WaitLateKept, WaitLateType, Zenon
  <2>8. StageRank(inflight[q]) = 2 /\ ~inflight[q].listed
    <3>1. ~inflight[q].listed
      BY <2>1, <2>3, KeptGoes, Zenon
    <3> QED BY <2>1, <2>3, <3>1, Ranks, Zenon
  <2>9. Kept(r, backend[q]) /\ Goes(inflight[q], r, c) /\ r \in InFlight
    <3>1. CASE t.searched = {}
      <4>0. StageRank(inflight[q]) <= 4
        BY <2>8
      <4>1. Kept(WaitLate(t, FALSE), backend[q]) /\ Goes(inflight[q], WaitLate(t, FALSE), c)
        BY <2>1, <2>3, <2>7, <2>8, <4>0, ResultGoes, Zenon
      <4> QED BY <2>7, <3>1, <4>1, Zenon
    <3>2. CASE t.searched # {}
      <4>1. StageRank(inflight[q]) <= StageRank(t)
        BY <2>5, <2>8
      <4>2. Goes(inflight[q], t, c)
        BY <2>1, <2>5, <2>6, <2>8, <4>1, Zenon DEF Goes
      <4> QED BY <2>4, <2>5, <3>2, <4>2, Zenon
    <3> QED BY <3>1, <3>2, Zenon
  <2> HIDE DEF r
  <2> QED BY <1>a, <2>1, <2>9, BecomesKept, Zenon
<1>6. ASSUME NEW q \in Queries, NEW via \in Conns, Ping(q, via) PROVE KeptInv' /\ Forward
  <2>1. PICK c \in Choice(Live) : Becomes(q, SendDirect(inflight[q], via, FALSE, Live, c))
    BY <1>6, ZenonT(40) DEF Ping
  <2>2. /\ q \in InFlightSet /\ inflight[q].stage = "Search"
        /\ UNCHANGED <<conn, posted, shutDown, backend>>
    BY <1>6, Zenon DEF Ping
  <2> DEFINE r == SendDirect(inflight[q], via, FALSE, Live, c)
  <2>3. inflight[q] \in InFlight /\ Kept(inflight[q], backend[q]) /\ backend[q] \in Backends
    BY <1>0, Zenon
  <2>4. /\ Books(inflight[q], backend[q]) /\ ~inflight[q].listed
        /\ MayArm(inflight[q], FALSE, 3) /\ inflight[q].out["direct"] = 0
    BY <2>2, <2>3, KeptGoes, Zenon DEF Kept
  <2>5. r \in InFlight /\ Result(r, backend[q], 3, c)
    BY <1>0, <2>2, <2>3, <2>4, SendDirectType, SendDirectKept, ZenonT(40) DEF MaybeConn
  <2> HIDE DEF r
  <2>6. StageRank(inflight[q]) <= 3
    BY <2>2, <2>3, Ranks
  <2>7. Kept(r, backend[q]) /\ Goes(inflight[q], r, c)
    BY <2>2, <2>3, <2>4, <2>5, <2>6, ResultGoes, Zenon
  <2> QED BY <1>a, <2>1, <2>2, <2>5, <2>7, BecomesKept, Zenon DEF r
<1>7. ASSUME NEW c \in Conns, ConnUp(c) PROVE KeptInv' /\ Forward
  <2> DEFINE Up(q) == [a \in Attempt |->
                         IF inflight[q].att[a].state = "queued" /\ inflight[q].att[a].at = NoConn
                         THEN [inflight[q].att[a] EXCEPT !.at = c, !.moved = c]
                         ELSE inflight[q].att[a]]
  <2>1. inflight' = [q \in Queries |-> [inflight[q] EXCEPT !.att = Up(q)]]
    BY <1>7, Zenon DEF ConnUp
  <2>2. Fill \in posted' /\ UNCHANGED <<waiting, waitingEnded, shutDown, backend>>
    BY <1>7, Zenon DEF ConnUp, PostFill
  <2> HIDE DEF Up
  <2>3. \A q \in Queries : /\ SameBooks(inflight[q], inflight'[q])
                           /\ inflight'[q].gen = inflight[q].gen
                           /\ inflight'[q].timer = inflight[q].timer
    BY <1>0, <2>1, CopiesSame, Zenon
  <2> QED BY <2>2, <2>3, CopiesKept, Zenon
<1>8. ASSUME NEW c \in Conns, ConnDown(c) PROVE KeptInv' /\ Forward
  BY <1>8, ConnDownKept, Zenon
<1>9. ASSUME RunFill PROVE KeptInv' /\ Forward
  BY <1>9, RunFillKept, Zenon
<1>10. ASSUME NEW t \in posted, RunFollow(t) PROVE KeptInv' /\ Forward
  <2>1. /\ t.task = "follow" /\ posted' = posted \ {t} /\ UNCHANGED <<conn, shutDown, backend>>
    BY <1>10, Zenon DEF RunFollow
  <2>2. Fill \in posted => Fill \in posted'
    BY <2>1 DEF Fill
  <2>3. CASE t.query \notin InFlightSet
    <3>1. UNCHANGED <<inflight, waiting, waitingEnded>>
      BY <1>10, <2>3, Zenon DEF RunFollow
    <3> QED BY <2>1, <2>2, <3>1, CopiesKept, Zenon DEF SameBooks, Live
  <2>4. CASE t.query \in InFlightSet
    <3>1. PICK past \in MayBePast(inflight[t.query]), c \in Choice(Live) :
             Becomes(t.query,
                     FollowedHandover(inflight[t.query], t.gen, t.request, past, Live, c))
      BY <1>10, <2>4, ZenonT(40) DEF RunFollow
    <3>2. t.query \in Queries /\ t.gen \in Nat /\ t.request \in BOOLEAN /\ past \in BOOLEAN
      BY <1>0, <2>1 DEF TypeOK, Task, Fill
    <3> DEFINE r == FollowedHandover(inflight[t.query], t.gen, t.request, past, Live, c)
    <3>3. r \in InFlight /\ Kept(r, backend[t.query]) /\ Goes(inflight[t.query], r, c)
      BY <1>0, <1>a, <2>4, <3>2, FollowedHandoverType, FollowedHandoverKept, Zenon
    <3> HIDE DEF r
    <3> QED BY <1>a, <2>1, <2>2, <2>4, <3>1, <3>2, <3>3, BecomesKept, Zenon DEF r
  <2> QED BY <2>3, <2>4, ZenonT(20)
<1>11. ASSUME Shutdown PROVE KeptInv' /\ Forward
  BY <1>11, ShutdownKept, Zenon
<1>12. ASSUME NEW q \in Queries, NEW a \in Attempt, Write(q, a) PROVE KeptInv' /\ Forward
  <2>1. /\ SetCopy(q, a, [inflight[q].att[a] EXCEPT !.state = "sent"])
        /\ UNCHANGED <<conn, posted, waiting, waitingEnded, shutDown>>
        /\ backend' = [backend EXCEPT ![q][a] = "mux"]
    BY <1>12, Zenon DEF Write
  <2>2. \A p \in Queries, o \in Attempt : backend'[p][o] = "struck" => backend[p][o] = "struck"
    BY <2>1, Zenon DEF TypeOK
  <2> QED BY <2>1, <2>2, SetCopySame, CopiesKept, Zenon DEF Live
<1>13. ASSUME NEW q \in Queries, NEW a \in Attempt, Settle(q, a) PROVE KeptInv' /\ Forward
  <2>1. PICK d \in Choice(Live) : SetCopy(q, a, HandedOver(inflight[q].att[a], inflight[q].pinned, d))
    BY <1>13, ZenonT(40) DEF Settle
  <2>2. UNCHANGED <<conn, posted, waiting, waitingEnded, shutDown, backend>>
    BY <1>13, Zenon DEF Settle
  <2> QED BY <2>1, <2>2, SetCopySame, CopiesKept, Zenon DEF Live
<1>14. ASSUME NEW q \in Queries, NEW a \in Attempt, Expire(q, a) PROVE KeptInv' /\ Forward
  <2>1. /\ SetCopy(q, a, [inflight[q].att[a] EXCEPT !.state = "lost", !.at = NoConn])
        /\ UNCHANGED <<conn, posted, waiting, waitingEnded, shutDown, backend>>
    BY <1>14, Zenon DEF Expire
  <2> QED BY <2>1, SetCopySame, CopiesKept, Zenon DEF Live
<1>15. ASSUME NEW q \in Queries, NEW a \in Attempt, Route(q, a) PROVE KeptInv' /\ Forward
  <2>1. PICK s \in {"has", "bounced", "dropped"} : backend' = [backend EXCEPT ![q][a] = s]
    BY <1>15, Zenon DEF Route
  <2>2. UNCHANGED <<inflight, conn, posted, waiting, waitingEnded, shutDown>>
    BY <1>15, ZenonT(20) DEF Route
  <2>3. \A p \in Queries, o \in Attempt : backend'[p][o] = "struck" => backend[p][o] = "struck"
    BY <2>1, ZenonT(20) DEF TypeOK
  <2> QED BY <2>2, <2>3, CopiesKept, Zenon DEF Live, SameBooks
<1>16. CASE UNCHANGED vars
  BY <1>16, CopiesKept, Zenon DEF vars, Live, SameBooks
<1> QED
  BY <1>1, <1>2, <1>3, <1>4, <1>5, <1>6, <1>7, <1>8, <1>9, <1>10, <1>11, <1>12, <1>13, <1>14,
     <1>15, <1>16, ZenonT(40) DEF Next

LEMMA KeptForgetsNothing == ASSUME TypeOK, KeptInv PROVE NothingForgotten
<1>1. ASSUME NEW q \in Queries
      PROVE  /\ inflight[q] \in InFlight /\ Kept(inflight[q], backend[q])
             /\ DOMAIN inflight[q].out = Messages
  BY Zenon DEF TypeOK, KeptInv, InFlight, Messages
<1>2. ListingExact
  BY <1>1, Zenon DEF KeptInv, ListingExact, Kept
<1>3. TimerArmed
  BY <1>1, KeptGoes, Zenon DEF TimerArmed, InFlightSet, Timed3
<1>4. ASSUME NEW q \in Queries
      PROVE  inflight[q].gen <= 3 /\ \A m \in Messages : inflight[q].out[m] <= 1
  <2>0. Kept(inflight[q], backend[q])
    BY <1>1, ZenonT(40)
  <2>1. CASE inflight[q].stage = "Done"
    BY <2>0, <2>1, ZenonT(40) DEF Kept, Ended
  <2>2. CASE inflight[q].stage = "Idle"
    BY <2>0, <2>2 DEF Kept, Books
  <2>3. CASE inflight[q].stage \notin {"Idle", "Done"}
    BY <1>1, <2>3, KeptGoes, Zenon DEF Books, Timed3
  <2> QED BY <2>1, <2>2, <2>3, Zenon
<1>5. OncePerStage
  BY <1>1, <1>4, Zenon DEF OncePerStage
<1>6. WatchedUntilTold
  BY <1>1, Zenon DEF WatchedUntilTold, Kept, Books, Ended
<1>7. LateHasHope
  BY <1>1, Zenon DEF LateHasHope, Kept
<1> QED BY <1>2, <1>3, <1>5, <1>6, <1>7, Zenon DEF NothingForgotten, KeptInv

-----------------------------------------------------------------------------
(* The theorems, with the library's facts on finite sets.                  *)

Library == INSTANCE FiniteSetTheorems
LOCAL INSTANCE WellFoundedInduction

\* The library's notion of size is this one.
LEMMA SameCount ==
    /\ \A S : IsFiniteSet(S) <=> Library!IsFiniteSet(S)
    /\ \A S : Cardinality(S) = Library!Cardinality(S)
<1>1. \A S : IsFiniteSet(S) <=> Library!IsFiniteSet(S)
  BY Zenon DEF IsFiniteSet, Library!IsFiniteSet
<1>2. \A S : Cardinality(S) = Library!Cardinality(S)
  BY Zenon DEF Cardinality, Library!Cardinality
<1> QED
  BY <1>1, <1>2, Zenon

LEMMA CountsHold == CountFacts
<1>1. EmptyCount
  BY SameCount, Library!FS_EmptySet, Zenon DEF EmptyCount
<1>2. NumberCount
  BY SameCount, Library!FS_CardinalityType, Zenon DEF NumberCount
<1>3. AddCount
  BY SameCount, Library!FS_AddElement, Zenon DEF AddCount
<1>4. RemoveCount
  BY SameCount, Library!FS_RemoveElement, Zenon DEF RemoveCount
<1>5. SubsetCount
  BY SameCount, Library!FS_Subset, Zenon DEF SubsetCount
<1>6. UnionCount
  BY SameCount, Library!FS_Union, ZenonT(40) DEF UnionCount
<1>7. IntervalCount
  BY SameCount, Library!FS_Interval, ZenonT(40) DEF IntervalCount
<1>8. LeastNumber
  <2> SUFFICES ASSUME NEW S \in SUBSET Nat, S # {} PROVE \E m \in S : \A k \in S : m <= k
    BY Zenon DEF LeastNumber
  <2> DEFINE R == {ss \in Nat \X Nat : ss[1] < ss[2]}
  <2>0. IsWellFoundedOn(R, Nat)
    BY NatLessThanWellFounded, Zenon DEF OpToRel
  <2>1. \A x, y \in Nat : x < y => <<x, y>> \in R
    BY Zenon
  <2> HIDE DEF R
  <2>2. PICK m \in S : \A y \in S : ~ (<<y, m>> \in R)
    BY <2>0, WFMin, Zenon
  <2>3. \A k \in S : k \in Nat /\ m \in Nat /\ ~(k < m)
    BY <2>1, <2>2, ZenonT(40)
  <2> QED
    BY <2>3
<1> QED
  BY <1>1, <1>2, <1>3, <1>4, <1>5, <1>6, <1>7, <1>8, ZenonT(40) DEF CountFacts

\* The types and the books hold together in every reachable state.
LEMMA KeptAlways == Spec => [](TypeOK /\ KeptInv)
<1>1. Init => KeptInv
  BY CountsHold, InitKept, ZenonT(20)
<1>2. TypeOK /\ KeptInv /\ [Next]_vars => (TypeOK /\ KeptInv)'
  BY CountsHold, NextType, NextKept, ZenonT(20)
<1> QED BY <1>1, <1>2, InitType, PTL DEF Spec

\* What a query waits for is never forgotten: a timer is armed for every
\* query in flight that has a timeout, each stage's once (arm_query); a query
\* that waits for a connection is on the list, whose count is exact, and the
\* pass that restarts it is posted as soon as one is live (post_fill); what
\* it watches is what it sent, until it is told, once; and a wait for a late
\* reply is for an attempt that was not refused.
THEOREM QueryNothingForgotten == Spec => []NothingForgotten
<1>1. TypeOK /\ KeptInv => NothingForgotten BY KeptForgetsNothing, Zenon
<1> QED BY <1>1, KeptAlways, PTL, ZenonT(20)

\* A query never goes back a stage, whatever answers, timers and connections
\* come in whatever order, and one that ended stays ended with the outcome
\* its callback heard (finish, advance).
THEOREM QueryNeverBack == Spec => NeverBack
<1>1. TypeOK /\ KeptInv /\ [Next]_vars =>
        [\A q \in Queries :
            /\ StageRank(inflight[q]) <= StageRank(inflight'[q])
            /\ inflight[q].stage = "Done" => inflight'[q].outcome = inflight[q].outcome]_vars
  BY CountsHold, NextType, NextKept, Zenon DEF Forward
<1> QED BY <1>1, KeptAlways, PTL, ZenonT(20) DEF Spec, NeverBack
=============================================================================
