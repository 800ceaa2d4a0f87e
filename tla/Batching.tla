------------------------------ MODULE Batching ------------------------------
(* A client's batching (core/batching.rs, core/bodies.rs, core/plain.rs):     *)
(* events of a type or a key with a delivery that batches gather in the open  *)
(* batch of their group, which goes when it is full, when its delay is over,  *)
(* or, with no delay, once a connection has nothing left to write.  Kept here *)
(* are the batches, their one timer and what the outbox shows of the          *)
(* connections: how much each has to write and whether it says when it has    *)
(* nothing left.  Where a frame waits once it went is Outbox's matter; a      *)
(* confirmed batch is Confirming's.                                           *)
EXTENDS Integers, Sequences, FiniteSets, SequencesExt, FiniteSetsExt

CONSTANTS Groups,      \* groups messages are batched by: [type, key] records
          NoKey,       \* the key of a group that has none
          Deliveries,  \* what the program may set: [batch, delay, timeout,
                       \* records, bytes] records, timeout a set of at most one
          Unset,       \* no delivery
          Sizes,       \* bytes of a message
          Envelope,    \* bytes of an envelope that holds nothing
          Tag,         \* bytes it adds to each message it holds
          Conns,       \* connections
          MaxSends,    \* bound: messages the program sends
          MaxChanges,  \* bound: changes of what is set
          MaxEvents    \* bound: connections that die, frames of the library's own

VARIABLES set,         \* delivery set for a type, [type, NoKey], or a key of it
          msgs,        \* messages accepted, in the order sent: their group, size
                       \* and the delivery they joined a batch by; history
          open,        \* open batches: the number of its first message |-> batch
          armed,       \* {when the timer fires}, or {} when it is stopped
          gone,        \* frames handed to the outbox, in order; history
          living,      \* registered connections alive
          load,        \* frames a connection has queued, written or waiting
          asked,       \* connections that say when they have nothing left
          held,        \* frames held for a connection to come up
          shutsDown,
          left         \* what remains of the bounds

vars == <<set, msgs, open, armed, gone, living, load, asked, held, shutsDown, left>>

Total(f, I) == FoldSet(LAMBDA i, sum : f[i] + sum, 0, I)

-----------------------------------------------------------------------------
(* What is set.                                                             *)

\* A key's setting is ahead of its type's.
delivery_of(g) ==
    IF set[g] # Unset THEN set[g] ELSE set[[g EXCEPT !.key = NoKey]]

Batched(d) == d # Unset /\ d.batch

-----------------------------------------------------------------------------
(* A batch as frames.                                                       *)

Bytes(ids, all) == Total([i \in 1..Len(ids) |-> all[ids[i]].size], 1..Len(ids))

\* The envelope's size on the wire.
EncodedLen(ids, all) == Envelope + Tag * Len(ids) + Bytes(ids, all)

\* Mutant: the messages' own sizes are measured, without the envelope's.
Fit_bodies(ids, all, max) ==
    Max({1} \cup {m \in 1..Len(ids) : Bytes(SubSeq(ids, 1, m), all) <= max})

\* How many of ids the first frame holds: over max_bytes the last messages are
\* cut, at once as many as their own sizes cover the excess with, and the rest
\* is measured again.
Fit(ids, all, max) ==
    LET fit[n \in 0..Len(ids)] ==
            LET excess == EncodedLen(SubSeq(ids, 1, n), all) - max
            IN  IF n <= 1 \/ excess <= 0 THEN n
                ELSE fit[Max({1} \cup {m \in 1..(n - 1) :
                            Bytes(SubSeq(ids, m + 1, n), all) >= excess})]
    IN  fit[Len(ids)]

\* What is cut goes next, in frames of its own.
send_batch(ids, all, max) ==
    LET from[b \in 1..(Len(ids) + 1)] ==
            IF b > Len(ids) THEN <<>>
            ELSE LET e == b - 1 + Fit(SubSeq(ids, b, Len(ids)), all, max)
                 IN  <<SubSeq(ids, b, e)>> \o from[e + 1]
    IN  from[1]

\* The frames of the batches of op that go one after another.
GoingIn(op, batches, all) ==
    FlattenSeq([i \in 1..Len(batches) |->
        send_batch(op[batches[i]].ids, all, op[batches[i]].delivery.bytes)])

\* The frames of the batches B of op, gone in the order they began.
Going(op, B, all) == GoingIn(op, SetToSortSeq(B, <), all)

-----------------------------------------------------------------------------
(* The batches open, and their timer.                                       *)

WaitsForIdle(batch) == batch.delivery.delay = 0
WaitingForIdle(op) == {b \in DOMAIN op : WaitsForIdle(op[b])}
ByDue(op) == UNION {op[b].due : b \in DOMAIN op}

Without(op, B) == [b \in DOMAIN op \ B |-> op[b]]

\* close_batch's timer: stopped with the last batch that has a time to go by.
Stopped(op, B, timer) ==
    IF (\E b \in B : op[b].due # {}) /\ ByDue(Without(op, B)) = {} THEN {} ELSE timer

\* due_at and arm_batch_timer: the timer moves to a time earlier than its own.
ArmedFor(op, timer) ==
    IF ByDue(op) # {} /\ \A t \in timer : Min(ByDue(op)) < t
    THEN {Min(ByDue(op))} ELSE timer

\* What goes with the batches B that go on their own account: those that wait
\* for a connection with nothing left to write.
OnItsOwn(op, B) == IF B = {} THEN {} ELSE B \cup WaitingForIdle(op)

-----------------------------------------------------------------------------
(* Where frames go.                                                         *)

IdleOrNone(ld, live) == live = {} \/ \E c \in live : ld[c] = 0

\* n frames placed: where the round robin points, or held.
Placed(n, ld, live, kept) ==
    IF live = {}
    THEN load' = ld /\ held' = kept + n
    ELSE /\ \E to \in [1..n -> live] :
               load' = [c \in Conns |-> ld[c] + Cardinality({i \in 1..n : to[i] = c})]
         /\ held' = kept

\* n frames placed on the connection c.
PlacedOn(c, n, ld) == load' = [ld EXCEPT ![c] = @ + n]

-----------------------------------------------------------------------------
(* Sends.                                                                   *)

\* The batch a message of group g joins.
Own(g) == {b \in DOMAIN open : open[b].group = g}

Full(ids, d, all) == Len(ids) >= d.records \/ Bytes(ids, all) >= d.bytes
NoRoom(b, d, size) ==
    Len(open[b].ids) >= d.records \/ Bytes(open[b].ids, msgs) + size > d.bytes

\* close_batches left out.
GoesAlone_ahead(g, size, full) ==
    /\ msgs' = Append(msgs, [group |-> g, size |-> size, by |-> Unset])
    /\ gone' = Append(gone, <<Len(msgs) + 1>>)
    /\ Placed(1, load, living, held)
    /\ UNCHANGED <<open, armed, asked>>

\* The message goes alone, after every batch, those of `full` gone first on
\* their own account.
GoesAlone(g, size, full) ==
    LET first  == OnItsOwn(open, full)
        frames == Going(open, first, msgs) \o Going(open, DOMAIN open \ first, msgs)
    IN  /\ msgs' = Append(msgs, [group |-> g, size |-> size, by |-> Unset])
        /\ open' = <<>>
        /\ armed' = Stopped(open, DOMAIN open, armed)
        /\ gone' = gone \o Append(frames, <<Len(msgs) + 1>>)
        /\ Placed(Len(frames) + 1, load, living, held)
        /\ UNCHANGED asked

NewBatch(g, d) ==
    [group |-> g, delivery |-> d, ids |-> <<>>,
     due |-> IF d.delay = 0 THEN d.timeout ELSE {d.delay}]

\* The message joins the open batch of its group, those of `full` gone first on
\* their own account, or opens one; full with it, that goes on its own account.
Joins(g, size, d, full) ==
    LET n       == Len(msgs) + 1
        all     == Append(msgs, [group |-> g, size |-> size, by |-> d])
        first   == OnItsOwn(open, full)
        rest    == Without(open, first)
        began   == IF Own(g) \ full = {} THEN n ELSE CHOOSE b \in Own(g) : TRUE
        before  == IF began = n THEN NewBatch(g, d) ELSE rest[began]
        joined  == [b \in DOMAIN rest \cup {began} |->
                      IF b = began THEN [before EXCEPT !.ids = Append(@, n)] ELSE rest[b]]
        timer   == IF began = n /\ before.due # {}
                   THEN ArmedFor(joined, Stopped(open, first, armed))
                   ELSE Stopped(open, first, armed)
        second  == OnItsOwn(joined, {b \in {began} : Full(joined[b].ids, d, all)})
        frames  == Going(open, first, msgs) \o Going(joined, second, all)
    IN  /\ msgs' = all
        /\ open' = Without(joined, second)
        /\ armed' = Stopped(joined, second, timer)
        /\ gone' = gone \o frames
        /\ Placed(Len(frames), load, living, held)
        /\ asked' = IF began = n /\ WaitsForIdle(before) THEN asked \cup living ELSE asked

\* batch() and send().  With a batch of the group waiting for a busy connection
\* to finish every connection is busy, and stays so with what goes first, so
\* that idle_or_none reads the same before it went.
Send(g, size) ==
    LET d     == delivery_of(g)
        full  == IF Batched(d) THEN {b \in Own(g) : NoRoom(b, d, size)} ELSE {}
        alone == \/ ~Batched(d)
                 \/ /\ Own(g) = full
                    /\ \/ size >= d.bytes
                       \/ d.delay = 0 /\ IdleOrNone(load, living)
    IN  /\ ~shutsDown
        /\ Len(msgs) < MaxSends
        /\ IF alone THEN GoesAlone(g, size, full) ELSE Joins(g, size, d, full)
        /\ UNCHANGED <<set, living, shutsDown, left>>

\* Mutant: a batch filled exactly is taken for one with room.
needs_loop_for_exact(g, size) ==
    LET d == delivery_of(g)
        ids == IF Own(g) = {} THEN {<<>>} ELSE {open[b].ids : b \in Own(g)}
    IN  \/ ~Batched(d)
        \/ d.delay = 0
        \/ \E t \in ByDue(open) : t <= 0
        \/ \E s \in ids : Len(s) + 1 >= d.records \/ Bytes(s, msgs) + size > d.bytes

\* Whether a synchronous client's send must run the loop first.
needs_loop_for(g, size) ==
    LET d == delivery_of(g)
        ids == IF Own(g) = {} THEN {<<>>} ELSE {open[b].ids : b \in Own(g)}
    IN  \/ ~Batched(d)
        \/ d.delay = 0
        \/ \E t \in ByDue(open) : t <= 0
        \/ \E s \in ids : Len(s) + 1 >= d.records \/ Bytes(s, msgs) + size >= d.bytes

-----------------------------------------------------------------------------
(* Every batch goes first.                                                  *)

close_batches ==
    LET frames == Going(open, DOMAIN open, msgs)
    IN  /\ open' = <<>>
        /\ armed' = Stopped(open, DOMAIN open, armed)
        /\ gone' = gone \o frames
        /\ Placed(Len(frames), load, living, held)

\* begin_flush; what it waits for is Outbox's.
Flush ==
    /\ ~shutsDown /\ open # <<>>
    /\ close_batches
    /\ UNCHANGED <<set, msgs, living, asked, shutsDown, left>>

set_delivery(g, d) ==
    /\ ~shutsDown /\ left.changes > 0
    /\ close_batches
    /\ set' = [set EXCEPT ![g] = d]
    /\ left' = [left EXCEPT !.changes = @ - 1]
    /\ UNCHANGED <<msgs, living, asked, shutsDown>>

\* A type's goes with its keys'.
clear_delivery(g) ==
    /\ ~shutsDown /\ left.changes > 0
    /\ close_batches
    /\ set' = [h \in Groups |->
                 IF h = g \/ (g.key = NoKey /\ h.type = g.type) THEN Unset ELSE set[h]]
    /\ left' = [left EXCEPT !.changes = @ - 1]
    /\ UNCHANGED <<msgs, living, asked, shutsDown>>

\* shutdown_client: what waits in a batch goes first, the timer stops; nothing
\* is sent after, no connection is made, and one that dies hands nothing over.
stop_batching ==
    LET frames == Going(open, DOMAIN open, msgs)
    IN  /\ open' = <<>>
        /\ armed' = {}
        /\ gone' = gone \o frames
        /\ Placed(Len(frames), load, living, held)

Shutdown ==
    /\ ~shutsDown
    /\ stop_batching
    /\ shutsDown' = TRUE
    /\ UNCHANGED <<set, msgs, living, asked, left>>

-----------------------------------------------------------------------------
(* The timer.                                                               *)

Later(op) == [b \in DOMAIN op |-> [op[b] EXCEPT !.due = {t - 1 : t \in @}]]

\* Time passes; a timer that is due fires first.
Tick ==
    /\ ByDue(open) # {} /\ 0 \notin armed
    /\ open' = Later(open)
    /\ armed' = {t - 1 : t \in armed}
    /\ UNCHANGED <<set, msgs, gone, living, load, asked, held, shutsDown, left>>

\* The order of by_due.
DueFirst(b, c) ==
    Min(open[b].due) < Min(open[c].due) \/ (open[b].due = open[c].due /\ b < c)

\* The batches whose time is up go on their own account, first come first, the
\* first of them with those that wait for a connection.
batch_timer_fired ==
    LET due    == {b \in DOMAIN open : \E t \in open[b].due : t <= 0}
        first  == {b \in due : \A c \in due \ {b} : DueFirst(b, c)}
        with   == OnItsOwn(open, first)
        frames == Going(open, with, msgs)
                    \o GoingIn(open, SetToSortSeq(due \ with, DueFirst), msgs)
        rest   == Without(open, due \cup with)
    IN  /\ 0 \in armed
        /\ open' = rest
        /\ armed' = ArmedFor(rest, {})
        /\ gone' = gone \o frames
        /\ Placed(Len(frames), load, living, held)
        /\ UNCHANGED <<set, msgs, living, asked, shutsDown, left>>

-----------------------------------------------------------------------------
(* The connections.                                                         *)

\* The batches that wait for a connection with nothing left to write go on c.
close_idle_batches(c, ld) ==
    LET B == WaitingForIdle(open)
        frames == Going(open, B, msgs)
    IN  /\ open' = Without(open, B)
        /\ armed' = Stopped(open, B, armed)
        /\ gone' = gone \o frames
        /\ PlacedOn(c, Len(frames), ld)

\* The wish to hear of nothing left is forgotten with the first write.
WriteDone_forgets(c) ==
    LET ld == [load EXCEPT ![c] = @ - 1]
    IN  /\ c \in living /\ load[c] > 0
        /\ asked' = asked \ {c}
        /\ IF ld[c] = 0 /\ c \in asked
           THEN close_idle_batches(c, ld)
           ELSE load' = ld /\ UNCHANGED <<open, armed, gone>>
        /\ UNCHANGED <<set, msgs, living, held, shutsDown, left>>

\* A frame was written: nothing left is news for a client that asked, once.
WriteDone(c) ==
    LET ld == [load EXCEPT ![c] = @ - 1]
    IN  /\ c \in living /\ load[c] > 0
        /\ IF ld[c] = 0 /\ c \in asked
           THEN asked' = asked \ {c} /\ close_idle_batches(c, ld)
           ELSE load' = ld /\ UNCHANGED <<open, armed, gone, asked>>
        /\ UNCHANGED <<set, msgs, living, held, shutsDown, left>>

\* A frame of the library's own, a heartbeat, which no batch goes before.
OwnFrame(c) ==
    /\ c \in living /\ load[c] = 0 /\ left.events > 0
    /\ load' = [load EXCEPT ![c] = 1]
    /\ left' = [left EXCEPT !.events = @ - 1]
    /\ UNCHANGED <<set, msgs, open, armed, gone, living, asked, held, shutsDown>>

\* close_idle_batches_if_idle left out.
ConnectionDied_unchecked(c) ==
    LET live == living \ {c}
    IN  /\ c \in living /\ left.events > 0
        /\ living' = live
        /\ asked' = asked \ {c}
        /\ left' = [left EXCEPT !.events = @ - 1]
        /\ \E to \in live \cup {c} :
             LET n == IF shutsDown THEN 0 ELSE load[c]
             IN  /\ to = c <=> live = {}
                 /\ load' = [[load EXCEPT ![c] = 0] EXCEPT ![to] = IF to = c THEN 0 ELSE @ + n]
                 /\ held' = IF live = {} THEN held + n ELSE held
        /\ UNCHANGED <<set, msgs, open, armed, gone, shutsDown>>

\* A connection dies: what it has not written is placed on one other or held,
\* but for the frame it was writing perhaps; then a batch that waited for a busy
\* connection waits no more once none is busy or none is live.
ConnectionDied(c) ==
    LET live == living \ {c}
    IN  /\ c \in living /\ left.events > 0
        /\ living' = live
        /\ asked' = asked \ {c}
        /\ left' = [left EXCEPT !.events = @ - 1]
        /\ \E moved \in {load[c], load[c] - 1} \cap Nat, to \in live \cup {c} :
             LET n  == IF shutsDown THEN 0 ELSE moved
                 ld == [[load EXCEPT ![c] = 0] EXCEPT ![to] = IF to = c THEN 0 ELSE @ + n]
                 kept == IF live = {} THEN held + n ELSE held
                 B  == IF IdleOrNone(ld, live) THEN WaitingForIdle(open) ELSE {}
                 frames == Going(open, B, msgs)
             IN  /\ to = c <=> live = {}
                 /\ open' = Without(open, B)
                 /\ armed' = Stopped(open, B, armed)
                 /\ gone' = gone \o frames
                 /\ Placed(Len(frames), ld, live, kept)
        /\ UNCHANGED <<set, msgs, shutsDown>>

\* A connection came up: what was held goes on it, then the batches that waited
\* for one with nothing to write.
after_connection_registration(c) ==
    /\ c \notin living /\ ~shutsDown
    /\ living' = living \cup {c}
    /\ held' = 0
    /\ close_idle_batches(c, [load EXCEPT ![c] = held])
    /\ UNCHANGED <<set, msgs, asked, shutsDown, left>>

-----------------------------------------------------------------------------

Init ==
    /\ set = [g \in Groups |-> Unset]
    /\ msgs = <<>> /\ open = <<>> /\ armed = {} /\ gone = <<>>
    /\ living = {} /\ load = [c \in Conns |-> 0] /\ asked = {} /\ held = 0
    /\ shutsDown = FALSE
    /\ left = [changes |-> MaxChanges, events |-> MaxEvents]

Next ==
    \/ \E g \in Groups, size \in Sizes : Send(g, size)
    \/ Flush
    \/ \E g \in Groups, d \in Deliveries : set_delivery(g, d)
    \/ \E g \in Groups : clear_delivery(g)
    \/ Shutdown
    \/ Tick
    \/ batch_timer_fired
    \/ \E c \in Conns : WriteDone(c)
    \/ \E c \in Conns : OwnFrame(c)
    \/ \E c \in Conns : ConnectionDied(c)
    \/ \E c \in Conns : after_connection_registration(c)

Spec == Init /\ [][Next]_vars

\* The loop runs its timers, time passes, and a live connection's writes end,
\* or the connection does (the heartbeats of Heartbeats see to it).  Weak
\* fairness, what enables each action written out.
FairSpec ==
    /\ Spec
    /\ []<>(~(ByDue(open) # {} /\ 0 \notin armed)) \/ []<><<Tick>>_vars
    /\ []<>(0 \notin armed) \/ []<><<batch_timer_fired>>_vars
    /\ \A c \in Conns :
         \/ []<>(~(c \in living /\ load[c] > 0))
         \/ []<><<WriteDone(c) \/ ConnectionDied(c)>>_vars

-----------------------------------------------------------------------------
(* Properties.                                                              *)

Numbers == 1..Len(msgs)
Order == FlattenSeq(gone)
Inside == UNION {ToSet(open[b].ids) : b \in DOMAIN open}

\* The state of the batcher and what it sees of the connections has its types:
\* a batch holds messages of its own group in the order sent, under the number
\* of its first, and no group has two.
TypeOK ==
    /\ set \in [Groups -> Deliveries \cup {Unset}]
    /\ msgs \in Seq([group : Groups, size : Sizes, by : Deliveries \cup {Unset}])
    /\ DOMAIN open \subseteq Numbers
    /\ \A b \in DOMAIN open :
         LET ids == open[b].ids
         IN  /\ ids # <<>> /\ ids[1] = b
             /\ \A i \in 1..Len(ids) : msgs[ids[i]].group = open[b].group
             /\ \A i, j \in 1..Len(ids) : i < j => ids[i] < ids[j]
             /\ \A c \in DOMAIN open : open[c].group = open[b].group => b = c
    /\ Cardinality(armed) <= 1 /\ armed \subseteq Int
    /\ living \subseteq Conns /\ asked \subseteq living
    /\ load \in [Conns -> Nat] /\ held \in Nat
    /\ shutsDown \in BOOLEAN

\* A message overtakes none sent before it, unless both joined batches, of
\* different groups: whatever is sent that does not join a batch first lets
\* every batch go.
NoneOvertaken ==
    LET at(m) == CHOOSE i \in 1..Len(Order) : Order[i] = m
    IN  \A a, b \in Numbers :
          a < b /\ b \in ToSet(Order)
            => \/ a \in ToSet(Order) /\ at(a) < at(b)
               \/ /\ msgs[a].by # Unset /\ msgs[b].by # Unset
                  /\ msgs[a].group # msgs[b].group

\* Each message accepted is in one open batch or in one frame, once, through
\* joins, cuts, closes, deaths, changes of what is set and the shutdown.
EachOnce ==
    /\ Inside \cup ToSet(Order) = Numbers
    /\ Cardinality(Inside) + Len(Order) = Len(msgs)

\* A batch with no delay waits only while every live connection has something
\* to write and will say when it has nothing left, and one is live: no wake-up
\* is lost between a write that ends, a connection that dies or comes up and a
\* batch that opens.
WaitsOnlyWhileBusy ==
    WaitingForIdle(open) # {} =>
        ~IdleOrNone(load, living) /\ living \subseteq asked

\* No batch stays past its time, its delay or its deadline, though one timer
\* serves them all and batches close in any order around it.
GoesInTime == \A b \in DOMAIN open : \A t \in open[b].due : t >= 0

\* The timer runs exactly while a batch has a time to go by, so that nothing
\* waits for it once the last such batch went.
TimerWhileDue == armed # {} <=> ByDue(open) # {}

\* A frame of several messages is one group's, all joined by one delivery, of
\* no more messages than that allows and of no more bytes on the wire.
WithinLimits ==
    \A i \in 1..Len(gone) :
        LET first == msgs[gone[i][1]]
        IN  Len(gone[i]) > 1 =>
              /\ first.by \in Deliveries /\ first.by.batch
              /\ Len(gone[i]) <= first.by.records
              /\ EncodedLen(gone[i], msgs) <= first.by.bytes
              /\ \A m \in ToSet(gone[i]) : msgs[m].by = first.by /\ msgs[m].group = first.group

\* An open batch goes by the delivery set now for its group, so that the room
\* joiners are measured by, the delivery in force, is the batch's own: every
\* change of what is set lets every batch go first, the shutdown too.
OpenAsSet ==
    \A b \in DOMAIN open :
        ~shutsDown /\ open[b].delivery = delivery_of(open[b].group)

\* A synchronous client's send that runs no loop places no frame: it only joins
\* a batch, so that it needs no connection's state brought up to date first.
QuietSend ==
    [][\A g \in Groups, size \in Sizes :
        /\ ~needs_loop_for(g, size)
        /\ Len(msgs') > Len(msgs)
        /\ msgs'[Len(msgs')].group = g /\ msgs'[Len(msgs')].size = size
        => gone' = gone]_vars

\* Every message that joined a batch goes, whatever else the program sends:
\* its batch's delay ends, or a connection it waits for finishes or dies.
EveryBatchGoes ==
    \A m \in 1..MaxSends : (m \in Inside) ~> (m \in ToSet(Order))

\* What a frame holds is what the program asked for: one group's messages,
\* within the limits of the delivery set for it when they joined.
AsAskedFor == TypeOK /\ WithinLimits /\ OpenAsSet

\* No open batch waits without cause: it has a time that has not come, and
\* the timer runs for it, or every connection is busy and will say when it is
\* not.
WaitsForCause == WaitsOnlyWhileBusy /\ GoesInTime /\ TimerWhileDue

\* Each message goes once, in the order the program sent it in.
EachOnceInOrder == EachOnce /\ NoneOvertaken
=============================================================================
