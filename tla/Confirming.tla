----------------------------- MODULE Confirming -----------------------------
(***************************************************************************)
(* Confirmed sends, both sides (core/confirming): a producer numbers its   *)
(* messages, keeps each batch until every message of it is resolved, and   *)
(* sends what is unresolved again in a new batch; its consumers hand the   *)
(* messages to their programs and owe the producer their confirmations.    *)
(* Between them frames, DELIVERY_ERRORs and CONFIRMATIONs are lost and     *)
(* reordered, consumers leave and crash, connections close.                *)
(*                                                                         *)
(* The producer's Confirmer is one record, `p`, and its handlers are the   *)
(* functions of module Confirmer.  Time is what it lets happen: a batch's  *)
(* deadline passes (the batches sent again share it: `group`, the last     *)
(* number of the batch first sent), a written batch's retry time comes.    *)
(***************************************************************************)
EXTENDS Confirmer

CONSTANTS
    Consumers,
    Sizes,       \* how many messages a batch holds
    MaxIds,      \* bound: envelopes sent
    MaxLost,     \* bound: frames and CONFIRMATIONs lost, consumers crashed
    InMax,       \* incoming_max of a consumer
    Deadlines,   \* TRUE: the batches have a deadline
    Patient      \* TRUE: retry_after outlasts what is on its way

ASSUME ConfirmingAssumption ==
    /\ MaxIds \in Nat /\ MaxLost \in Nat /\ InMax \in Nat
    /\ Sizes \subseteq Nat \ {0}

VARIABLES
    p,           \* the producer's Confirmer
    conn,        \* its connections: "up", "closing", "down"
    queued,      \* envelopes the producer's outbox or a queue of it holds
    frames,      \* envelopes on their way to a consumer
    errors,      \* envelopes whose DELIVERY_ERROR is on its way back
    confirmations, \* CONFIRMATIONs on their way
    consumer,
    lost,        \* how much was lost so far
    down,        \* the producer shut down
    handled, failed  \* messages a program was done with, or failed on

network == <<frames, errors, confirmations>>
programs == <<consumer, handled, failed>>
vars == <<p, conn, marks, passed, queued, network, programs, lost, down>>

IdsOf(envelopes) == {e.id : e \in envelopes}

-----------------------------------------------------------------------------
(* The producer's steps.                                                   *)

Up == {c \in Conns : conn[c] = "up"}
None_owed == [processed |-> {}, refused |-> {}, failed |-> {}]
Fresh == [state |-> "up", queue |-> <<>>, hand |-> 0, owed |-> None_owed]

Init ==
    /\ p = [last |-> 0, next |-> 1, batches |-> <<>>, runs |-> {}, unconfirmed |-> 0,
            end |-> [n \in Numbers |-> "none"]]
    /\ conn = [c \in Conns |-> "up"]
    /\ marks = {} /\ passed = {} /\ queued = {} /\ frames = {} /\ errors = {} /\ confirmations = {}
    /\ consumer = [k \in Consumers |-> Fresh]
    /\ lost = 0 /\ down = FALSE /\ handled = {} /\ failed = {}

\* The producer becomes q; what it sent to get there waits to be written.
Becomes(changed) ==
    \E q \in {changed} :
        /\ q.next <= MaxIds + 1
        /\ p' = q
        /\ queued' = queued \cup {[id |-> b, messages |-> q.batches[b].all] :
                                 b \in Batches(q) \ (1 .. p.next - 1)}

Lose == lost < MaxLost /\ lost' = lost + 1

\* A batch closes: numbered, kept and sent, one envelope of it.
Send(size) ==
    /\ p.last + size <= MaxNumber
    /\ \E on \in Up \cup {None} : Becomes(Numbered(p, size, on))
    /\ marks' = marks \cup {p.last + size}
    /\ UNCHANGED <<conn, passed, network, programs, lost, down>>

\* The frame is written, its tracker reading SENT.
Written(e) ==
    /\ Up # {} /\ queued' = queued \ {e} /\ frames' = frames \cup {e}
    /\ UNCHANGED <<p, conn, marks, passed, errors, confirmations, programs, lost, down>>

\* The callbacks pass tells the batch, which has a retry time from then on.
ConfirmingWritten(b) ==
    /\ b \notin IdsOf(queued) /\ ~p.batches[b].written
    /\ p' = [p EXCEPT !.batches[b].written = TRUE]
    /\ UNCHANGED <<conn, marks, passed, queued, network, programs, lost, down>>

DeadlinePasses(group) ==
    /\ Deadlines /\ group \notin passed /\ passed' = passed \cup {group}
    /\ UNCHANGED <<p, conn, marks, queued, network, programs, lost, down>>

\* At its deadline a batch is given up on, by its timer, its frame still in
\* a connection's queue or gone, or by the outbox that drops the frame.
Expires(b) ==
    /\ p.batches[b].group \in passed
    /\ p' = GivenUp(p, b)
    /\ queued' \in {queued, {e \in queued : e.id # b}}
    /\ UNCHANGED <<conn, marks, passed, network, programs, lost, down>>

\* The numbers of S a consumer has, or that are on their way to or from one.
Abroad(S) ==
    \/ \E e \in frames : e.messages \cap S # {}
    \/ \E c \in confirmations : (c.processed \cup c.refused \cup c.failed) \cap S # {}
    \/ \E k \in Consumers :
         LET has == consumer[k]
         IN  (Range(has.queue) \cup {has.hand} \cup has.owed.processed \cup has.owed.refused
                \cup has.owed.failed) \cap S # {}

\* The timer at a batch's retry time.
Retry(b) ==
    /\ p.batches[b].written /\ p.batches[b].group \notin passed
    /\ Patient => ~Abroad(p.batches[b].open) /\ b \notin errors
    /\ \E on \in Up \cup {None} : Becomes(SendAgain(p, b, p.batches[b].open, on))
    /\ UNCHANGED <<conn, marks, passed, network, programs, lost, down>>

OnConfirmation(c) ==
    /\ \E on \in Up \cup {None} : Becomes(Confirmed(p, c, on))
    /\ confirmations' = confirmations \ {c}
    /\ UNCHANGED <<conn, marks, passed, frames, errors, programs, lost, down>>

\* A DELIVERY_ERROR: the retry time of a batch waited for is the back-off's;
\* any other goes on to the program (confirmed_batch_not_taken).
OnDeliveryError(b) ==
    /\ errors' = errors \ {b}
    /\ p' = IF b \in Batches(p) THEN [p EXCEPT !.batches[b].written = TRUE] ELSE p
    /\ UNCHANGED <<conn, marks, passed, queued, frames, confirmations, programs, lost, down>>

\* A connection dies, its queue going to the others, ...
ConnectionDies(c) ==
    /\ Lose /\ conn[c] = "up" /\ conn' = [conn EXCEPT ![c] = "closing"]
    /\ UNCHANGED <<p, marks, passed, queued, network, programs, down>>

\* ... it has ended for good, ...
ConnectionClosed(c) ==
    /\ conn[c] = "closing" /\ conn' = [conn EXCEPT ![c] = "down"]
    /\ \E on \in Up \cup {None} : Becomes(Closed(p, c, Batches(p) \ IdsOf(queued), on))
    /\ UNCHANGED <<marks, passed, network, programs, lost, down>>

\* ... and another to the same multiplexer comes up.
ConnectionOpens(c) ==
    /\ conn[c] = "down" /\ conn' = [conn EXCEPT ![c] = "up"]
    /\ UNCHANGED <<p, marks, passed, queued, network, programs, lost, down>>

\* shutdown_client: the outbox dropped, everything unconfirmed given up on.
Shutdown ==
    /\ down' = TRUE
    /\ p' = AllGivenUp(p)
    /\ queued' \in SUBSET queued
    /\ UNCHANGED <<conn, marks, passed, network, programs, lost>>

-----------------------------------------------------------------------------
(* The consumers and what is between.                                      *)

LoseFrame(e) ==
    /\ Lose /\ frames' = frames \ {e}
    /\ UNCHANGED <<p, conn, marks, passed, queued, errors, confirmations, programs, down>>

LoseConfirmation(c) ==
    /\ Lose /\ confirmations' = confirmations \ {c}
    /\ UNCHANGED <<p, conn, marks, passed, queued, frames, errors, programs, down>>

\* The multiplexer finds nobody for the batch.
NotTaken(e) ==
    /\ Lose /\ frames' = frames \ {e} /\ errors' = errors \cup {e.id}
    /\ UNCHANGED <<p, conn, marks, passed, queued, confirmations, programs, down>>

Ascending(S) ==
    CHOOSE s \in [1 .. Cardinality(S) -> S] : \A i, j \in DOMAIN s : i < j => s[i] < s[j]

\* split_batch: the messages queued, in the order of their numbers; a leaving
\* consumer refuses each, a full queue drops them all.
Take(k, e) ==
    LET has == consumer[k]
        full == Len(has.queue) >= InMax
    IN  /\ has.state # "gone" /\ frames' = frames \ {e}
        /\ consumer' = [consumer EXCEPT ![k] =
             CASE has.state = "leaving" -> [has EXCEPT !.owed.refused = @ \cup e.messages]
               [] has.state = "up" /\ ~full -> [has EXCEPT !.queue = @ \o Ascending(e.messages)]
               [] OTHER -> has]
        /\ IF has.state = "leaving" \/ full THEN Lose ELSE UNCHANGED lost
        /\ UNCHANGED <<p, conn, marks, passed, queued, errors, confirmations, handled, failed, down>>

\* Mutant: a message is confirmed as it is handed out.
Receive_confirms(k) ==
    /\ consumer[k].hand = 0 /\ consumer[k].queue # <<>>
    /\ consumer' = [consumer EXCEPT ![k].hand = Head(consumer[k].queue), ![k].queue = Tail(@),
                                     ![k].owed.processed = @ \cup {Head(consumer[k].queue)}]
    /\ UNCHANGED <<p, conn, marks, passed, queued, network, handled, failed, lost, down>>

Receive(k) ==
    /\ consumer[k].hand = 0 /\ consumer[k].queue # <<>>
    /\ consumer' = [consumer EXCEPT ![k].hand = Head(consumer[k].queue), ![k].queue = Tail(@)]
    /\ UNCHANGED <<p, conn, marks, passed, queued, network, handled, failed, lost, down>>

\* The program is done with the message in hand, or its handler failed.
Processed(k) ==
    LET n == consumer[k].hand
    IN  /\ n # 0 /\ handled' = handled \cup {n}
        /\ consumer' = [consumer EXCEPT ![k].hand = 0, ![k].owed.processed = @ \cup {n}]
        /\ UNCHANGED <<p, conn, marks, passed, queued, network, failed, lost, down>>

Failed(k) ==
    LET n == consumer[k].hand
    IN  /\ n # 0 /\ failed' = failed \cup {n}
        /\ consumer' = [consumer EXCEPT ![k].hand = 0, ![k].owed.failed = @ \cup {n}]
        /\ UNCHANGED <<p, conn, marks, passed, queued, network, handled, lost, down>>

\* send_owed
SendOwed(k) ==
    /\ consumer[k].owed # None_owed /\ consumer[k].hand = 0
    /\ confirmations' = confirmations \cup {consumer[k].owed}
    /\ consumer' = [consumer EXCEPT ![k].owed = None_owed]
    /\ UNCHANGED <<p, conn, marks, passed, queued, frames, errors, handled, failed, lost, down>>

Leave(k) ==
    /\ Lose /\ consumer[k].state = "up"
    /\ consumer' = [consumer EXCEPT ![k].state = "leaving"]
    /\ UNCHANGED <<p, conn, marks, passed, queued, network, handled, failed, down>>

\* close: what was read and not handled is refused, and what is owed sent.
Close(k) ==
    LET has == consumer[k]
        owed == [has.owed EXCEPT !.refused = @ \cup Range(has.queue)]
    IN  /\ has.state = "leaving" /\ has.hand = 0
        /\ confirmations' = IF owed = None_owed THEN confirmations ELSE confirmations \cup {owed}
        /\ consumer' = [consumer EXCEPT ![k] = [Fresh EXCEPT !.state = "gone"]]
        /\ UNCHANGED <<p, conn, marks, passed, queued, frames, errors, handled, failed, lost, down>>

Crash(k) ==
    /\ Lose /\ consumer[k].state # "gone"
    /\ consumer' = [consumer EXCEPT ![k] = [Fresh EXCEPT !.state = "gone"]]
    /\ UNCHANGED <<p, conn, marks, passed, queued, network, handled, failed, down>>

Restart(k) ==
    /\ consumer[k].state = "gone"
    /\ consumer' = [consumer EXCEPT ![k] = Fresh]
    /\ UNCHANGED <<p, conn, marks, passed, queued, network, handled, failed, lost, down>>

-----------------------------------------------------------------------------
ProducerNext ==
    \/ \E size \in Sizes : Send(size)
    \/ \E e \in queued : Written(e)
    \/ \E b \in Batches(p) : ConfirmingWritten(b)
    \/ \E b \in Batches(p) : DeadlinePasses(p.batches[b].group)
    \/ \E b \in Batches(p) : Expires(b)
    \/ \E b \in Batches(p) : Retry(b)
    \/ \E c \in confirmations : OnConfirmation(c)
    \/ \E b \in errors : OnDeliveryError(b)
    \/ \E c \in Conns : ConnectionDies(c)
    \/ \E c \in Conns : ConnectionClosed(c)
    \/ \E c \in Conns : ConnectionOpens(c)
    \/ Shutdown

ConsumerNext ==
    \/ \E e \in frames : LoseFrame(e)
    \/ \E c \in confirmations : LoseConfirmation(c)
    \/ \E e \in frames : NotTaken(e)
    \/ \E k \in Consumers, e \in frames : Take(k, e)
    \/ \E k \in Consumers : Receive(k)
    \/ \E k \in Consumers : Processed(k)
    \/ \E k \in Consumers : Failed(k)
    \/ \E k \in Consumers : SendOwed(k)
    \/ \E k \in Consumers : Leave(k)
    \/ \E k \in Consumers : Close(k)
    \/ \E k \in Consumers : Crash(k)
    \/ \E k \in Consumers : Restart(k)

\* What is followed ends with the producer.
Next == ~down /\ (ProducerNext \/ ConsumerNext)

Spec == Init /\ [][Next]_vars

\* Something is due that the loops of the two programs, or the multiplexer
\* between them, do without being asked.
Due ==
    /\ ~down
    /\ \/ (queued # {} /\ Up # {}) \/ confirmations # {} \/ errors # {}
       \/ \E c \in Conns : conn[c] # "up"
       \/ \E b \in Batches(p) :
            \/ b \notin IdsOf(queued) /\ ~p.batches[b].written
            \/ p.batches[b].group \in passed
            \/ p.batches[b].written /\ (Patient => ~Abroad(p.batches[b].open) /\ b \notin errors)
       \/ \E k \in Consumers :
            LET has == consumer[k]
            IN  \/ has.state = "up" /\ frames # {} /\ Len(has.queue) < InMax
                \/ has.state # "up" \/ has.queue # <<>> \/ has.hand # 0 \/ has.owed # None_owed

\* Weak fairness of the steps that are due: the programs do not all stop
\* while one has something to do.
FairSpec == Spec /\ ([]<>(~Due) \/ []<><<Next>>_vars)

-----------------------------------------------------------------------------
Outcomes == [processed : SUBSET Numbers, refused : SUBSET Numbers, failed : SUBSET Numbers]
Envelopes == [id : 1 .. MaxIds, messages : SUBSET Numbers]

\* The producer's and the consumers' state has its types, and `unconfirmed`,
\* kept by every path that resolves or moves a message, counts them.
TypeOK ==
    /\ p.last \in 0 .. MaxNumber /\ p.next \in 1 .. MaxIds + 1
    /\ Batches(p) \subseteq 1 .. p.next - 1
    /\ \A b \in Batches(p) :
         /\ p.batches[b].open \subseteq p.batches[b].all /\ p.batches[b].all \subseteq 1 .. p.last
         /\ p.batches[b].written \in BOOLEAN /\ p.batches[b].on \in Conns \cup {None}
    /\ p.unconfirmed = Cardinality({n \in 1 .. p.last : p.end[n] = "none"})
    /\ p.end \in [Numbers -> {"none", "processed", "lost"}]
    /\ conn \in [Conns -> {"up", "closing", "down"}]
    /\ queued \subseteq Envelopes /\ frames \subseteq Envelopes /\ confirmations \subseteq Outcomes
    /\ \A k \in Consumers :
         /\ consumer[k].state \in {"up", "leaving", "gone"} /\ consumer[k].hand \in 0 .. MaxNumber
         /\ consumer[k].queue \in Seq(Numbers) /\ consumer[k].owed \in Outcomes

\* Whatever went again, was refused, or moved between batches: a message sent
\* is waited for in exactly one batch until it ends, and in none after; no
\* batch is kept with nothing left to wait for.
WaitedForOnce ==
    /\ \A n \in 1 .. p.last :
         Cardinality({b \in Batches(p) : n \in p.batches[b].open}) = IF p.end[n] = "none" THEN 1 ELSE 0
    /\ \A b \in Batches(p) : p.batches[b].open # {}

\* Each unresolved number is in exactly one run, the run of the batch that
\* waits for it now, so that a CONFIRMATION finds it there; a run counts what
\* is left of it and goes with the last (rebuild_runs, resolved_in_run).
FoundByNumber ==
    /\ \A b \in Batches(p) : \A n \in p.batches[b].open :
         \E r \in p.runs : r.batch = b /\ n \in Span(r)
    /\ \A r \in p.runs : /\ r.batch \in Batches(p)
                         /\ r.left = Cardinality(Span(r) \cap p.batches[r.batch].open)
                         /\ r.left > 0
    /\ \A r, other \in p.runs : r # other => Span(r) \cap Span(other) = {}

\* A flush asked for after any batch waits, by the first run alone, exactly
\* while a message sent up to then is unconfirmed (first_unconfirmed).
FlushExact ==
    \A mark \in marks : FlushWaitsFor(p, mark) <=> \E n \in 1 .. mark : p.end[n] = "none"

\* A message is given up on only past the deadline of its own batch, after a
\* handler failed on it, by the producer's shutdown, or when an envelope drawn
\* so far could not hold it (cannot_confirm): never for a lost frame, a
\* refusal, a DELIVERY_ERROR or a connection that closed.
GivenUpForCause ==
    \A n \in 1 .. p.last :
        p.end[n] = "lost" =>
            \/ down \/ n \in failed
            \/ \E id \in 1 .. p.next - 1 : <<n, id>> \in TooLarge
            \/ \E group \in passed : n <= group /\ \A g \in marks : g < n \/ group <= g

\* The producer's end of each message is what a confirmed send promises:
\* processed only once some program was done with it, and final.
Promise == INSTANCE AtLeastOnce WITH
    Messages <- Numbers, sent <- 1 .. p.last, done <- handled, end <- p.end

AtLeastOnceSpec == Promise!Spec

\* Every message sent ends, whatever was lost or closed, with no deadline.
EverySendEnds == \A n \in Numbers : (n <= p.last) ~> (p.end[n] # "none")

\* The producer's books agree: a message waits in one batch until it ends,
\* is found there by its number, and a flush waits exactly as long.
BooksAgree == TypeOK /\ WaitedForOnce /\ FoundByNumber /\ FlushExact
=============================================================================
