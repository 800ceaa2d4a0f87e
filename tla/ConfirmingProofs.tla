-------------------------- MODULE ConfirmingProofs --------------------------
(***************************************************************************)
(* What Confirming promises for any number of messages, consumers and      *)
(* connections.                                                            *)
(***************************************************************************)
EXTENDS Confirming, ConfirmerProofs

-----------------------------------------------------------------------------
(* The invariant: the producer's books, the cause of every message given   *)
(* up on, and that what is on its way speaks of messages sent, processed   *)
(* only when a program was done with them.                                 *)

Books ==
    /\ Sound(p, marks) /\ Full(p) /\ p.next <= MaxIds + 1
    /\ marks \subseteq 1 .. p.last /\ passed \subseteq marks

Caused == \A n \in Numbers : p.end[n] = "lost" => down \/ n \in failed \/ Late(n) \/ Over(n, p.next)

Letter(l) == [id : 1 .. MaxIds, messages : SUBSET (1 .. l)]
Owed(l, H, F) == [processed : SUBSET H, refused : SUBSET (1 .. l), failed : SUBSET F]
Holder(l, H, F) ==
    [state : {"up", "leaving", "gone"}, queue : Seq(1 .. l), hand : 0 .. l, owed : Owed(l, H, F)]

Carried ==
    /\ conn \in [Conns -> {"up", "closing", "down"}]
    /\ handled \subseteq 1 .. p.last /\ failed \subseteq 1 .. p.last
    /\ queued \subseteq Letter(p.last) /\ frames \subseteq Letter(p.last)
    /\ confirmations \subseteq Owed(p.last, handled, failed)
    /\ consumer \in [Consumers -> Holder(p.last, handled, failed)]

Inv == Books /\ Caused /\ Carried

\* What a step other than Send makes of the producer.
Moves ==
    /\ \E P, F : Follows(p, p', P, F) /\ P \subseteq handled /\ (F \subseteq failed \/ down')
    /\ Full(p') /\ p'.next <= MaxIds + 1

LEMMA Stays ==
    ASSUME NEW q, Sound(q, marks), NEW z, Sound(z, marks), z.last = q.last, z.next = q.next, z.end = q.end
    PROVE  Follows(q, z, {}, {})
<1>1. q.next \in Nat
  BY Zenon DEF Sound, Kept, Typed
<1> QED BY <1>1 DEF Follows, EndsOnly

LEMMA UnchangedMoves ==
    ASSUME Books, p' = p PROVE Moves
<1>1. Follows(p, p, {}, {})
  BY Stays, Zenon DEF Books
<1> QED BY <1>1 DEF Books, Moves

LEMMA RelabelledMoves ==
    ASSUME Books, NEW b \in Batches(p), p' = [p EXCEPT !.batches[b].written = TRUE]
    PROVE  Moves
<1> DEFINE B == [p.batches EXCEPT ![b].written = TRUE]
<1>1. Sound(p, marks) /\ Full(p) /\ p.next <= MaxIds + 1
  BY Zenon DEF Books
<1>2. p.batches \in [Batches(p) -> Batch]
  BY <1>1, Zenon DEF Sound, Kept, Typed
<1>3. p' = WithBatches(p, B)
  BY Zenon DEF WithBatches
<1>4. ASSUME NEW d \in Batches(p)
      PROVE  /\ B[d] \in Batch /\ B[d].all = All(p, d) /\ B[d].open = Open(p, d)
             /\ B[d].group = Group(p, d)
  <2>1. p.batches[d] \in Batch
    BY <1>2, Zenon
  <2> QED BY <1>2, <2>1, Zenon DEF Batch, All, Open, Group
<1>5. B \in [Batches(p) -> Batch]
  BY <1>2, <1>4, Zenon
<1> HIDE DEF B
<1>6. PICK q, z : q = p /\ z = p'
  BY Zenon
<1>7. /\ Sound(z, marks) /\ Batches(z) = Batches(q) /\ z.last = q.last /\ z.next = q.next /\ z.end = q.end
      /\ \A d \in Batches(q) : Open(z, d) = Open(q, d)
  BY <1>1, <1>3, <1>4, <1>5, <1>6, RelabelledSound
<1>8. Follows(q, z, {}, {})
  BY <1>1, <1>6, <1>7, Stays, Zenon
<1>9. Full(z)
  BY <1>1, <1>6, <1>7, Zenon DEF Full
<1>10. Follows(p, p', {}, {}) /\ Full(p')
  BY ONLY <1>6, <1>8, <1>9, Zenon
<1>11. p'.next <= MaxIds + 1
  BY ONLY <1>1, <1>6, <1>7, Zenon
<1> QED BY ONLY <1>10, <1>11 DEF Moves

LEMMA ConfirmationMoves ==
    ASSUME CountFacts, LengthCount, ImageCount, Inv, NEW c \in confirmations, OnConfirmation(c)
    PROVE  Moves
<1>1. PICK on \in Up \cup {None} : Becomes(Confirmed(p, c, on))
  BY Zenon DEF OnConfirmation
<1>2. on \in Conns \cup {None}
  BY Zenon DEF Up
<1>3. PICK z : z = Confirmed(p, c, on) /\ p' = z /\ z.next <= MaxIds + 1
  BY <1>1, Zenon DEF Becomes
<1>4. Sound(p, marks) /\ Full(p) /\ marks \subseteq Nat
  BY DEF Inv, Books
<1>5. Follows(p, z, c.processed, c.failed) /\ Full(z)
  BY <1>2, <1>3, <1>4, ConfirmedFollows, Zenon
<1>6. c.processed \subseteq handled /\ c.failed \subseteq failed
  BY Zenon DEF Inv, Carried, Owed
<1> QED BY <1>3, <1>5, <1>6, Zenon DEF Moves

LEMMA ExpiresMoves ==
    ASSUME CountFacts, Inv, NEW b \in Batches(p), Expires(b)
    PROVE  Moves
<1>1. PICK z : z = GivenUp(p, b) /\ p' = z
  BY Zenon DEF Expires
<1>2. Sound(p, marks) /\ Full(p) /\ marks \subseteq Nat /\ p.next <= MaxIds + 1
  BY DEF Inv, Books
<1>3. Group(p, b) \in passed
  BY Zenon DEF Expires, Group
<1>4. Follows(p, z, {}, {}) /\ Full(z) /\ z.next = p.next
  BY <1>1, <1>2, <1>3, GivenUpFollows, Zenon
<1> QED BY <1>1, <1>2, <1>4 DEF Moves

LEMMA RetryMoves ==
    ASSUME CountFacts, LengthCount, Inv, NEW b \in Batches(p), Retry(b)
    PROVE  Moves
<1>1. PICK on \in Up \cup {None} : Becomes(SendAgain(p, b, p.batches[b].open, on))
  BY Zenon DEF Retry
<1>2. on \in Conns \cup {None}
  BY Zenon DEF Up
<1>3. PICK z, S : z = SendAgain(p, b, S, on) /\ p' = z /\ z.next <= MaxIds + 1
  BY <1>1, Zenon DEF Becomes
<1>4. Sound(p, marks) /\ Full(p) /\ marks \subseteq Nat
  BY DEF Inv, Books
<1>5. Follows(p, z, {}, {}) /\ EmptyBefore(p, z)
  BY <1>2, <1>3, <1>4, SendAgainFollows, Zenon
<1>6. Full(z)
  BY <1>4, <1>5, Zenon DEF EmptyBefore, Full
<1> QED BY <1>3, <1>5, <1>6 DEF Moves

LEMMA ClosedMoves ==
    ASSUME CountFacts, LengthCount, ImageCount, Inv, NEW c \in Conns, ConnectionClosed(c)
    PROVE  Moves
<1>1. PICK on \in Up \cup {None} : Becomes(Closed(p, c, Batches(p) \ IdsOf(queued), on))
  BY Zenon DEF ConnectionClosed
<1>2. on \in Conns \cup {None}
  BY Zenon DEF Up
<1>3. PICK z, sent : z = Closed(p, c, sent, on) /\ p' = z /\ z.next <= MaxIds + 1
  BY <1>1, Zenon DEF Becomes
<1>4. Sound(p, marks) /\ Full(p) /\ marks \subseteq Nat
  BY DEF Inv, Books
<1>5. Follows(p, z, {}, {}) /\ Full(z)
  BY <1>2, <1>3, <1>4, ClosedFollows, Zenon
<1> QED BY <1>3, <1>5 DEF Moves

LEMMA ShutdownMoves ==
    ASSUME CountFacts, Inv, Shutdown
    PROVE  Moves
<1>1. PICK z : z = AllGivenUp(p) /\ p' = z
  BY Zenon DEF Shutdown
<1>2. Sound(p, marks) /\ p.next <= MaxIds + 1
  BY Zenon DEF Inv, Books
<1>3. Follows(p, z, {}, Numbers) /\ Full(z) /\ z.next = p.next
  BY <1>1, <1>2, ShutdownFollows, Zenon
<1> QED BY <1>1, <1>2, <1>3 DEF Moves, Shutdown
-----------------------------------------------------------------------------
(* What is on its way, step by step.                                       *)

LEMMA CarriedOn ==
    ASSUME NEW l \in Nat, NEW m \in Nat, l <= m, NEW H, NEW F, NEW I, NEW G, H \subseteq I, F \subseteq G
    PROVE  /\ 1 .. l \subseteq 1 .. m /\ Letter(l) \subseteq Letter(m)
           /\ Owed(l, H, F) \subseteq Owed(m, I, G) /\ Holder(l, H, F) \subseteq Holder(m, I, G)
<1>1. 1 .. l \subseteq 1 .. m /\ 0 .. l \subseteq 0 .. m
  OBVIOUS
<1>2. Letter(l) \subseteq Letter(m) /\ Owed(l, H, F) \subseteq Owed(m, I, G)
  BY <1>1, Zenon DEF Letter, Owed
<1>3. \A s \in Seq(1 .. l) : s \in Seq(1 .. m)
  BY <1>1
<1>4. Holder(l, H, F) \subseteq Holder(m, I, G)
  BY <1>1, <1>2, <1>3, Zenon DEF Holder
<1> QED BY <1>1, <1>2, <1>4, Zenon

\* The envelopes the producer sent to become q.
LEMMA LettersSent ==
    ASSUME NEW q, Kept(q, {}), q.next <= MaxIds + 1, NEW B, B \subseteq Batches(q)
    PROVE  {[id |-> b, messages |-> q.batches[b].all] : b \in B} \subseteq Letter(q.last)
<1>1. q.next \in Nat /\ Batches(q) \subseteq 1 .. q.next - 1
      /\ \A b \in Batches(q) : All(q, b) \subseteq 1 .. q.last
  BY Zenon DEF Kept, Typed
<1>2. ASSUME NEW b \in B
      PROVE  [id |-> b, messages |-> q.batches[b].all] \in Letter(q.last)
  <2>1. b \in 1 .. MaxIds
    BY <1>1, ConfirmerAssumption, ConfirmingAssumption
  <2>2. q.batches[b].all \in SUBSET (1 .. q.last)
    BY <1>1, Zenon DEF All
  <2> QED BY <2>1, <2>2, Zenon DEF Letter
<1> QED BY <1>2, Zenon

\* What the step does to the producer's part of what is carried.
LEMMA BecomesCarried ==
    ASSUME Inv, Moves, NEW q, Becomes(q)
    PROVE  queued' \subseteq Letter(p.last)
<1> DEFINE B == Batches(q) \ (1 .. p.next - 1)
<1>1. p' = q /\ queued' = queued \cup {[id |-> b, messages |-> q.batches[b].all] : b \in B}
      /\ q.next <= MaxIds + 1
  BY Zenon DEF Becomes
<1>2. PICK P, F : Follows(p, q, P, F)
  BY <1>1, Zenon DEF Moves
<1>3. Kept(q, {}) /\ q.last = p.last
  BY <1>2, Zenon DEF Follows, Sound
<1>4. queued \subseteq Letter(p.last) /\ B \subseteq Batches(q)
  BY Zenon DEF Inv, Carried
<1> HIDE DEF B
<1>5. {[id |-> b, messages |-> q.batches[b].all] : b \in B} \subseteq Letter(q.last)
  BY <1>1, <1>3, <1>4, LettersSent, Zenon
<1> QED BY <1>1, <1>3, <1>4, <1>5, Zenon

LEMMA ProducerCarries ==
    ASSUME Inv, Moves, confirmations' \subseteq confirmations, UNCHANGED consumer,
           UNCHANGED <<handled, failed>>, conn' \in [Conns -> {"up", "closing", "down"}],
           queued' \subseteq Letter(p.last), frames' \subseteq Letter(p.last)
    PROVE  Carried'
<1>1. p'.last = p.last
  BY Zenon DEF Moves, Follows
<1> QED BY <1>1, Zenon DEF Inv, Carried

\* A step of the producer, Send apart, moves it and carries on.
LEMMA ProducerStep ==
    ASSUME CountFacts, LengthCount, ImageCount, Inv, ProducerNext, ~ \E size \in Sizes : Send(size)
    PROVE  /\ Moves /\ Carried' /\ UNCHANGED <<marks, handled, failed>>
           /\ passed \subseteq passed' /\ passed' \subseteq marks /\ (down => down')
           /\ passed' = passed \/ p' = p
<1>1. Books /\ passed \subseteq marks /\ queued \subseteq Letter(p.last) /\ frames \subseteq Letter(p.last)
      /\ conn \in [Conns -> {"up", "closing", "down"}]
  BY Zenon DEF Inv, Books, Carried
<1>2. ASSUME NEW e \in queued, Written(e)
      PROVE  /\ Moves /\ Carried' /\ UNCHANGED <<marks, passed, handled, failed, down>>
  <2>1. Moves
    BY <1>1, <1>2, UnchangedMoves, Zenon DEF Written
  <2>2. UNCHANGED <<marks, passed, handled, failed, down, confirmations, consumer, conn>>
        /\ queued' \subseteq Letter(p.last) /\ frames' \subseteq Letter(p.last)
    BY <1>1, <1>2, Zenon DEF Written, programs
  <2> QED BY <1>1, <2>1, <2>2, ProducerCarries, Zenon
<1>3. ASSUME NEW b \in Batches(p), ConfirmingWritten(b)
      PROVE  /\ Moves /\ Carried' /\ UNCHANGED <<marks, passed, handled, failed, down>>
  <2>1. Moves
    BY <1>1, <1>3, RelabelledMoves, Zenon DEF ConfirmingWritten
  <2>2. UNCHANGED <<marks, passed, handled, failed, down, confirmations, consumer, conn, queued, frames>>
    BY <1>3, Zenon DEF ConfirmingWritten, programs, network
  <2> QED BY <1>1, <2>1, <2>2, ProducerCarries, Zenon
<1>4. ASSUME NEW b \in Batches(p), DeadlinePasses(p.batches[b].group)
      PROVE  /\ Moves /\ Carried' /\ UNCHANGED <<marks, handled, failed, down, p>>
             /\ passed \subseteq passed' /\ passed' \subseteq marks
  <2>1. Moves /\ p' = p
    BY <1>1, <1>4, UnchangedMoves, Zenon DEF DeadlinePasses
  <2>2. UNCHANGED <<marks, handled, failed, down, confirmations, consumer, conn, queued, frames>>
        /\ passed' = passed \cup {p.batches[b].group}
    BY <1>4, Zenon DEF DeadlinePasses, programs, network
  <2>3. p.batches[b].group \in marks
    BY <1>1, Zenon DEF Books, Sound, Marked, Group
  <2> QED BY <1>1, <2>1, <2>2, <2>3, ProducerCarries, Zenon
<1>5. ASSUME NEW b \in Batches(p), Expires(b)
      PROVE  /\ Moves /\ Carried' /\ UNCHANGED <<marks, passed, handled, failed, down>>
  <2>1. Moves
    BY <1>5, ExpiresMoves, Zenon
  <2>2. UNCHANGED <<marks, passed, handled, failed, down, confirmations, consumer, conn, frames>>
        /\ queued' \subseteq queued
    BY <1>5, Zenon DEF Expires, programs, network
  <2> QED BY <1>1, <2>1, <2>2, ProducerCarries, Zenon
<1>6. ASSUME NEW b \in Batches(p), Retry(b)
      PROVE  /\ Moves /\ Carried' /\ UNCHANGED <<marks, passed, handled, failed, down>>
  <2>1. Moves
    BY <1>6, RetryMoves, Zenon
  <2>2. UNCHANGED <<marks, passed, handled, failed, down, confirmations, consumer, conn, frames>>
    BY <1>6, Zenon DEF Retry, programs, network
  <2>3. queued' \subseteq Letter(p.last)
    BY <1>6, <2>1, BecomesCarried, Zenon DEF Retry
  <2> QED BY <1>1, <2>1, <2>2, <2>3, ProducerCarries, Zenon
<1>7. ASSUME NEW c \in confirmations, OnConfirmation(c)
      PROVE  /\ Moves /\ Carried' /\ UNCHANGED <<marks, passed, handled, failed, down>>
  <2>1. Moves
    BY <1>7, ConfirmationMoves, Zenon
  <2>2. UNCHANGED <<marks, passed, handled, failed, down, consumer, conn, frames>>
        /\ confirmations' \subseteq confirmations
    BY <1>7, Zenon DEF OnConfirmation, programs
  <2>3. queued' \subseteq Letter(p.last)
    BY <1>7, <2>1, BecomesCarried, Zenon DEF OnConfirmation
  <2> QED BY <1>1, <2>1, <2>2, <2>3, ProducerCarries, Zenon
<1>8. ASSUME NEW b \in errors, OnDeliveryError(b)
      PROVE  /\ Moves /\ Carried' /\ UNCHANGED <<marks, passed, handled, failed, down>>
  <2>1. Moves
    <3>1. CASE b \in Batches(p)
      BY <1>1, <1>8, <3>1, RelabelledMoves, Zenon DEF OnDeliveryError
    <3>2. CASE b \notin Batches(p)
      BY <1>1, <1>8, <3>2, UnchangedMoves, Zenon DEF OnDeliveryError
    <3> QED BY <3>1, <3>2, Zenon
  <2>2. UNCHANGED <<marks, passed, handled, failed, down, confirmations, consumer, conn, queued, frames>>
    BY <1>8, Zenon DEF OnDeliveryError, programs
  <2> QED BY <1>1, <2>1, <2>2, ProducerCarries, Zenon
<1>9. ASSUME NEW c \in Conns, ConnectionDies(c) \/ ConnectionOpens(c)
      PROVE  /\ Moves /\ Carried' /\ UNCHANGED <<marks, passed, handled, failed, down>>
  <2>1. Moves
    BY <1>1, <1>9, UnchangedMoves, Zenon DEF ConnectionDies, ConnectionOpens
  <2>2. UNCHANGED <<marks, passed, handled, failed, down, confirmations, consumer, queued, frames>>
        /\ conn' \in [Conns -> {"up", "closing", "down"}]
    BY <1>1, <1>9, Zenon DEF ConnectionDies, ConnectionOpens, programs, network
  <2> QED BY <1>1, <2>1, <2>2, ProducerCarries, Zenon
<1>10. ASSUME NEW c \in Conns, ConnectionClosed(c)
       PROVE  /\ Moves /\ Carried' /\ UNCHANGED <<marks, passed, handled, failed, down>>
  <2>1. Moves
    BY <1>10, ClosedMoves, Zenon
  <2>2. UNCHANGED <<marks, passed, handled, failed, down, confirmations, consumer, frames>>
        /\ conn' \in [Conns -> {"up", "closing", "down"}]
    BY <1>1, <1>10, Zenon DEF ConnectionClosed, programs, network
  <2>3. queued' \subseteq Letter(p.last)
    BY <1>10, <2>1, BecomesCarried, Zenon DEF ConnectionClosed
  <2> QED BY <1>1, <2>1, <2>2, <2>3, ProducerCarries, Zenon
<1>11. ASSUME Shutdown
       PROVE  /\ Moves /\ Carried' /\ UNCHANGED <<marks, passed, handled, failed>> /\ down'
  <2>1. Moves
    BY <1>11, ShutdownMoves, Zenon
  <2>2. UNCHANGED <<marks, passed, handled, failed, confirmations, consumer, conn, frames>>
        /\ queued' \subseteq queued /\ down'
    BY <1>11, Zenon DEF Shutdown, programs, network
  <2> QED BY <1>1, <2>1, <2>2, ProducerCarries, Zenon
<1> QED BY <1>1, <1>2, <1>3, <1>4, <1>5, <1>6, <1>7, <1>8, <1>9, <1>10, <1>11, Zenon DEF ProducerNext
LEMMA HolderParts ==
    ASSUME Inv, NEW k \in Consumers
    PROVE  /\ consumer[k].state \in {"up", "leaving", "gone"} /\ consumer[k].queue \in Seq(1 .. p.last)
           /\ consumer[k].hand \in 0 .. p.last /\ consumer[k].owed \in Owed(p.last, handled, failed)
           /\ consumer[k] \in Holder(p.last, handled, failed) /\ DOMAIN consumer = Consumers
<1>1. consumer[k] \in Holder(p.last, handled, failed) /\ DOMAIN consumer = Consumers
  BY Zenon DEF Inv, Carried
<1> QED BY <1>1, Zenon DEF Holder

\* A consumer's step leaves the rest of what is carried.
LEMMA ConsumerCarries ==
    ASSUME Inv, UNCHANGED <<p, conn, queued>>, handled \subseteq handled', failed \subseteq failed',
           handled' \subseteq 1 .. p.last, failed' \subseteq 1 .. p.last,
           frames' \subseteq frames,
           \A c \in confirmations' : c \in confirmations \/ c \in Owed(p.last, handled', failed'),
           DOMAIN consumer' = Consumers, consumer' = [k \in Consumers |-> consumer'[k]],
           \A k \in Consumers : consumer'[k] = consumer[k] \/ consumer'[k] \in Holder(p.last, handled', failed')
    PROVE  Carried'
<1>1. p.last \in Nat
  BY DEF Inv, Books, Sound, Kept, Typed
<1>2. /\ Owed(p.last, handled, failed) \subseteq Owed(p.last, handled', failed')
      /\ Holder(p.last, handled, failed) \subseteq Holder(p.last, handled', failed')
  <2>1. PICK l, H, F, I, G : l = p.last /\ H = handled /\ F = failed /\ I = handled' /\ G = failed'
    BY Zenon
  <2>2. l \in Nat /\ l <= l /\ H \subseteq I /\ F \subseteq G
    BY <1>1, <2>1
  <2>3. Owed(l, H, F) \subseteq Owed(l, I, G) /\ Holder(l, H, F) \subseteq Holder(l, I, G)
    BY ONLY <2>2, CarriedOn, Zenon
  <2> QED BY <2>1, <2>3, Zenon
<1>3. \A k \in Consumers : consumer'[k] \in Holder(p.last, handled', failed')
  BY <1>2, HolderParts, Zenon
<1>4. consumer' \in [Consumers -> Holder(p.last, handled', failed')]
  BY <1>3, Zenon
<1>5. confirmations' \subseteq Owed(p.last, handled', failed')
  BY <1>2, Zenon DEF Inv, Carried
<1> QED BY <1>4, <1>5, Zenon DEF Inv, Carried

LEMMA HeadTail ==
    ASSUME NEW S, NEW s \in Seq(S), s # <<>>
    PROVE  Head(s) \in S /\ Tail(s) \in Seq(S)
OBVIOUS

LEMMA Elements ==
    ASSUME NEW S, NEW s \in Seq(S)
    PROVE  \A i \in DOMAIN s : s[i] \in S
OBVIOUS

LEMMA HandQueue ==
    ASSUME NEW l, NEW H, NEW F, NEW h \in Holder(l, H, F), NEW n \in 0 .. l, NEW s \in Seq(1 .. l)
    PROVE  [h EXCEPT !.hand = n, !.queue = s] \in Holder(l, H, F)
BY Zenon DEF Holder

LEMMA HandOwed ==
    ASSUME NEW l, NEW H, NEW F, NEW h \in Holder(l, H, F), NEW I, NEW G,
           NEW n \in 0 .. l, NEW o \in Owed(l, I, G)
    PROVE  [h EXCEPT !.hand = n, !.owed = o] \in Holder(l, I, G)
BY Zenon DEF Holder

LEMMA FreshIs ==
    ASSUME NEW l \in Nat, NEW H, NEW F
    PROVE  /\ None_owed \in Owed(l, H, F) /\ Fresh \in Holder(l, H, F)
           /\ [Fresh EXCEPT !.state = "gone"] \in Holder(l, H, F)
<1>1. None_owed \in Owed(l, H, F)
  BY Zenon DEF None_owed, Owed
<1>2. <<>> \in Seq(1 .. l) /\ 0 \in 0 .. l
  OBVIOUS
<1> QED BY <1>1, <1>2, Zenon DEF Fresh, Holder

\* What became of consumer k alone.
Changed(k, x) == consumer' = [consumer EXCEPT ![k] = x]

LEMMA ChangedIs ==
    ASSUME Inv, NEW k \in Consumers, NEW x, Changed(k, x)
    PROVE  /\ DOMAIN consumer' = Consumers /\ consumer' = [j \in Consumers |-> consumer'[j]]
           /\ consumer'[k] = x /\ \A j \in Consumers : j # k => consumer'[j] = consumer[j]
BY Zenon DEF Inv, Carried, Changed

\* A finite set of numbers has an ascending order.
LEMMA AscendingIs ==
    ASSUME CountFacts, NEW S, S \subseteq Numbers
    PROVE  /\ Ascending(S) \in [1 .. Cardinality(S) -> S] /\ Cardinality(S) \in Nat
<1> DEFINE R == {w \in S \X S : w[1] <= w[2]}
<1>1. IsFiniteSet(S) /\ Cardinality(S) \in Nat
  BY NumbersFinite, Zenon
<1>2. ASSUME NEW T \in SUBSET S, T # {}
      PROVE  \E x \in T : \A y \in T : <<y, x>> \in R
  <2>1. T \subseteq 0 .. MaxNumber /\ MaxNumber \in Nat
    BY ConfirmerAssumption DEF Numbers
  <2>2. PICK m \in T : \A k \in T : k <= m
    BY <1>2, <2>1, Greatest, Zenon
  <2> QED BY <2>2, Zenon
<1>21. S \subseteq Int /\ \A x, y : <<x, y>> \in R => x <= y
  BY ConfirmerAssumption DEF Numbers
<1>3. PICK s \in [1 .. Cardinality(S) -> S] :
         IsInjective(s) /\ \A i, j \in 1 .. Cardinality(S) : i < j => <<s[i], s[j]>> \in R
  BY <1>1, <1>2, Enumeration, Zenon
<1>4. ASSUME NEW i \in DOMAIN s, NEW j \in DOMAIN s, i < j
      PROVE  s[i] < s[j]
  <2> HIDE DEF R
  <2>1. i \in Int /\ j \in Int /\ s[i] \in S /\ s[j] \in S /\ s[i] <= s[j] /\ s[i] # s[j]
    <3>1. DOMAIN s = 1 .. Cardinality(S)
      BY Zenon
    <3>2. <<s[i], s[j]>> \in R
      BY <1>3, <1>4, <3>1, Zenon
    <3>3. i \in Int /\ j \in Int /\ i # j
      BY <1>1, <1>4, <3>1
    <3>4. s[i] # s[j]
      BY <1>3, <3>3, Zenon DEF IsInjective
    <3> QED BY <1>21, <3>1, <3>2, <3>3, <3>4, Zenon
  <2>2. s[i] \in Int /\ s[j] \in Int
    BY <1>21, <2>1, Zenon
  <2> QED BY <2>1, <2>2
<1> QED BY <1>1, <1>4, Zenon DEF Ascending


LEMMA TakeIs ==
    ASSUME CountFacts, Inv, NEW k \in Consumers, NEW e \in frames, Take(k, e)
    PROVE  \E x : Changed(k, x) /\ x \in Holder(p.last, handled, failed)
<1> DEFINE has == consumer[k]
           full == Len(has.queue) >= InMax
           x == CASE has.state = "leaving" -> [has EXCEPT !.owed.refused = @ \cup e.messages]
                  [] has.state = "up" /\ ~full -> [has EXCEPT !.queue = @ \o Ascending(e.messages)]
                  [] OTHER -> has
<1>1. Changed(k, x)
  BY Zenon DEF Take, Changed
<1>2. e.messages \subseteq 1 .. p.last /\ p.last \in Nat
  BY DEF Inv, Books, Sound, Kept, Typed, Carried, Letter
<1>3. Ascending(e.messages) \in Seq(1 .. p.last)
  <2>1. e.messages \subseteq Numbers
    <3>1. p.last <= MaxNumber
      BY DEF Inv, Books, Sound, Kept, Typed
    <3> QED BY <1>2, <3>1, ConfirmerAssumption DEF Numbers
  <2>2. Ascending(e.messages) \in [1 .. Cardinality(e.messages) -> e.messages] /\ Cardinality(e.messages) \in Nat
    BY <2>1, AscendingIs, Zenon
  <2> QED BY <1>2, <2>2
<1>4. /\ has.state \in {"up", "leaving", "gone"} /\ has.queue \in Seq(1 .. p.last)
      /\ has.hand \in 0 .. p.last /\ has.owed \in Owed(p.last, handled, failed)
      /\ has \in Holder(p.last, handled, failed)
  BY HolderParts, Zenon
<1> HIDE DEF has
<1>5. [has EXCEPT !.owed.refused = @ \cup e.messages] \in Holder(p.last, handled, failed)
  BY <1>2, <1>4, Zenon DEF Holder, Owed
<1>6. [has EXCEPT !.queue = @ \o Ascending(e.messages)] \in Holder(p.last, handled, failed)
  <2>1. has.queue \o Ascending(e.messages) \in Seq(1 .. p.last)
    BY <1>3, <1>4
  <2> QED BY <1>4, <2>1, Zenon DEF Holder
<1>7. x \in Holder(p.last, handled, failed)
  BY <1>4, <1>5, <1>6, Zenon
<1> QED BY <1>1, <1>7, Zenon

\* A step of a consumer, or of what is between, carries on.
LEMMA ConsumerStep ==
    ASSUME CountFacts, Inv, ConsumerNext
    PROVE  /\ Carried' /\ UNCHANGED <<p, marks, passed, down>> /\ failed \subseteq failed'
           /\ handled' = handled \/ \E n \in 1 .. p.last : handled' = handled \cup {n}
<1>1. /\ p.last \in Nat /\ handled \subseteq 1 .. p.last /\ failed \subseteq 1 .. p.last
      /\ DOMAIN consumer = Consumers /\ consumer = [k \in Consumers |-> consumer[k]]
  BY DEF Inv, Books, Sound, Kept, Typed, Carried
<1> DEFINE Rest == UNCHANGED <<p, marks, passed, down, conn, queued>>
           Holds(x) == x \in Holder(p.last, handled', failed')
<1>2. ASSUME Rest, UNCHANGED <<consumer, handled, failed>>, frames' \subseteq frames,
             confirmations' \subseteq confirmations
      PROVE  Carried'
  BY <1>1, <1>2, ConsumerCarries, Zenon
<1>3. ASSUME Rest, NEW k \in Consumers, NEW x, Changed(k, x), Holds(x),
             frames' \subseteq frames, handled \subseteq handled', failed \subseteq failed',
             handled' \subseteq 1 .. p.last, failed' \subseteq 1 .. p.last,
             \A c \in confirmations' : c \in confirmations \/ c \in Owed(p.last, handled', failed')
      PROVE  Carried'
  <2>1. /\ DOMAIN consumer' = Consumers /\ consumer' = [j \in Consumers |-> consumer'[j]]
        /\ consumer'[k] = x /\ \A j \in Consumers : j # k => consumer'[j] = consumer[j]
    BY <1>3, ChangedIs, Zenon
  <2>2. \A j \in Consumers : consumer'[j] = consumer[j] \/ consumer'[j] \in Holder(p.last, handled', failed')
    BY <1>3, <2>1, Zenon
  <2> QED BY <1>3, <2>1, <2>2, ConsumerCarries, Zenon
<1>4. ASSUME NEW e \in frames, LoseFrame(e) \/ NotTaken(e)
      PROVE  Carried' /\ Rest /\ UNCHANGED <<handled, failed>>
  <2>1. Rest /\ UNCHANGED <<consumer, handled, failed>> /\ frames' \subseteq frames /\ confirmations' \subseteq confirmations
    BY <1>4, Zenon DEF LoseFrame, NotTaken, programs
  <2> QED BY <1>2, <2>1, Zenon
<1>5. ASSUME NEW c \in confirmations, LoseConfirmation(c)
      PROVE  Carried' /\ Rest /\ UNCHANGED <<handled, failed>>
  <2>1. Rest /\ UNCHANGED <<consumer, handled, failed>> /\ frames' \subseteq frames /\ confirmations' \subseteq confirmations
    BY <1>5, Zenon DEF LoseConfirmation, programs
  <2> QED BY <1>2, <2>1, Zenon
<1>6. ASSUME NEW k \in Consumers, NEW e \in frames, Take(k, e)
      PROVE  Carried' /\ Rest /\ UNCHANGED <<handled, failed>>
  <2>1. Rest /\ UNCHANGED <<handled, failed, confirmations>> /\ frames' \subseteq frames
    BY <1>6, Zenon DEF Take
  <2>2. PICK x : Changed(k, x) /\ x \in Holder(p.last, handled, failed)
    BY <1>6, TakeIs, Zenon
  <2> QED BY <1>1, <1>3, <2>1, <2>2, Zenon
<1>7. ASSUME NEW k \in Consumers, Receive(k)
      PROVE  Carried' /\ Rest /\ UNCHANGED <<handled, failed>>
  <2> DEFINE x == [consumer[k] EXCEPT !.hand = Head(consumer[k].queue), !.queue = Tail(consumer[k].queue)]
  <2>1. Rest /\ UNCHANGED <<handled, failed, confirmations, frames>>
    BY <1>7, Zenon DEF Receive, network
  <2>2. Changed(k, x)
    BY <1>1, <1>7, Zenon DEF Receive, Changed
  <2>3. Head(consumer[k].queue) \in 1 .. p.last /\ Tail(consumer[k].queue) \in Seq(1 .. p.last)
    <3>1. PICK s : s = consumer[k].queue
      BY Zenon
    <3>2. s \in Seq(1 .. p.last) /\ s # <<>>
      BY <1>7, <3>1, HolderParts, Zenon DEF Receive
    <3>3. Head(s) \in 1 .. p.last /\ Tail(s) \in Seq(1 .. p.last)
      BY ONLY <3>2, HeadTail, Zenon
    <3> QED BY ONLY <3>1, <3>3, Zenon
  <2>4. x \in Holder(p.last, handled, failed)
    <3>1. consumer[k] \in Holder(p.last, handled, failed)
      BY HolderParts, Zenon
    <3>2. Head(consumer[k].queue) \in 0 .. p.last
      BY <1>1, <2>3
    <3> QED BY <2>3, <3>1, <3>2, HandQueue, Zenon
  <2> HIDE DEF x
  <2> QED BY <1>1, <1>3, <2>1, <2>2, <2>4, Zenon
<1>8. ASSUME NEW k \in Consumers, Processed(k)
      PROVE  Carried' /\ Rest /\ UNCHANGED failed /\ \E n \in 1 .. p.last : handled' = handled \cup {n}
  <2> DEFINE n == consumer[k].hand
             o == [consumer[k].owed EXCEPT !.processed = consumer[k].owed.processed \cup {n}]
             x == [consumer[k] EXCEPT !.hand = 0, !.owed = o]
  <2>1. Rest /\ UNCHANGED <<failed, confirmations, frames>> /\ handled' = handled \cup {n} /\ n # 0
    BY <1>8, Zenon DEF Processed, network
  <2>2. Changed(k, x)
    BY <1>1, <1>8, Zenon DEF Processed, Changed
  <2>3. n \in 1 .. p.last
    BY <1>1, <2>1, HolderParts
  <2>4. o \in Owed(p.last, handled', failed')
    <3>1. consumer[k].owed \in Owed(p.last, handled, failed)
      BY HolderParts, Zenon
    <3> QED BY <2>1, <3>1, Zenon DEF Owed
  <2>5. x \in Holder(p.last, handled', failed')
    <3>1. consumer[k] \in Holder(p.last, handled, failed) /\ 0 \in 0 .. p.last
      BY <1>1, HolderParts
    <3> HIDE DEF o
    <3> QED BY <2>4, <3>1, HandOwed, Zenon
  <2>6. handled \subseteq handled' /\ handled' \subseteq 1 .. p.last
    BY <1>1, <2>1, <2>3, Zenon
  <2> HIDE DEF x
  <2> QED BY <1>1, <1>3, <2>1, <2>2, <2>3, <2>5, <2>6, Zenon
<1>9. ASSUME NEW k \in Consumers, Failed(k)
      PROVE  Carried' /\ Rest /\ UNCHANGED handled /\ failed \subseteq failed'
  <2> DEFINE n == consumer[k].hand
             o == [consumer[k].owed EXCEPT !.failed = consumer[k].owed.failed \cup {n}]
             x == [consumer[k] EXCEPT !.hand = 0, !.owed = o]
  <2>1. Rest /\ UNCHANGED <<handled, confirmations, frames>> /\ failed' = failed \cup {n} /\ n # 0
    BY <1>9, Zenon DEF Failed, network
  <2>2. Changed(k, x)
    BY <1>1, <1>9, Zenon DEF Failed, Changed
  <2>3. n \in 1 .. p.last
    BY <1>1, <2>1, HolderParts
  <2>4. o \in Owed(p.last, handled', failed')
    <3>1. consumer[k].owed \in Owed(p.last, handled, failed)
      BY HolderParts, Zenon
    <3> QED BY <2>1, <3>1, Zenon DEF Owed
  <2>5. x \in Holder(p.last, handled', failed')
    <3>1. consumer[k] \in Holder(p.last, handled, failed) /\ 0 \in 0 .. p.last
      BY <1>1, HolderParts
    <3> HIDE DEF o
    <3> QED BY <2>4, <3>1, HandOwed, Zenon
  <2>6. failed \subseteq failed' /\ failed' \subseteq 1 .. p.last
    BY <1>1, <2>1, <2>3, Zenon
  <2> HIDE DEF x
  <2> QED BY <1>1, <1>3, <2>1, <2>2, <2>3, <2>5, <2>6, Zenon
<1>10. ASSUME NEW k \in Consumers, SendOwed(k)
       PROVE  Carried' /\ Rest /\ UNCHANGED <<handled, failed>>
  <2> DEFINE x == [consumer[k] EXCEPT !.owed = None_owed]
  <2>1. Rest /\ UNCHANGED <<handled, failed, frames>> /\ confirmations' = confirmations \cup {consumer[k].owed}
    BY <1>10, Zenon DEF SendOwed
  <2>2. Changed(k, x)
    BY <1>1, <1>10, Zenon DEF SendOwed, Changed
  <2>3. None_owed \in Owed(p.last, handled, failed) /\ consumer[k].owed \in Owed(p.last, handled, failed)
    BY <1>1, FreshIs, HolderParts, Zenon
  <2>4. x \in Holder(p.last, handled, failed)
    BY <2>3, HolderParts, Zenon DEF Holder
  <2> HIDE DEF x
  <2> QED BY <1>1, <1>3, <2>1, <2>2, <2>3, <2>4, Zenon
<1>11. ASSUME NEW k \in Consumers, Leave(k)
       PROVE  Carried' /\ Rest /\ UNCHANGED <<handled, failed>>
  <2> DEFINE x == [consumer[k] EXCEPT !.state = "leaving"]
  <2>1. Rest /\ UNCHANGED <<handled, failed, frames, confirmations>>
    BY <1>11, Zenon DEF Leave, network
  <2>2. Changed(k, x)
    BY <1>1, <1>11, Zenon DEF Leave, Changed
  <2>3. x \in Holder(p.last, handled, failed)
    BY HolderParts, Zenon DEF Holder
  <2> HIDE DEF x
  <2> QED BY <1>1, <1>3, <2>1, <2>2, <2>3, Zenon
<1>12. ASSUME NEW k \in Consumers, Close(k)
       PROVE  Carried' /\ Rest /\ UNCHANGED <<handled, failed>>
  <2> DEFINE x == [Fresh EXCEPT !.state = "gone"]
             o == [consumer[k].owed EXCEPT !.refused = @ \cup Range(consumer[k].queue)]
  <2>1. Rest /\ UNCHANGED <<handled, failed, frames>> /\ confirmations' \subseteq confirmations \cup {o}
    BY <1>12, Zenon DEF Close
  <2>2. Changed(k, x)
    BY <1>12, Zenon DEF Close, Changed
  <2>3. x \in Holder(p.last, handled, failed)
    BY <1>1, FreshIs, Zenon
  <2>4. Range(consumer[k].queue) \subseteq 1 .. p.last
    <3>1. consumer[k].queue \in Seq(1 .. p.last)
      BY HolderParts, Zenon
    <3>2. PICK s : s = consumer[k].queue
      BY Zenon
    <3>3. \A i \in DOMAIN s : s[i] \in 1 .. p.last
      BY ONLY <3>1, <3>2, Elements, Zenon
    <3> QED BY <3>2, <3>3, Zenon DEF Range
  <2>5. o \in Owed(p.last, handled, failed)
    <3>1. consumer[k].owed \in Owed(p.last, handled, failed)
      BY HolderParts, Zenon
    <3> QED BY <2>4, <3>1, Zenon DEF Owed
  <2> HIDE DEF x, o
  <2> QED BY <1>1, <1>3, <2>1, <2>2, <2>3, <2>5, Zenon
<1>13. ASSUME NEW k \in Consumers, Crash(k) \/ Restart(k)
       PROVE  Carried' /\ Rest /\ UNCHANGED <<handled, failed>>
  <2>1. Rest /\ UNCHANGED <<handled, failed, frames, confirmations>>
    BY <1>13, Zenon DEF Crash, Restart, network
  <2>2. PICK x : Changed(k, x) /\ x \in {Fresh, [Fresh EXCEPT !.state = "gone"]}
    BY <1>13, Zenon DEF Crash, Restart, Changed
  <2>3. x \in Holder(p.last, handled, failed)
    BY <1>1, <2>2, FreshIs
  <2> QED BY <1>1, <1>3, <2>1, <2>2, <2>3, Zenon
<1> HIDE DEF Holds
<1> QED BY <1>4, <1>5, <1>6, <1>7, <1>8, <1>9, <1>10, <1>11, <1>12, <1>13, Zenon DEF ConsumerNext
-----------------------------------------------------------------------------
(* The invariant is one.                                                   *)

LEMMA InitInv ==
    ASSUME CountFacts, Init PROVE Inv
<1> DEFINE empty == <<>>
           ends == [n \in Numbers |-> "none"]
<1>1. p = Record(0, 1, empty, {}, 0, ends)
  BY Zenon DEF Init, Record
<1>2. DOMAIN empty = {} /\ empty \in [{} -> Batch] /\ ends \in [Numbers -> Ends] /\ \A n \in Numbers : ends[n] = "none"
  BY DEF Ends
<1> HIDE DEF empty, ends
<1>3. PICK q, none : q = p /\ none = {} /\ q = Record(0, 1, empty, none, 0, ends)
  BY <1>1, Zenon
<1>4. IsRecord(q) /\ q.last = 0 /\ q.next = 1 /\ q.batches = empty /\ q.runs = none /\ q.unconfirmed = 0 /\ q.end = ends
  BY ONLY <1>3, RecordFields, RecordIs
<1>5. Batches(q) = {} /\ Pending(q) = {}
  BY <1>2, <1>4 DEF Batches, Pending, Numbers
<1>6. Typed(q)
  <2>1. q.last \in 0 .. MaxNumber /\ q.next \in Nat \ {0} /\ q.unconfirmed \in Int /\ q.runs \subseteq Run
    BY <1>3, <1>4, ConfirmerAssumption, ConfirmingAssumption
  <2>2. q.batches \in [Batches(q) -> Batch] /\ Batches(q) \subseteq 1 .. q.next - 1 /\ q.end \in [Numbers -> Ends]
    BY <1>2, <1>4, <1>5, Zenon
  <2> QED BY <1>4, <2>1, <2>2, Zenon DEF Typed
<1>7. q.unconfirmed = Cardinality(Pending(q) \ {})
  <2>1. Pending(q) \ {} = {} /\ Cardinality({}) = 0
    BY <1>5, Zenon DEF CountFacts, EmptyCount
  <2> QED BY <1>4, <2>1, Zenon
<1>8. Kept(q, {})
  BY <1>2, <1>4, <1>5, <1>6, <1>7, Zenon DEF Kept
<1>9. Found(q, 0) /\ Marked(q, {}) /\ Full(q)
  BY <1>3, <1>4, <1>5, Zenon DEF Found, Marked, Full
<1>10. Books
  BY <1>3, <1>4, <1>8, <1>9, ConfirmerAssumption, ConfirmingAssumption DEF Books, Sound, Init
<1>11. Caused
  BY <1>2, <1>3, <1>4, Zenon DEF Caused
<1>12. Carried
  <2>1. \A k \in Consumers : consumer[k] = Fresh
    BY Zenon DEF Init
  <2>2. Fresh \in Holder(0, {}, {})
    BY FreshIs, Zenon
  <2> QED BY <1>3, <1>4, <2>1, <2>2, Zenon DEF Carried, Init
<1> QED BY <1>10, <1>11, <1>12, Zenon DEF Inv

LEMMA MovesKeep ==
    ASSUME Inv, Moves, UNCHANGED <<marks, handled>>, failed \subseteq failed',
           passed \subseteq passed', passed' \subseteq marks, down => down'
    PROVE  Books' /\ Caused'
<1>1. PICK q, P, F : /\ q = p' /\ Follows(p, q, P, F) /\ P \subseteq handled /\ (F \subseteq failed \/ down')
                     /\ Full(q) /\ q.next <= MaxIds + 1
  BY Zenon DEF Moves
<1>2. Sound(q, marks) /\ q.last = p.last /\ EndsOnly(p, q, P, F)
  BY <1>1, Zenon DEF Follows
<1>3. Books'
  BY <1>1, <1>2, Zenon DEF Inv, Books
<1>4. \A n : (Late(n) => Late(n)') /\ (Over(n, p.next) => Over(n, q.next))
  <2>1. p.next \in Nat /\ q.next \in Nat /\ p.next <= q.next
    BY <1>1, Zenon DEF Follows, Inv, Books, Sound, Kept, Typed
  <2> QED BY <2>1, OverOn, Zenon DEF Late
<1>5. ASSUME NEW n \in Numbers, q.end[n] = "lost"
      PROVE  down' \/ n \in failed' \/ Late(n)' \/ Over(n, q.next)
  <2>1. CASE q.end[n] = p.end[n]
    BY <1>4, <1>5, <2>1, Zenon DEF Inv, Caused
  <2>2. CASE n \in F \/ Late(n) \/ Over(n, q.next)
    BY <1>1, <1>4, <2>2, Zenon
  <2> QED BY <1>2, <1>5, <2>1, <2>2, Zenon DEF EndsOnly
<1> QED BY <1>1, <1>3, <1>5, Zenon DEF Caused

LEMMA SendKeeps ==
    ASSUME CountFacts, LengthCount, Inv, NEW size \in Sizes, Send(size)
    PROVE  /\ Inv' /\ p'.last = p.last + size /\ p.last + size <= MaxNumber
           /\ p.last \in Nat /\ size \in Nat \ {0} /\ handled' = handled
           /\ \A n \in Numbers : p'.end[n] = p.end[n] \/ (n \in p.last + 1 .. p.last + size /\ p'.end[n] = "lost")
<1> DEFINE l == p.last + size
<1>1. PICK on \in Up \cup {None} : Becomes(Numbered(p, size, on))
  BY Zenon DEF Send
<1>2. on \in Conns \cup {None} /\ size \in Nat \ {0} /\ l <= MaxNumber
  BY ConfirmerAssumption, ConfirmingAssumption, Zenon DEF Up, Send
<1>3. PICK z : /\ z = Numbered(p, size, on) /\ p' = z /\ z.next <= MaxIds + 1
               /\ queued' = queued \cup {[id |-> b, messages |-> z.batches[b].all] : b \in Batches(z) \ (1 .. p.next - 1)}
  BY <1>1, Zenon DEF Becomes
<1>4. /\ Sound(p, marks) /\ Full(p) /\ marks \subseteq 1 .. p.last /\ passed \subseteq marks
      /\ p.last \in Nat /\ p.next \in Nat \ {0}
  BY DEF Inv, Books, Sound, Kept, Typed
<1>5. /\ Sound(z, marks \cup {l}) /\ Full(z)
      /\ z.last = l /\ z.next = p.next + 1 /\ NewOnly(p, z, l)
  <2>1. PICK q, m : q = p /\ m = l
    BY Zenon
  <2>2. Within(marks, q.last)
    BY <1>4, <2>1 DEF Within
  <2>3. Sound(q, marks) /\ Full(q) /\ m = q.last + size /\ m <= MaxNumber /\ z = Numbered(q, size, on)
    BY <1>2, <1>3, <1>4, <2>1, Zenon
  <2>4. /\ Sound(z, marks \cup {m}) /\ Full(z) /\ z.last = m /\ z.next = q.next + 1
        /\ NewOnly(q, z, m)
    BY ONLY <1>2, <2>2, <2>3, CountFacts, LengthCount, SentSound
  <2> QED BY <2>1, <2>4, Zenon
<1>6. l \in Nat /\ p.last < l /\ p.last <= l
  BY <1>2, <1>4
<1> HIDE DEF l
<1>7. marks' = marks \cup {l} /\ UNCHANGED <<conn, passed, frames, confirmations, consumer, handled, failed, down>>
  BY Zenon DEF Send, network, programs, l
<1>8. Books'
  <2>1. marks \cup {l} \subseteq 1 .. l /\ passed \subseteq marks \cup {l}
    BY <1>4, <1>6
  <2> QED BY <1>3, <1>5, <1>7, <2>1, Zenon DEF Books
<1>9. \A n : Late(n) => Late(n)'
  <2> SUFFICES ASSUME NEW n, Late(n) PROVE Late(n)'
    BY Zenon
  <2>1. PICK group \in passed : n <= group /\ \A g \in marks : g < n \/ group <= g
    BY Zenon DEF Late
  <2>2. group <= l
    BY <1>4, <1>6, <2>1
  <2> QED BY <1>7, <2>1, <2>2, Zenon DEF Late
<1>10. Caused'
  <2>1. p.next \in Nat /\ z.next \in Nat /\ p.next <= z.next
    BY <1>4, <1>5
  <2>2. \A n : Over(n, p.next) => Over(n, z.next)
    BY <2>1, OverOn, Zenon
  <2> QED BY <1>3, <1>5, <1>7, <1>9, <2>2, Zenon DEF Inv, Caused, TooLargeOnly, NewOnly
<1>11. /\ 1 .. p.last \subseteq 1 .. l /\ Letter(p.last) \subseteq Letter(l)
       /\ Owed(p.last, handled, failed) \subseteq Owed(l, handled, failed)
       /\ Holder(p.last, handled, failed) \subseteq Holder(l, handled, failed)
  BY <1>4, <1>6, CarriedOn, Zenon
<1>12. {[id |-> b, messages |-> z.batches[b].all] : b \in Batches(z) \ (1 .. p.next - 1)} \subseteq Letter(l)
  <2>1. PICK B : B = Batches(z) \ (1 .. p.next - 1)
    BY Zenon
  <2>2. Kept(z, {}) /\ B \subseteq Batches(z)
    BY <1>5, <2>1, Zenon DEF Sound
  <2>3. {[id |-> b, messages |-> z.batches[b].all] : b \in B} \subseteq Letter(z.last)
    BY <1>3, <2>2, LettersSent, Zenon
  <2> QED BY <1>5, <2>1, <2>3, Zenon
<1>13. consumer' \in [Consumers -> Holder(l, handled, failed)]
  BY <1>7, <1>11, Zenon DEF Inv, Carried
<1>14. Carried'
  BY <1>3, <1>5, <1>7, <1>11, <1>12, <1>13, Zenon DEF Inv, Carried
<1> QED BY <1>2, <1>3, <1>4, <1>5, <1>7, <1>8, <1>10, <1>14, Zenon DEF Inv, l, TooLargeOnly, NewOnly

\* Each step keeps the invariant, and is one the promise allows.
LEMMA NextKeeps ==
    ASSUME CountFacts, LengthCount, ImageCount, Inv, [Next]_vars
    PROVE  Inv' /\ [Promise!Next]_(Promise!vars)
<1>1. /\ p.last \in 0 .. MaxNumber /\ p.end \in [Numbers -> Ends] /\ handled \subseteq 1 .. p.last
      /\ 1 .. p.last \subseteq Numbers
  BY ConfirmerAssumption DEF Inv, Books, Sound, Kept, Typed, Carried, Numbers
<1>2. ASSUME NEW size \in Sizes, Send(size)
      PROVE  Inv' /\ [Promise!Next]_(Promise!vars)
  <2> DEFINE S == p.last + 1 .. p.last + size
             L == {n \in S : p'.end[n] # p.end[n]}
  <2>1. /\ Inv' /\ p'.last = p.last + size /\ p.last + size <= MaxNumber
        /\ p.last \in Nat /\ size \in Nat \ {0} /\ handled' = handled
        /\ \A n \in Numbers : p'.end[n] = p.end[n] \/ (n \in S /\ p'.end[n] = "lost")
    BY <1>2, SendKeeps, Zenon
  <2>2. S \in SUBSET (Numbers \ (1 .. p.last)) /\ 1 .. p'.last = (1 .. p.last) \cup S
    BY <2>1, ConfirmerAssumption DEF Numbers
  <2> HIDE DEF S
  <2>3. p'.end \in [Numbers -> Ends] /\ L \in SUBSET S
    BY <2>1, Zenon DEF Inv, Books, Sound, Kept, Typed
  <2>4. p'.end = [n \in Numbers |-> IF n \in L THEN "lost" ELSE p.end[n]]
    BY <2>1, <2>3, Zenon
  <2> HIDE DEF L
  <2>5. Promise!Send(S, L)
    BY <2>1, <2>2, <2>4, Zenon DEF Promise!Send
  <2> QED BY <2>1, <2>2, <2>3, <2>5, Zenon DEF Promise!Next
<1>3. ASSUME ProducerNext, ~ \E size \in Sizes : Send(size)
      PROVE  Inv' /\ [Promise!Next]_(Promise!vars)
  <2>1. /\ Moves /\ Carried' /\ UNCHANGED <<marks, handled, failed>>
        /\ passed \subseteq passed' /\ passed' \subseteq marks /\ (down => down')
    BY <1>3, ProducerStep, Zenon
  <2>2. Inv'
    BY <2>1, MovesKeep, Zenon DEF Inv
  <2>3. PICK q, P, F : q = p' /\ Follows(p, q, P, F) /\ P \subseteq handled
    BY <2>1, Zenon DEF Moves
  <2> DEFINE A == {n \in Numbers : p.end[n] # q.end[n] /\ q.end[n] = "processed"}
             B == {n \in Numbers : p.end[n] # q.end[n] /\ q.end[n] = "lost"}
  <2>4. EndsOnly(p, q, P, F) /\ q.last = p.last /\ q.end \in [Numbers -> Ends]
    BY <2>3, Zenon DEF Follows, Sound, Kept, Typed
  <2>5. \A n \in A \cup B : n \in 1 .. p.last /\ p.end[n] = "none"
    BY <1>1, <2>4 DEF EndsOnly, Pending, Numbers
  <2>6. A \subseteq handled
    BY <2>3, <2>4, Zenon DEF EndsOnly
  <2>7. q.end = [n \in Numbers |-> IF n \in A THEN "processed" ELSE IF n \in B THEN "lost" ELSE p.end[n]]
    BY <1>1, <2>4, Zenon DEF EndsOnly
  <2>8. A \in SUBSET handled /\ B \in SUBSET (1 .. p.last) /\ A \cap B = {}
    BY <2>5, <2>6, Zenon
  <2> HIDE DEF A, B
  <2>9. Promise!End(A, B)
    BY <2>1, <2>3, <2>4, <2>5, <2>6, <2>7, <2>8, Zenon DEF Promise!End
  <2> QED BY <2>2, <2>8, <2>9, Zenon DEF Promise!Next
<1>4. ASSUME ConsumerNext
      PROVE  Inv' /\ [Promise!Next]_(Promise!vars)
  <2>1. /\ Carried' /\ UNCHANGED <<p, marks, passed, down>> /\ failed \subseteq failed'
        /\ handled' = handled \/ \E n \in 1 .. p.last : handled' = handled \cup {n}
    BY <1>4, ConsumerStep, Zenon
  <2>2. Books' /\ Caused'
    BY <2>1, Zenon DEF Inv, Books, Caused, Late
  <2>3. CASE handled' = handled
    BY <2>1, <2>2, <2>3, Zenon DEF Inv, Promise!vars
  <2>4. CASE \E n \in 1 .. p.last : handled' = handled \cup {n}
    <3>1. PICK n \in 1 .. p.last : handled' = handled \cup {n}
      BY <2>4, Zenon
    <3>2. Promise!Process(n) /\ n \in Numbers
      BY <1>1, <2>1, <3>1, Zenon DEF Promise!Process
    <3> QED BY <2>1, <2>2, <3>2, Zenon DEF Inv, Promise!Next
  <2> QED BY <2>1, <2>3, <2>4, Zenon
<1>5. CASE UNCHANGED vars
  BY <1>5, Zenon DEF vars, network, programs, Inv, Books, Caused, Late, Carried, Promise!vars
<1> QED BY <1>2, <1>3, <1>4, <1>5, Zenon DEF Next
-----------------------------------------------------------------------------
(* What the invariant says of a state.                                     *)

LEMMA InvTypes ==
    ASSUME CountFacts, Inv PROVE TypeOK
<1>1. /\ Typed(p) /\ Kept(p, {}) /\ p.next <= MaxIds + 1 /\ p.last \in 0 .. MaxNumber /\ p.next \in Nat \ {0}
      /\ Batches(p) \subseteq 1 .. p.next - 1 /\ p.end \in [Numbers -> Ends]
      /\ p.batches \in [Batches(p) -> Batch]
  BY Zenon DEF Inv, Books, Sound, Kept, Typed
<1>2. \A b \in Batches(p) :
         /\ p.batches[b].open \subseteq p.batches[b].all /\ p.batches[b].all \subseteq 1 .. p.last
         /\ p.batches[b].written \in BOOLEAN /\ p.batches[b].on \in Conns \cup {None}
  BY <1>1, Zenon DEF Kept, Batch, Open, All
<1>3. p.unconfirmed = Cardinality({n \in 1 .. p.last : p.end[n] = "none"})
  <2>1. {n \in 1 .. p.last : p.end[n] = "none"} = Pending(p) \ {}
    BY <1>1, ConfirmerAssumption DEF Pending, Numbers
  <2> QED BY <1>1, <2>1, Zenon DEF Kept
<1>4. /\ 1 .. p.last \subseteq Numbers /\ 0 .. p.last \subseteq 0 .. MaxNumber
  BY <1>1, ConfirmerAssumption DEF Numbers
<1>5. handled \subseteq Numbers /\ failed \subseteq Numbers
  BY <1>4, Zenon DEF Inv, Carried
<1>6. Letter(p.last) \subseteq Envelopes /\ Owed(p.last, handled, failed) \subseteq Outcomes
  BY <1>4, <1>5, Zenon DEF Letter, Envelopes, Owed, Outcomes
<1>7. conn \in [Conns -> {"up", "closing", "down"}] /\ queued \subseteq Envelopes /\ frames \subseteq Envelopes
      /\ confirmations \subseteq Outcomes
  BY <1>6, Zenon DEF Inv, Carried
<1>8. ASSUME NEW k \in Consumers
      PROVE  /\ consumer[k].state \in {"up", "leaving", "gone"} /\ consumer[k].hand \in 0 .. MaxNumber
             /\ consumer[k].queue \in Seq(Numbers) /\ consumer[k].owed \in Outcomes
  <2>1. /\ consumer[k].state \in {"up", "leaving", "gone"} /\ consumer[k].queue \in Seq(1 .. p.last)
        /\ consumer[k].hand \in 0 .. p.last /\ consumer[k].owed \in Owed(p.last, handled, failed)
    BY HolderParts, Zenon
  <2>2. consumer[k].queue \in Seq(Numbers)
    <3>1. PICK s, S : s = consumer[k].queue /\ S = 1 .. p.last
      BY Zenon
    <3>2. s \in Seq(S) /\ S \subseteq Numbers
      BY <1>4, <2>1, <3>1, Zenon
    <3>3. s \in Seq(Numbers)
      BY ONLY <3>2
    <3> QED BY <3>1, <3>3, Zenon
  <2> QED BY <1>4, <1>6, <2>1, <2>2, Zenon
<1>9. p.last \in 0 .. MaxNumber /\ p.next \in 1 .. MaxIds + 1
  BY <1>1, ConfirmerAssumption, ConfirmingAssumption
<1> QED BY <1>1, <1>2, <1>3, <1>7, <1>8, <1>9, Zenon DEF TypeOK, Ends

LEMMA InvWaited ==
    ASSUME CountFacts, Inv PROVE WaitedForOnce
<1>1. Kept(p, {}) /\ Full(p) /\ p.last \in 0 .. MaxNumber
  BY Zenon DEF Inv, Books, Sound, Kept, Typed
<1>2. ASSUME NEW n \in 1 .. p.last
      PROVE  Cardinality({b \in Batches(p) : n \in p.batches[b].open}) = IF p.end[n] = "none" THEN 1 ELSE 0
  <2> DEFINE W == {b \in Batches(p) : n \in p.batches[b].open}
  <2>1. W = {b \in Batches(p) : n \in Open(p, b)} /\ n \in Numbers
    BY <1>1, ConfirmerAssumption DEF Open, Numbers
  <2>2. IsFiniteSet({}) /\ Cardinality({}) = 0
    BY Zenon DEF CountFacts, EmptyCount
  <2>3. CASE p.end[n] = "none"
    <3>1. n \in Pending(p)
      BY <2>1, <2>3 DEF Pending
    <3>2. PICK b \in Batches(p) : n \in Open(p, b)
      BY <1>1, <3>1, Zenon DEF Kept
    <3>3. \A d \in Batches(p) : n \in Open(p, d) => d = b
      BY <1>1, <3>2, Zenon DEF Kept
    <3>4. PICK E : E = {}
      BY Zenon
    <3>5. b \notin E /\ IsFiniteSet(E) /\ Cardinality(E) = 0
      BY <2>2, <3>4, Zenon
    <3>6. AddCount
      BY Zenon DEF CountFacts
    <3>7. Cardinality(E \cup {b}) = 1
      BY ONLY <3>5, <3>6 DEF AddCount
    <3>8. W = E \cup {b}
      BY <2>1, <3>2, <3>3, <3>4, Zenon
    <3> QED BY <2>3, <3>7, <3>8, Zenon
  <2>4. CASE p.end[n] # "none"
    <3>1. n \notin Pending(p)
      BY <2>4, Zenon DEF Pending
    <3>2. \A b \in Batches(p) : n \notin Open(p, b)
      BY <1>1, <3>1, Zenon DEF Kept
    <3>3. W = {}
      BY <2>1, <3>2, Zenon
    <3> QED BY <2>2, <2>4, <3>3, Zenon
  <2> QED BY <2>3, <2>4, Zenon
<1>3. \A b \in Batches(p) : p.batches[b].open # {}
  BY <1>1, Zenon DEF Full, Open
<1> QED BY <1>2, <1>3, Zenon DEF WaitedForOnce

LEMMA InvFound ==
    ASSUME Inv PROVE FoundByNumber
<1>1. Typed(p) /\ Found(p, 0)
  BY Zenon DEF Inv, Books, Sound, Kept
<1> QED BY <1>1, FoundFacts, Zenon DEF FoundByNumber, Open

LEMMA InvFlush ==
    ASSUME CountFacts, Inv PROVE FlushExact
<1>1. /\ Typed(p) /\ Kept(p, {}) /\ Found(p, 0) /\ Marked(p, marks) /\ p.last \in 0 .. MaxNumber
      /\ p.runs \subseteq Run /\ marks \subseteq 1 .. p.last
  BY Zenon DEF Inv, Books, Sound, Kept, Typed
<1> DEFINE firsts == {r.first : r \in p.runs}
<1>2. firsts \subseteq Nat /\ \A r \in p.runs : r.first \in Span(r) /\ r.first \in Nat /\ Span(r) \subseteq Nat
  BY <1>1, SpanIs, ConfirmerAssumption, Zenon DEF Numbers
<1>3. p.runs # {} => Min(firsts) \in firsts /\ \A k \in firsts : Min(firsts) <= k
  <2>1. p.runs # {} => firsts # {}
    BY Zenon
  <2> HIDE DEF firsts
  <2> QED BY <1>2, <2>1, MinIs, Zenon
<1>4. ASSUME NEW mark \in marks, NEW r \in p.runs, r.first <= mark
      PROVE  \E n \in 1 .. mark : p.end[n] = "none"
  <2>1. /\ r.batch \in Batches(p) /\ Span(r) \subseteq All(p, r.batch)
        /\ r.left = Cardinality(Span(r) \cap Open(p, r.batch)) /\ r.left > 0
    BY <1>1, FoundFacts, Zenon
  <2>2. Span(r) \cap Open(p, r.batch) # {}
    BY <2>1 DEF CountFacts, EmptyCount
  <2>3. PICK n : n \in Span(r) /\ n \in Open(p, r.batch)
    BY <2>2, Zenon
  <2>4. n \in Pending(p) /\ n \in All(p, r.batch) /\ r.first \in All(p, r.batch)
    BY <1>1, <1>2, <2>1, <2>3, Zenon DEF Kept
  <2>5. /\ Group(p, r.batch) \in marks /\ n <= Group(p, r.batch)
        /\ mark < r.first \/ Group(p, r.batch) <= mark
    BY <1>1, <2>1, <2>4, Zenon DEF Marked
  <2>6. n \in Nat /\ n >= 1 /\ p.end[n] = "none" /\ mark \in Nat /\ Group(p, r.batch) \in Nat /\ r.first \in Nat
    <3>1. n \in 1 .. MaxNumber /\ p.end[n] = "none" /\ \A m \in marks : m \in 1 .. p.last
      BY <1>1, <2>4, Zenon DEF Pending, Numbers
    <3>2. n \in Nat /\ n >= 1
      BY <3>1, ConfirmerAssumption
    <3>3. p.last \in Nat
      BY <1>1, ConfirmerAssumption
    <3>4. \A m \in 1 .. p.last : m \in Nat
      BY <3>3
    <3> QED BY <1>2, <2>5, <3>1, <3>2, <3>4, Zenon
  <2>7. n \in 1 .. mark
    BY <1>4, <2>5, <2>6
  <2> QED BY <2>6, <2>7, Zenon
<1>5. ASSUME NEW mark \in marks, NEW n \in 1 .. mark, p.end[n] = "none"
      PROVE  \E r \in p.runs : r.first <= mark
  <2>1. n \in Pending(p)
    BY <1>1, <1>5, ConfirmerAssumption DEF Pending, Numbers
  <2>2. PICK b \in Batches(p) : n \in Open(p, b)
    BY <1>1, <2>1, Zenon DEF Kept
  <2>3. PICK r \in p.runs : n \in Span(r)
    BY <1>1, <2>2, FoundFacts, Zenon
  <2>4. r.first <= n /\ r.first \in Nat /\ mark \in Nat
    BY <1>1, <1>2, <2>3 DEF Span
  <2> QED BY <2>4
<1>6. ASSUME NEW mark \in marks
      PROVE  FlushWaitsFor(p, mark) <=> \E r \in p.runs : r.first <= mark
  <2>1. mark \in Nat
    BY <1>1
  <2>2. FlushWaitsFor(p, mark) <=> p.runs # {} /\ Min(firsts) <= mark
    BY Zenon DEF FlushWaitsFor
  <2>3. ASSUME NEW r \in p.runs, r.first <= mark PROVE Min(firsts) <= mark
    <3>1. r.first \in firsts /\ p.runs # {}
      BY Zenon
    <3>2. Min(firsts) \in Nat /\ Min(firsts) <= r.first /\ r.first \in Nat
      BY <1>2, <1>3, <3>1, Zenon
    <3> QED BY <2>1, <2>3, <3>2
  <2>4. ASSUME p.runs # {}, Min(firsts) <= mark PROVE \E r \in p.runs : r.first <= mark
    BY <1>3, <2>4, Zenon
  <2> QED BY <2>2, <2>3, <2>4, Zenon
<1> QED BY <1>4, <1>5, <1>6, Zenon DEF FlushExact

LEMMA InvCause ==
    ASSUME Inv PROVE GivenUpForCause
<1>1. 1 .. p.last \subseteq Numbers
  BY ConfirmerAssumption DEF Inv, Books, Sound, Kept, Typed, Numbers
<1> QED BY <1>1, Zenon DEF Inv, Caused, Late, Over, GivenUpForCause
-----------------------------------------------------------------------------
(* The theorems, with the library's facts on finite sets.                  *)

Library == INSTANCE FiniteSetTheorems
LOCAL INSTANCE WellFoundedInduction

\* The library's notion of size is this one.
LEMMA SameCount ==
    /\ \A S : IsFiniteSet(S) <=> Library!IsFiniteSet(S)
    /\ \A S : Cardinality(S) = Library!Cardinality(S)
<1>1. \A S : IsFiniteSet(S) <=> Library!IsFiniteSet(S)
  BY Zenon DEF IsFiniteSet, Library!IsFiniteSet
<1>2. \A S : Cardinality(S) = Library!Cardinality(S)
  BY Zenon DEF Cardinality, Library!Cardinality
<1> QED
  BY <1>1, <1>2, Zenon

LEMMA CountsHold == CountFacts
<1>1. EmptyCount
  BY SameCount, Library!FS_EmptySet, Zenon DEF EmptyCount
<1>2. NumberCount
  BY SameCount, Library!FS_CardinalityType, Zenon DEF NumberCount
<1>3. AddCount
  BY SameCount, Library!FS_AddElement, Zenon DEF AddCount
<1>4. RemoveCount
  BY SameCount, Library!FS_RemoveElement, Zenon DEF RemoveCount
<1>5. SubsetCount
  BY SameCount, Library!FS_Subset, Zenon DEF SubsetCount
<1>6. UnionCount
  BY SameCount, Library!FS_Union, ZenonT(40) DEF UnionCount
<1>7. IntervalCount
  BY SameCount, Library!FS_Interval, ZenonT(40) DEF IntervalCount
<1>8. LeastNumber
  <2> SUFFICES ASSUME NEW S \in SUBSET Nat, S # {} PROVE \E m \in S : \A k \in S : m <= k
    BY Zenon DEF LeastNumber
  <2> DEFINE R == {ss \in Nat \X Nat : ss[1] < ss[2]}
  <2>0. IsWellFoundedOn(R, Nat)
    BY NatLessThanWellFounded, Zenon DEF OpToRel
  <2>1. \A x, y \in Nat : x < y => <<x, y>> \in R
    BY Zenon
  <2> HIDE DEF R
  <2>2. PICK m \in S : \A y \in S : ~ (<<y, m>> \in R)
    BY <2>0, WFMin, Zenon
  <2>3. \A k \in S : k \in Nat /\ m \in Nat /\ ~(k < m)
    BY <2>1, <2>2, ZenonT(40)
  <2> QED
    BY <2>3
<1> QED
  BY <1>1, <1>2, <1>3, <1>4, <1>5, <1>6, <1>7, <1>8, ZenonT(40) DEF CountFacts

LEMMA LengthsHold == LengthCount
BY SameCount, Library!FS_Interval, ZenonT(40) DEF LengthCount

LEMMA ImagesHold == ImageCount
<1> SUFFICES ASSUME NEW S, NEW f, IsFiniteSet(S) PROVE IsFiniteSet({f[x] : x \in S})
  BY Zenon DEF ImageCount
<1> DEFINE T == {f[x] : x \in S}
           g == [x \in S |-> f[x]]
<1>1. g \in [S -> T] /\ \A t \in T : \E x \in S : g[x] = t
  BY Zenon
<1> HIDE DEF T, g
<1>2. g \in Library!Surjection(S, T)
  BY <1>1, Zenon DEF Library!Surjection
<1>3. Library!IsFiniteSet(S)
  BY SameCount, Zenon
<1>4. Library!IsFiniteSet(T)
  BY <1>2, <1>3, Library!FS_Surjection, Zenon
<1>5. IsFiniteSet(T)
  BY <1>4, SameCount, Zenon
<1> QED BY <1>5, Zenon DEF T

\* Messages, batches and what is on its way agree in every reachable state.
LEMMA InvAlways == Spec => []Inv
<1>1. Init => Inv
  BY CountsHold, InitInv, ZenonT(20)
<1>2. Inv /\ [Next]_vars => Inv'
  BY CountsHold, LengthsHold, ImagesHold, NextKeeps, ZenonT(20)
<1> QED BY <1>1, <1>2, PTL DEF Spec

\* The producer's books agree whatever is lost, refused, sent again, closed or
\* given up on (wait_for_confirmation, send_again, on_confirmation,
\* rebuild_runs, forget_resolved): a message sent is waited for in exactly one
\* batch until it ends and is found there by its number, `unconfirmed` counts
\* those that have not ended, and a flush waits exactly while one it follows
\* has not.
THEOREM ConfirmingBooksAgree == Spec => []BooksAgree
<1>1. Inv => BooksAgree
  BY CountsHold, InvTypes, InvWaited, InvFound, InvFlush, ZenonT(20) DEF BooksAgree
<1> QED BY <1>1, InvAlways, PTL

\* A message is given up on only past the deadline of the batch it was first
\* sent in, after a handler failed on it, by the shutdown, or once an envelope
\* drawn could not hold it even alone (cannot_confirm, first sent or sent
\* again): no frame lost, refusal, DELIVERY_ERROR, crash or closed connection
\* ever ends one.
THEOREM ConfirmingGivenUpForCause == Spec => []GivenUpForCause
<1>1. Inv => GivenUpForCause
  BY InvCause, ZenonT(20)
<1> QED BY <1>1, InvAlways, PTL

\* What a confirmed send promises: each message sent ends once, and processed
\* only after the program of some consumer was done with it, however often
\* its batch went again and in whatever order the CONFIRMATIONs came.
THEOREM ConfirmingAtLeastOnce == Spec => AtLeastOnceSpec
<1>1. Init => Promise!Init
  <2> SUFFICES ASSUME Init PROVE Promise!Init
    BY Zenon
  <2>1. p.last = 0 /\ p.end = [n \in Numbers |-> "none"] /\ handled = {}
    BY Zenon DEF Init
  <2>2. 1 .. p.last = {}
    BY <2>1
  <2> QED BY <2>1, <2>2, Zenon DEF Promise!Init
<1>2. Inv /\ [Next]_vars => [Promise!Next]_(Promise!vars)
  BY CountsHold, LengthsHold, ImagesHold, NextKeeps, ZenonT(20)
<1> QED BY <1>1, <1>2, InvAlways, PTL DEF Spec, AtLeastOnceSpec, Promise!Spec
=============================================================================
