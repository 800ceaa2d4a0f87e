------------------------ MODULE ThreadedServerProofs ------------------------
(***************************************************************************)
(* The threaded server loses and refuses no request, for any number of     *)
(* workers, of connections and of requests.  First the queue the workers   *)
(* share: who holds its mutex, which requests are in hand, and that its    *)
(* counts are theirs (CountInv).  Then that the server drives its client   *)
(* as Routing allows, so that RoutingProofs' invariant holds of it too.    *)
(* Last what the threads post to the client: a drain that its confirmation *)
(* ended leaves nothing on its way, and close() stops the client only once *)
(* the workers left an empty queue behind.                                 *)
(***************************************************************************)
EXTENDS ThreadedServer, RoutingProofs, Counting

Waits == [before : Nat, remaining : Nat]
States == [queue : Seq(Nat), busy : Nat, idle : Nat, accepted : Nat, acknowledged : Seq(Waits),
           accepting : BOOLEAN, failed : BOOLEAN]
Errands == {"look", "asleep", "signalled", "handling", "handled", "fails", "wakes", "gone"}
InHand == {"handling", "handled"}
Away == {"asleep", "signalled"}
Coming == {"look", "signalled"}
In(places) == {w \in Workers : work[w] \in places}
Elements(q) == {q[i] : i \in DOMAIN q}
Before(n) == {m \in Unfinished : m < n}

\* What the workers and the queue are made of.
Locked ==
    /\ state \in States /\ work \in [Workers -> Errands] /\ holds \in [Workers -> SUBSET Nat]
    /\ notifying \in BOOLEAN /\ program \in Programs

\* A worker that handles a request holds one, that nobody else holds.
Hands ==
    /\ \A w \in Workers : work[w] \in InHand => \E n \in Nat : n < state.accepted /\ holds[w] = {n}
    /\ \A w \in Workers : work[w] \notin InHand => holds[w] = {}
    /\ \A v, w \in Workers : v # w => holds[v] \cap holds[w] = {}

\* The queue is in the order the requests came in, and nobody's yet.
Line ==
    /\ \A i \in DOMAIN state.queue : state.queue[i] < state.accepted /\ state.queue[i] \notin Taken
    /\ \A i, j \in DOMAIN state.queue : i < j => state.queue[i] < state.queue[j]
    /\ Len(state.queue) = Cardinality(Elements(state.queue))

Tally == state.busy = Cardinality(Taken) /\ state.idle = Cardinality(In(Away))

Awaited ==
    \A i \in DOMAIN state.acknowledged :
        /\ state.acknowledged[i].before <= state.accepted
        /\ state.acknowledged[i].remaining = Cardinality(Before(state.acknowledged[i].before))

\* A worker leaves only a queue that is shut and empty.
Staffed ==
    /\ \A w \in Workers \ program.workers : work[w] = "gone"
    /\ (\E w \in program.workers : work[w] = "gone") => ~state.accepting /\ state.queue = <<>>

CountInv == Locked /\ Hands /\ Line /\ Tally /\ Awaited /\ WorkFound /\ Staffed

-----------------------------------------------------------------------------
(* Sequences and finite sets.                                              *)

LEMMA AppendElements ==
    ASSUME NEW q \in Seq(Nat), NEW n \in Nat
    PROVE  Elements(Append(q, n)) = Elements(q) \cup {n}
<1>1. /\ Len(q) \in Nat /\ DOMAIN q = 1 .. Len(q) /\ DOMAIN Append(q, n) = 1 .. Len(q) + 1
      /\ \A i \in 1 .. Len(q) : Append(q, n)[i] = q[i]
      /\ Append(q, n)[Len(q) + 1] = n
  BY AppendFacts
<1>2. ASSUME NEW i \in DOMAIN Append(q, n) PROVE Append(q, n)[i] \in Elements(q) \cup {n}
  <2>1. CASE i = Len(q) + 1 BY <2>1, <1>1, Zenon
  <2>2. CASE i \in 1 .. Len(q) BY <2>2, <1>1, Zenon DEF Elements
  <2> QED BY <2>1, <2>2, <1>1
<1>3. ASSUME NEW i \in DOMAIN q PROVE q[i] \in Elements(Append(q, n))
  <2>1. i \in DOMAIN Append(q, n) /\ q[i] = Append(q, n)[i] BY <1>1
  <2> QED BY <2>1, Zenon DEF Elements
<1>4. n \in Elements(Append(q, n))
  <2>1. Len(q) + 1 \in DOMAIN Append(q, n) BY <1>1
  <2> QED BY <2>1, <1>1, Zenon DEF Elements
<1> QED BY <1>2, <1>3, <1>4, Zenon DEF Elements

LEMMA TailElements ==
    ASSUME NEW q \in Seq(Nat), q # <<>>, \A i, j \in DOMAIN q : i < j => q[i] < q[j]
    PROVE  /\ Head(q) \in Nat /\ Head(q) \in Elements(q)
           /\ Elements(Tail(q)) = Elements(q) \ {Head(q)}
           /\ \A i \in DOMAIN Tail(q) : \E j \in DOMAIN q : Tail(q)[i] = q[j]
           /\ \A i, j \in DOMAIN Tail(q) : i < j => Tail(q)[i] < Tail(q)[j]
<1>1. /\ Len(q) \in Nat /\ Len(q) >= 1 /\ DOMAIN q = 1 .. Len(q) /\ DOMAIN Tail(q) = 1 .. Len(q) - 1
      /\ \A i \in 1 .. Len(q) - 1 : Tail(q)[i] = q[i + 1]
      /\ Head(q) = q[1] /\ Head(q) \in Nat
  BY TailFacts, Zenon
<1>2. \A i \in DOMAIN Tail(q) : i + 1 \in DOMAIN q /\ Tail(q)[i] = q[i + 1] BY <1>1
<1>3. \A i, j \in DOMAIN Tail(q) : i < j => Tail(q)[i] < Tail(q)[j]
  <2> SUFFICES ASSUME NEW i \in DOMAIN Tail(q), NEW j \in DOMAIN Tail(q), i < j PROVE Tail(q)[i] < Tail(q)[j]
    BY Zenon
  <2>1. i + 1 < j + 1 BY <1>1
  <2> QED BY <2>1, <1>2, Zenon
<1>4. 1 \in DOMAIN q BY <1>1
<1>5. ASSUME NEW i \in DOMAIN Tail(q) PROVE Tail(q)[i] \in Elements(q) \ {Head(q)}
  <2>1. 1 < i + 1 /\ q[1] \in Nat BY <1>1
  <2>2. q[1] < q[i + 1] BY <2>1, <1>2, <1>4, Zenon
  <2>3. q[i + 1] \in Nat BY <1>2, Element, Zenon
  <2>4. q[i + 1] # Head(q) BY <2>1, <2>2, <2>3, <1>1
  <2> QED BY <2>4, <1>2, Zenon DEF Elements
<1>6. ASSUME NEW i \in DOMAIN q, q[i] # Head(q) PROVE q[i] \in Elements(Tail(q))
  <2>1. i - 1 \in DOMAIN Tail(q) /\ Tail(q)[i - 1] = q[i] BY <1>1, <1>6
  <2> QED BY <2>1, Zenon DEF Elements
<1>7. Elements(Tail(q)) = Elements(q) \ {Head(q)} BY <1>5, <1>6, Zenon DEF Elements
<1>8. Head(q) \in Elements(q) BY <1>1, <1>4, Zenon DEF Elements
<1>9. \A i \in DOMAIN Tail(q) : \E j \in DOMAIN q : Tail(q)[i] = q[j] BY <1>2, Zenon
<1> QED BY <1>1, <1>3, <1>7, <1>8, <1>9, Zenon

LEMMA Smallest == ASSUME CountFacts, NEW S \in SUBSET Nat, S # {} PROVE \E m \in S : \A k \in S : m <= k
  BY Zenon DEF CountFacts, LeastNumber

LEMMA FewNumbers ==
    ASSUME CountFacts, NEW n \in Nat, NEW S \in SUBSET Nat, \A m \in S : m < n
    PROVE  IsFiniteSet(S)
<1>1. IsFiniteSet(0 .. n - 1) BY DEF CountFacts, IntervalCount
<1>2. S \subseteq 0 .. n - 1 OBVIOUS
<1> QED BY <1>1, <1>2, Zenon DEF CountFacts, SubsetCount

\* The queue with one more or one less request.
LEMMA Shifted ==
    ASSUME CountFacts, NEW q \in Seq(Nat), NEW n \in Nat, Len(q) = Cardinality(Elements(q)), n \notin Elements(q),
           IsFiniteSet(Elements(q))
    PROVE  Len(Append(q, n)) = Cardinality(Elements(Append(q, n)))
<1>1. Cardinality(Elements(q) \cup {n}) = Cardinality(Elements(q)) + 1 BY Zenon DEF CountFacts, AddCount
<1>2. Len(Append(q, n)) = Len(q) + 1 BY AppendFacts, Zenon
<1> QED BY <1>1, <1>2, AppendElements, Zenon

-----------------------------------------------------------------------------
(* The workers.                                                            *)

\* The requests that are in hand or wait are finitely many, each in one
\* place.
LEMMA Finite ==
    ASSUME CountFacts, Locked, Hands, Line
    PROVE  /\ Taken \in SUBSET Nat /\ Elements(state.queue) \in SUBSET Nat
           /\ Unfinished = Taken \cup Elements(state.queue) /\ Taken \cap Elements(state.queue) = {}
           /\ \A n \in Unfinished : n \in Nat /\ n < state.accepted
           /\ IsFiniteSet(Taken) /\ IsFiniteSet(Elements(state.queue)) /\ IsFiniteSet(Unfinished)
           /\ \A n : IsFiniteSet(Before(n))
           /\ state.accepted \in Nat /\ state.queue \in Seq(Nat)
<1>1. state.accepted \in Nat /\ state.queue \in Seq(Nat) BY Zenon DEF Locked, States
<1>2. \A i \in DOMAIN state.queue : state.queue[i] \in Nat BY <1>1, Element, Zenon
<1>3. Elements(state.queue) \in SUBSET Nat BY <1>2, Zenon DEF Elements
<1>4. \A n \in Elements(state.queue) : n < state.accepted /\ n \notin Taken BY Zenon DEF Line, Elements
<1>5. Taken \in SUBSET Nat BY Zenon DEF Taken, Locked
<1>6. \A n \in Taken : n < state.accepted
  <2> SUFFICES ASSUME NEW w \in Workers, NEW n \in holds[w] PROVE n < state.accepted BY Zenon DEF Taken
  <2> QED BY Zenon DEF Hands
<1>7. Unfinished = Taken \cup Elements(state.queue) BY Zenon DEF Unfinished, Elements
<1>8. IsFiniteSet(Taken) /\ IsFiniteSet(Elements(state.queue)) BY <1>1, <1>3, <1>4, <1>5, <1>6, FewNumbers, Zenon
<1>9. IsFiniteSet(Unfinished) BY <1>7, <1>8, Zenon DEF CountFacts, UnionCount
<1>10. \A n : Before(n) \subseteq Unfinished BY Zenon DEF Before
<1>11. \A n : IsFiniteSet(Before(n)) BY <1>9, <1>10, Zenon DEF CountFacts, SubsetCount
<1> QED BY <1>1, <1>3, <1>4, <1>5, <1>6, <1>7, <1>8, <1>9, <1>11, Zenon

\* A worker that goes somewhere is counted there and no more where it was.
LEMMA Recount ==
    ASSUME CountFacts, work \in [Workers -> Errands], NEW w \in Workers, NEW there \in Errands, Goes(w, there), NEW places
    PROVE  /\ Cardinality(In(places)) \in Nat
           /\ Cardinality(In(places)') =
                Cardinality(In(places)) + (IF there \in places THEN 1 ELSE 0) - (IF work[w] \in places THEN 1 ELSE 0)
<1>1. work' = [work EXCEPT ![w] = there] BY Zenon DEF Goes
<1>2. IsFiniteSet(In(places)) /\ Cardinality(In(places)) \in Nat
  <2>1. IsFiniteSet(Workers) /\ In(places) \in SUBSET Workers BY ServerAssumption, Zenon DEF In
  <2>2. IsFiniteSet(In(places)) BY <2>1, Zenon DEF CountFacts, SubsetCount
  <2> QED BY <2>2, Zenon DEF CountFacts, NumberCount
<1>3. w \in In(places) <=> work[w] \in places BY Zenon DEF In
<1>4. CASE there \in places
  <2>1. In(places)' = In(places) \cup {w} BY <1>1, <1>4, Zenon DEF In
  <2>2. Cardinality(In(places)') = IF w \in In(places) THEN Cardinality(In(places)) ELSE Cardinality(In(places)) + 1
    BY <2>1, <1>2, Zenon DEF CountFacts, AddCount
  <2> QED BY <2>2, <1>2, <1>3, <1>4
<1>5. CASE there \notin places
  <2>1. In(places)' = In(places) \ {w} BY <1>1, <1>5, Zenon DEF In
  <2>2. Cardinality(In(places)') = IF w \in In(places) THEN Cardinality(In(places)) - 1 ELSE Cardinality(In(places))
    BY <2>1, <1>2, Zenon DEF CountFacts, RemoveCount
  <2> QED BY <2>2, <1>2, <1>3, <1>5
<1> QED BY <1>2, <1>4, <1>5, Zenon

\* The queue is found: what WorkFound says, counted.
LEMMA Found == WorkFound <=> (In({"asleep"}) # {} =>
                                 Len(state.queue) <= Cardinality(In(Coming)) + (IF notifying THEN 1 ELSE 0))
<1>1. (\E w \in Workers : work[w] = "asleep") <=> In({"asleep"}) # {} BY Zenon DEF In
<1>2. In(Coming) = {w \in Workers : work[w] \in {"look", "signalled"}} BY Zenon DEF In, Coming
<1> QED BY <1>1, <1>2, Zenon DEF WorkFound

LEMMA FoundNext ==
    ASSUME In({"asleep"})' # {} => Len(state'.queue) <= Cardinality(In(Coming)') + (IF notifying' THEN 1 ELSE 0)
    PROVE  WorkFound'
<1>1. (\E w \in Workers : work'[w] = "asleep") <=> In({"asleep"})' # {} BY Zenon DEF In
<1>2. In(Coming)' = {w \in Workers : work'[w] \in {"look", "signalled"}} BY Zenon DEF In, Coming
<1> QED BY <1>1, <1>2, Zenon DEF WorkFound

\* The record the workers share, with some of its fields set.
LEMMA SharedTake ==
    ASSUME state \in States, NEW q \in Seq(Nat), NEW b \in Nat, NEW i \in Nat, state' = [state EXCEPT !.queue = q, !.busy = b, !.idle = i]
    PROVE  /\ state' \in States /\ state'.queue = q /\ state'.busy = b /\ state'.idle = i
           /\ state'.accepted = state.accepted /\ state'.acknowledged = state.acknowledged
           /\ state'.accepting = state.accepting
<1> DEFINE A == Seq(Nat)
           N == Nat
           W == Seq(Waits)
           B == BOOLEAN
<1>1. States = [queue : A, busy : N, idle : N, accepted : N, acknowledged : W, accepting : B, failed : B] BY Zenon DEF States
<1>2. q \in A /\ b \in N /\ i \in N BY Zenon
<1> HIDE DEF A, N, W, B
<1>3. state \in [queue : A, busy : N, idle : N, accepted : N, acknowledged : W, accepting : B, failed : B] BY <1>1, Zenon
<1> QED BY <1>1, <1>2, <1>3, Zenon

LEMMA SharedIdle ==
    ASSUME state \in States, NEW i \in Nat, state' = [state EXCEPT !.idle = i]
    PROVE  /\ state' \in States /\ state'.queue = state.queue /\ state'.busy = state.busy /\ state'.idle = i
           /\ state'.accepted = state.accepted /\ state'.acknowledged = state.acknowledged
           /\ state'.accepting = state.accepting
<1> DEFINE A == Seq(Nat)
           N == Nat
           W == Seq(Waits)
           B == BOOLEAN
<1>1. States = [queue : A, busy : N, idle : N, accepted : N, acknowledged : W, accepting : B, failed : B] BY Zenon DEF States
<1>2. i \in N BY Zenon
<1> HIDE DEF A, N, W, B
<1>3. state \in [queue : A, busy : N, idle : N, accepted : N, acknowledged : W, accepting : B, failed : B] BY <1>1, Zenon
<1> QED BY <1>1, <1>2, <1>3, Zenon

LEMMA SharedDone ==
    ASSUME state \in States, NEW b \in Nat, NEW a \in Seq(Waits), NEW f \in BOOLEAN, state' = [state EXCEPT !.busy = b, !.acknowledged = a, !.failed = f]
    PROVE  /\ state' \in States /\ state'.queue = state.queue /\ state'.busy = b /\ state'.idle = state.idle
           /\ state'.accepted = state.accepted /\ state'.acknowledged = a
           /\ state'.accepting = state.accepting
<1> DEFINE A == Seq(Nat)
           N == Nat
           W == Seq(Waits)
           B == BOOLEAN
<1>1. States = [queue : A, busy : N, idle : N, accepted : N, acknowledged : W, accepting : B, failed : B] BY Zenon DEF States
<1>2. b \in N /\ a \in W /\ f \in B BY Zenon
<1> HIDE DEF A, N, W, B
<1>3. state \in [queue : A, busy : N, idle : N, accepted : N, acknowledged : W, accepting : B, failed : B] BY <1>1, Zenon
<1> QED BY <1>1, <1>2, <1>3, Zenon

LEMMA SharedQueue ==
    ASSUME state \in States, NEW q \in Seq(Nat), NEW n \in Nat, state' = [state EXCEPT !.queue = q, !.accepted = n]
    PROVE  /\ state' \in States /\ state'.queue = q /\ state'.busy = state.busy /\ state'.idle = state.idle
           /\ state'.accepted = n /\ state'.acknowledged = state.acknowledged
           /\ state'.accepting = state.accepting
<1> DEFINE A == Seq(Nat)
           N == Nat
           W == Seq(Waits)
           B == BOOLEAN
<1>1. States = [queue : A, busy : N, idle : N, accepted : N, acknowledged : W, accepting : B, failed : B] BY Zenon DEF States
<1>2. q \in A /\ n \in N BY Zenon
<1> HIDE DEF A, N, W, B
<1>3. state \in [queue : A, busy : N, idle : N, accepted : N, acknowledged : W, accepting : B, failed : B] BY <1>1, Zenon
<1> QED BY <1>1, <1>2, <1>3, Zenon

LEMMA SharedAcks ==
    ASSUME state \in States, NEW a \in Seq(Waits), state' = [state EXCEPT !.acknowledged = a]
    PROVE  /\ state' \in States /\ state'.queue = state.queue /\ state'.busy = state.busy /\ state'.idle = state.idle
           /\ state'.accepted = state.accepted /\ state'.acknowledged = a
           /\ state'.accepting = state.accepting
<1> DEFINE A == Seq(Nat)
           N == Nat
           W == Seq(Waits)
           B == BOOLEAN
<1>1. States = [queue : A, busy : N, idle : N, accepted : N, acknowledged : W, accepting : B, failed : B] BY Zenon DEF States
<1>2. a \in W BY Zenon
<1> HIDE DEF A, N, W, B
<1>3. state \in [queue : A, busy : N, idle : N, accepted : N, acknowledged : W, accepting : B, failed : B] BY <1>1, Zenon
<1> QED BY <1>1, <1>2, <1>3, Zenon

LEMMA SharedShut ==
    ASSUME state \in States, NEW f \in BOOLEAN, state' = [state EXCEPT !.accepting = f]
    PROVE  /\ state' \in States /\ state'.queue = state.queue /\ state'.busy = state.busy /\ state'.idle = state.idle
           /\ state'.accepted = state.accepted /\ state'.acknowledged = state.acknowledged
           /\ state'.accepting = f
<1> DEFINE A == Seq(Nat)
           N == Nat
           W == Seq(Waits)
           B == BOOLEAN
<1>1. States = [queue : A, busy : N, idle : N, accepted : N, acknowledged : W, accepting : B, failed : B] BY Zenon DEF States
<1>2. f \in B BY Zenon
<1> HIDE DEF A, N, W, B
<1>3. state \in [queue : A, busy : N, idle : N, accepted : N, acknowledged : W, accepting : B, failed : B] BY <1>1, Zenon
<1> QED BY <1>1, <1>2, <1>3, Zenon

LEMMA Staff == Locked => program.workers \subseteq Workers
  BY ServerAssumption, Zenon DEF Locked

\* A step that leaves the requests where they are.
LEMMA SameRequests ==
    ASSUME UNCHANGED holds, state'.queue = state.queue
    PROVE  Taken' = Taken /\ Unfinished' = Unfinished /\ \A n : Before(n)' = Before(n)
<1>1. Taken' = Taken BY Zenon DEF Taken
<1>2. Unfinished' = Unfinished BY <1>1, Zenon DEF Unfinished
<1> QED BY <1>1, <1>2, Zenon DEF Before

LEMMA SameHands ==
    ASSUME Locked, Hands, NEW w \in Workers, NEW there \in Errands, Goes(w, there), UNCHANGED holds,
           state'.accepted = state.accepted, there \in InHand <=> work[w] \in InHand
    PROVE  Hands'
<1>1. \A v \in Workers : work'[v] \in InHand <=> work[v] \in InHand BY Zenon DEF Goes, Locked
<1>2. \A v \in Workers : work'[v] \in InHand => \E n \in Nat : n < state'.accepted /\ holds'[v] = {n} BY <1>1, Zenon DEF Hands
<1>3. \A v \in Workers : work'[v] \notin InHand => holds'[v] = {} BY <1>1, Zenon DEF Hands
<1>4. \A u, v \in Workers : u # v => holds'[u] \cap holds'[v] = {} BY Zenon DEF Hands
<1> QED BY <1>2, <1>3, <1>4, Zenon DEF Hands

LEMMA SameLine ==
    ASSUME Line, UNCHANGED holds, state'.queue = state.queue, state'.accepted = state.accepted
    PROVE  Line'
  BY SameRequests, Zenon DEF Line, Elements

LEMMA SameAwaited ==
    ASSUME Awaited, \A n : Before(n)' = Before(n), state'.accepted = state.accepted,
           state'.acknowledged = state.acknowledged
    PROVE  Awaited'
  BY Zenon DEF Awaited

LEMMA AwaitedNext ==
    ASSUME \A i \in DOMAIN state'.acknowledged :
              \E b \in Nat : /\ state'.acknowledged[i].before = b /\ b <= state'.accepted
                            /\ state'.acknowledged[i].remaining = Cardinality(Before(b)')
    PROVE  Awaited'
<1> SUFFICES ASSUME NEW i \in DOMAIN state'.acknowledged
             PROVE  /\ state'.acknowledged[i].before <= state'.accepted
                    /\ state'.acknowledged[i].remaining = Cardinality(Before(state.acknowledged[i].before)')
  BY Zenon DEF Awaited
<1>1. PICK b \in Nat : /\ state'.acknowledged[i].before = b /\ b <= state'.accepted
                      /\ state'.acknowledged[i].remaining = Cardinality(Before(b)')
  BY Zenon
<1>2. Before(state.acknowledged[i].before)' = Before(b)' BY <1>1, Zenon DEF Before
<1> QED BY <1>1, <1>2, Zenon

\* A worker finds a request, the end of a shut queue, or nothing.
LEMMA LookStep == ASSUME CountFacts, CountInv, NEW w \in Workers, Look(w) PROVE CountInv'
<1> USE DEF CountInv
<1> DEFINE idle == IF work[w] = "signalled" THEN state.idle - 1 ELSE state.idle
<1>0. /\ state \in States /\ work \in [Workers -> Errands] /\ work[w] \in {"look", "signalled"}
      /\ holds \in [Workers -> SUBSET Nat]
      /\ state.queue \in Seq(Nat) /\ state.busy \in Nat /\ state.idle \in Nat /\ state.accepted \in Nat
      /\ UNCHANGED <<notifying, program>>
  BY Zenon DEF Locked, States, Look, past
<1>1. state.idle = Cardinality(In(Away)) /\ state.busy = Cardinality(Taken) BY Zenon DEF Tally
<1>2. work[w] = "signalled" => state.idle > 0
  <2>1. IsFiniteSet(Workers) /\ In(Away) \in SUBSET Workers BY ServerAssumption, Zenon DEF In
  <2>2. IsFiniteSet(In(Away)) BY <2>1, Zenon DEF CountFacts, SubsetCount
  <2>3. work[w] = "signalled" => w \in In(Away) BY Zenon DEF In, Away
  <2>4. work[w] = "signalled" => state.idle # 0 BY <1>1, <2>2, <2>3, Zenon DEF CountFacts, EmptyCount
  <2> QED BY <2>4, <1>0
<1>3. idle \in Nat BY <1>2, <1>0
<1>4. holds[w] = {} /\ work[w] \notin InHand BY <1>0, Zenon DEF Hands, InHand
<1>5. w \in program.workers
  <2>1. work[w] # "gone" BY <1>0, Zenon
  <2> QED BY <2>1, Zenon DEF Staffed
<1> HIDE DEF idle
<1>6. CASE /\ state.queue # <<>> /\ Goes(w, "handling")
           /\ state' = [state EXCEPT !.queue = Tail(@), !.busy = @ + 1, !.idle = idle]
           /\ holds' = [holds EXCEPT ![w] = {Head(state.queue)}]
  <2> DEFINE n == Head(state.queue)
             q == Tail(state.queue)
  <2>1. /\ n \in Nat /\ n \in Elements(state.queue) /\ Elements(q) = Elements(state.queue) \ {n}
        /\ \A i \in DOMAIN q : \E j \in DOMAIN state.queue : q[i] = state.queue[j]
        /\ \A i, j \in DOMAIN q : i < j => q[i] < q[j]
    BY <1>6, <1>0, TailElements, Zenon DEF Line
  <2>2. q \in Seq(Nat) /\ Len(q) = Len(state.queue) - 1 /\ Len(state.queue) \in Nat BY <1>6, <1>0, TailFacts, Zenon
  <2> HIDE DEF n, q
  <2>3. /\ state' \in States /\ state'.queue = q /\ state'.busy = state.busy + 1 /\ state'.idle = idle
        /\ state'.accepted = state.accepted /\ state'.acknowledged = state.acknowledged
        /\ state'.accepting = state.accepting
    <3>1. state' = [state EXCEPT !.queue = q, !.busy = state.busy + 1, !.idle = idle] /\ state.busy + 1 \in Nat
      BY <1>6, <1>0 DEF q
    <3> QED BY <3>1, <1>0, <1>3, <2>2, SharedTake, Zenon
  <2>4. holds'[w] = {n} /\ (\A v \in Workers : v # w => holds'[v] = holds[v]) /\ holds' \in [Workers -> SUBSET Nat]
    BY <1>6, <1>0, <2>1, Zenon DEF n
  <2>5. work'[w] = "handling" /\ (\A v \in Workers : v # w => work'[v] = work[v]) /\ work' \in [Workers -> Errands]
    BY <1>6, <1>0, Zenon DEF Goes, Errands
  <2>6. Locked' BY <2>3, <2>4, <2>5, <1>0, Zenon DEF Locked
  <2>7. n \notin Taken /\ n < state.accepted BY <2>1, Zenon DEF Line, Elements
  <2>8. Hands'
    <3>1. ASSUME NEW v \in Workers PROVE work'[v] \in InHand => \E m \in Nat : m < state'.accepted /\ holds'[v] = {m}
      BY <2>1, <2>3, <2>4, <2>5, <2>7 DEF Hands
    <3>2. ASSUME NEW v \in Workers PROVE work'[v] \notin InHand => holds'[v] = {}
      BY <2>4, <2>5, Zenon DEF Hands, InHand
    <3>3. ASSUME NEW u \in Workers, NEW v \in Workers, u # v PROVE holds'[u] \cap holds'[v] = {}
      BY <3>3, <2>4, <2>7 DEF Hands, Taken
    <3> QED BY <3>1, <3>2, <3>3, Zenon DEF Hands
  <2>9. Taken' = Taken \cup {n} BY <2>4, <1>4, Zenon DEF Taken
  <2>10. Line'
    <3>1. \A i \in DOMAIN q : q[i] < state.accepted /\ q[i] \notin Taken BY <2>1, Zenon DEF Line
    <3>2. \A i \in DOMAIN q : q[i] # n BY <2>1, Zenon DEF Elements
    <3>3. \A i \in DOMAIN q : q[i] \notin Taken' BY <3>1, <3>2, <2>9, Zenon
    <3>4. Len(q) = Cardinality(Elements(q))
      <4>1. IsFiniteSet(Elements(state.queue)) BY Finite, Zenon
      <4>2. Cardinality(Elements(q)) = Cardinality(Elements(state.queue)) - 1 BY <4>1, <2>1, Zenon DEF CountFacts, RemoveCount
      <4> QED BY <4>2, <2>2, Zenon DEF Line
    <3>5. Elements(state'.queue) = Elements(q) BY <2>3, Zenon
    <3> QED BY <3>1, <3>3, <3>4, <3>5, <2>1, <2>3, Zenon DEF Line
  <2>11. Unfinished' = Unfinished
    <3>1. Unfinished' = Taken' \cup Elements(state'.queue) BY Zenon DEF Unfinished, Elements
    <3>2. Unfinished = Taken \cup Elements(state.queue) BY Finite, Zenon
    <3> QED BY <3>1, <3>2, <2>1, <2>3, <2>9, Zenon
  <2>12. Awaited'
    <3>1. \A m : Before(m)' = Before(m) BY <2>11, Zenon DEF Before
    <3> QED BY <3>1, <2>3, SameAwaited, Zenon
  <2>13. Tally'
    <3>1. IsFiniteSet(Taken) BY Finite, Zenon
    <3>2. Cardinality(Taken') = Cardinality(Taken) + 1 BY <3>1, <2>7, <2>9, Zenon DEF CountFacts, AddCount
    <3>3. Cardinality(In(Away)') = Cardinality(In(Away)) - (IF work[w] \in Away THEN 1 ELSE 0)
      <4>1. "handling" \in Errands /\ "handling" \notin Away BY Zenon DEF Errands, Away
      <4>2. Cardinality(In(Away)') = Cardinality(In(Away)) + (IF "handling" \in Away THEN 1 ELSE 0)
                                        - (IF work[w] \in Away THEN 1 ELSE 0)
            /\ Cardinality(In(Away)) \in Nat
        BY <4>1, <1>0, <1>6, Recount, Zenon
      <4> QED BY <4>1, <4>2
    <3>4. work[w] \in Away <=> work[w] = "signalled" BY <1>0, Zenon DEF Away
    <3>5. state'.idle = Cardinality(In(Away)') BY <3>3, <3>4, <1>1, <1>0, <2>3 DEF idle
    <3> QED BY <3>2, <3>5, <1>1, <2>3, Zenon DEF Tally
  <2>14. WorkFound'
    <3>1. "handling" \in Errands /\ "handling" \notin Coming /\ work[w] \in Coming BY <1>0, Zenon DEF Errands, Coming
    <3>2. Cardinality(In(Coming)') = Cardinality(In(Coming)) + (IF "handling" \in Coming THEN 1 ELSE 0)
                                        - (IF work[w] \in Coming THEN 1 ELSE 0)
          /\ Cardinality(In(Coming)) \in Nat
      BY <3>1, <1>0, <1>6, Recount
    <3>3. Cardinality(In(Coming)') = Cardinality(In(Coming)) - 1 BY <3>1, <3>2
    <3>4. In({"asleep"})' \subseteq In({"asleep"}) BY <2>5, Zenon DEF In
    <3>5. In({"asleep"}) # {} => Len(state.queue) <= Cardinality(In(Coming)) + (IF notifying THEN 1 ELSE 0) BY Found, Zenon
    <3>6. In({"asleep"})' # {} => Len(q) <= Cardinality(In(Coming)') + (IF notifying' THEN 1 ELSE 0)
      BY <3>2, <3>3, <3>4, <3>5, <2>2, <1>0
    <3> QED BY <3>6, <2>3, FoundNext, Zenon
  <2>15. Staffed'
    <3>1. \A v \in program.workers : work[v] # "gone" BY <1>6, Zenon DEF Staffed
    <3> QED BY <3>1, <2>5, <1>0, <1>5, Staff, Zenon DEF Staffed
  <2> QED BY <2>6, <2>8, <2>10, <2>12, <2>13, <2>14, <2>15, Zenon
<1>7. ASSUME NEW there \in {"gone", "asleep"}, Goes(w, there), UNCHANGED holds, state.queue = <<>>,
             there = "gone" => ~state.accepting /\ state' = [state EXCEPT !.idle = idle],
             there = "asleep" => state' = [state EXCEPT !.idle = idle + 1]
      PROVE  CountInv'
  <2>1. /\ state' \in States /\ state'.queue = state.queue /\ state'.busy = state.busy
        /\ state'.idle = idle + (IF there = "asleep" THEN 1 ELSE 0)
        /\ state'.accepted = state.accepted /\ state'.acknowledged = state.acknowledged
        /\ state'.accepting = state.accepting
    <3>1. state' = [state EXCEPT !.idle = idle + (IF there = "asleep" THEN 1 ELSE 0)] BY <1>7, <1>3
    <3>2. idle + (IF there = "asleep" THEN 1 ELSE 0) \in Nat BY <1>3
    <3> QED BY <3>1, <3>2, <1>0, SharedIdle, Zenon
  <2>2. work'[w] = there /\ (\A v \in Workers : v # w => work'[v] = work[v]) /\ work' \in [Workers -> Errands]
        /\ there \in Errands
    BY <1>7, <1>0, Zenon DEF Goes, Errands
  <2>3. Locked' BY <2>1, <2>2, <1>0, <1>7, Zenon DEF Locked
  <2>4. there \notin InHand BY Zenon DEF InHand
  <2>5. Hands' BY <2>1, <2>2, <2>4, <1>4, <1>7, SameHands, Zenon
  <2>6. Line' BY <2>1, <1>7, SameLine, Zenon
  <2>7. Taken' = Taken /\ \A n : Before(n)' = Before(n) BY <2>1, <1>7, SameRequests, Zenon
  <2>8. Awaited' BY <2>1, <2>7, SameAwaited, Zenon
  <2>9. Tally'
    <3>1. Cardinality(In(Away)') = Cardinality(In(Away)) + (IF there \in Away THEN 1 ELSE 0)
                                      - (IF work[w] \in Away THEN 1 ELSE 0)
          /\ Cardinality(In(Away)) \in Nat
      BY <2>2, <1>0, <1>7, Recount
    <3>2. (work[w] \in Away <=> work[w] = "signalled") /\ (there \in Away <=> there = "asleep") BY <1>0, Zenon DEF Away
    <3>3. state'.idle = Cardinality(In(Away)') BY <3>1, <3>2, <1>1, <1>0, <2>1 DEF idle
    <3> QED BY <3>3, <2>1, <2>7, <1>1, Zenon DEF Tally
  <2>10. WorkFound'
    <3>1. Len(state'.queue) = 0 BY <2>1, <1>7
    <3>2. Cardinality(In(Coming)') \in Nat
      <4>1. IsFiniteSet(Workers) /\ In(Coming)' \in SUBSET Workers BY ServerAssumption, Zenon DEF In
      <4> QED BY <4>1, Zenon DEF CountFacts, SubsetCount, NumberCount
    <3> QED BY <3>1, <3>2, FoundNext
  <2>11. Staffed'
    <3>1. \A v \in Workers \ program.workers : work'[v] = "gone" BY <2>2, <1>5, Zenon DEF Staffed
    <3>2. CASE there = "gone" BY <3>1, <3>2, <2>1, <1>7, <1>0, Zenon DEF Staffed
    <3>3. CASE there = "asleep" BY <3>1, <3>3, <2>1, <2>2, <1>7, <1>0, Staff, Zenon DEF Staffed
    <3> QED BY <3>2, <3>3, Zenon
  <2> QED BY <2>3, <2>5, <2>6, <2>8, <2>9, <2>10, <2>11, Zenon
<1> QED
  <2>1. \/ /\ state.queue # <<>> /\ Goes(w, "handling")
           /\ state' = [state EXCEPT !.queue = Tail(@), !.busy = @ + 1, !.idle = idle]
           /\ holds' = [holds EXCEPT ![w] = {Head(state.queue)}]
        \/ /\ state.queue = <<>> /\ ~state.accepting /\ Goes(w, "gone")
           /\ state' = [state EXCEPT !.idle = idle] /\ UNCHANGED holds
        \/ /\ state.queue = <<>> /\ state.accepting /\ Goes(w, "asleep")
           /\ state' = [state EXCEPT !.idle = idle + 1] /\ UNCHANGED holds
    BY Zenon DEF Look, idle
  <2> QED BY <2>1, <1>6, <1>7, Zenon

\* A worker goes on with what it holds; a notification comes to one that
\* waits.
LEMMA GoesOn ==
    ASSUME CountFacts, CountInv, NEW w \in Workers, NEW there \in Errands, Goes(w, there), UNCHANGED <<state, holds, program>>,
           notifying' \in BOOLEAN, notifying' = notifying \/ there \in Coming, work[w] \notin Coming,
           there \in InHand <=> work[w] \in InHand, there \in Away <=> work[w] \in Away,
           there \notin {"asleep", "gone"}, work[w] # "gone"
    PROVE  CountInv'
<1> USE DEF CountInv
<1>1. work \in [Workers -> Errands] /\ state.queue \in Seq(Nat) BY Zenon DEF Locked, States
<1>2. work'[w] = there /\ (\A v \in Workers : v # w => work'[v] = work[v]) /\ work' \in [Workers -> Errands]
  BY <1>1, Zenon DEF Goes
<1>3. Locked' BY <1>2, Zenon DEF Locked
<1>4. Hands' BY SameHands, Zenon
<1>5. Line' BY SameLine, Zenon
<1>6. Taken' = Taken /\ \A n : Before(n)' = Before(n) BY SameRequests, Zenon
<1>7. Awaited' BY <1>6, SameAwaited, Zenon
<1>8. Tally'
  <2>1. Cardinality(In(Away)') = Cardinality(In(Away)) + (IF there \in Away THEN 1 ELSE 0)
                                    - (IF work[w] \in Away THEN 1 ELSE 0)
        /\ Cardinality(In(Away)) \in Nat
    BY <1>1, Recount, Zenon
  <2>2. Cardinality(In(Away)') = Cardinality(In(Away)) BY <2>1
  <2> QED BY <2>2, <1>6, Zenon DEF Tally
<1>9. WorkFound'
  <2>1. Cardinality(In(Coming)') = Cardinality(In(Coming)) + (IF there \in Coming THEN 1 ELSE 0)
                                      - (IF work[w] \in Coming THEN 1 ELSE 0)
        /\ Cardinality(In(Coming)) \in Nat
    BY <1>1, Recount, Zenon
  <2>2. In({"asleep"})' \subseteq In({"asleep"}) BY <1>2, Zenon DEF In
  <2>3. In({"asleep"}) # {} => Len(state.queue) <= Cardinality(In(Coming)) + (IF notifying THEN 1 ELSE 0) BY Found, Zenon
  <2>4. Len(state.queue) \in Nat /\ notifying \in BOOLEAN BY <1>1 DEF Locked
  <2>5. In({"asleep"})' # {} => Len(state.queue) <= Cardinality(In(Coming)') + (IF notifying' THEN 1 ELSE 0)
    BY <2>1, <2>2, <2>3, <2>4
  <2> QED BY <2>5, FoundNext, Zenon
<1>10. Staffed'
  <2>1. \A v \in Workers : work'[v] = "gone" <=> work[v] = "gone" BY <1>2, Zenon
  <2> QED BY <2>1, Staff, Zenon DEF Staffed
<1> QED BY <1>3, <1>4, <1>5, <1>7, <1>8, <1>9, <1>10, Zenon

LEMMA WorkerGoesOn ==
    ASSUME CountFacts, CountInv, NEW w \in Workers, Spurious(w) \/ Handle(w) \/ Fails(w) \/ Wakes(w)
    PROVE  CountInv'
<1>0. UNCHANGED <<state, holds, program, notifying>> /\ notifying' \in BOOLEAN
  BY Zenon DEF Spurious, Handle, Fails, Wakes, past, CountInv, Locked
<1>1. CASE Spurious(w)
  <2>1. work[w] = "asleep" /\ Goes(w, "signalled") BY <1>1, Zenon DEF Spurious
  <2> QED BY <2>1, <1>0, GoesOn, Zenon DEF Errands, InHand, Away, Coming
<1>2. CASE Handle(w)
  <2>1. work[w] = "handling" /\ Goes(w, "handled") BY <1>2, Zenon DEF Handle
  <2> QED BY <2>1, <1>0, GoesOn, Zenon DEF Errands, InHand, Away, Coming
<1>3. CASE Fails(w)
  <2>1. work[w] = "fails" /\ Goes(w, "wakes") BY <1>3, Zenon DEF Fails
  <2> QED BY <2>1, <1>0, GoesOn, Zenon DEF Errands, InHand, Away, Coming
<1>4. CASE Wakes(w)
  <2>1. work[w] = "wakes" /\ Goes(w, "look") BY <1>4, Zenon DEF Wakes
  <2> QED BY <2>1, <1>0, GoesOn, Zenon DEF Errands, InHand, Away, Coming
<1> QED BY <1>1, <1>2, <1>3, <1>4, Zenon

\* A step on nothing of what the invariant speaks of.
LEMMA SameCounts ==
    ASSUME CountInv, UNCHANGED <<state, work, holds, program>>,
           notifying' = notifying \/ (notifying' \in BOOLEAN /\ In({"asleep"}) = {})
    PROVE  CountInv'
<1> USE DEF CountInv
<1>1. Locked' BY Zenon DEF Locked
<1>2. Hands' BY Zenon DEF Hands
<1>3. Line' BY SameLine, Zenon
<1>4. Taken' = Taken /\ \A n : Before(n)' = Before(n) BY SameRequests, Zenon
<1>5. Awaited' BY <1>4, SameAwaited, Zenon
<1>6. \A places : In(places)' = In(places) BY Zenon DEF In
<1>7. Tally' BY <1>4, <1>6, Zenon DEF Tally
<1>8. WorkFound'
  <2>1. In({"asleep"}) # {} => Len(state.queue) <= Cardinality(In(Coming)) + (IF notifying THEN 1 ELSE 0) BY Found, Zenon
  <2> QED BY <2>1, <1>6, FoundNext
<1>9. Staffed' BY Zenon DEF Staffed
<1> QED BY <1>1, <1>2, <1>3, <1>5, <1>7, <1>8, <1>9, Zenon

LEMMA NotifyStep == ASSUME CountFacts, CountInv, Notify PROVE CountInv'
<1>0. notifying' = FALSE /\ UNCHANGED <<state, holds, program>> BY Zenon DEF Notify, past
<1>1. CASE \E w \in Workers : work[w] = "asleep" /\ Goes(w, "signalled")
  <2>1. PICK w \in Workers : work[w] = "asleep" /\ Goes(w, "signalled") BY <1>1, Zenon
  <2> QED BY <2>1, <1>0, GoesOn, Zenon DEF Errands, InHand, Away, Coming
<1>2. CASE (\A w \in Workers : work[w] # "asleep") /\ UNCHANGED work
  <2>1. In({"asleep"}) = {} BY <1>2, Zenon DEF In
  <2> QED BY <2>1, <1>0, <1>2, SameCounts, Zenon
<1> QED BY <1>1, <1>2, Zenon DEF Notify

\* What counting a request down does to the changes that wait.
LEMMA CountedDownFacts ==
    ASSUME NEW a \in Seq(Waits), NEW n \in Nat
    PROVE  /\ CountedDown(a, n) \in Seq(Waits) /\ DOMAIN CountedDown(a, n) = DOMAIN a
           /\ \A i \in DOMAIN a :
                 /\ a[i].before \in Nat /\ a[i].remaining \in Nat
                 /\ CountedDown(a, n)[i].before = a[i].before
                 /\ CountedDown(a, n)[i].remaining =
                      IF a[i].remaining > 0 /\ n < a[i].before THEN a[i].remaining - 1 ELSE a[i].remaining
<1> DEFINE c == CountedDown(a, n)
<1>1. DOMAIN a = 1 .. Len(a) /\ Len(a) \in Nat /\ \A i \in DOMAIN a : a[i] \in Waits BY Element
<1>2. DOMAIN c = DOMAIN a BY Zenon DEF CountedDown
<1>3. ASSUME NEW i \in DOMAIN a
      PROVE  /\ c[i] \in Waits /\ a[i].before \in Nat /\ a[i].remaining \in Nat /\ c[i].before = a[i].before
             /\ c[i].remaining = IF a[i].remaining > 0 /\ n < a[i].before THEN a[i].remaining - 1 ELSE a[i].remaining
  <2>1. a[i] \in Waits /\ a[i].before \in Nat /\ a[i].remaining \in Nat BY <1>1, Zenon DEF Waits
  <2>2. c[i] = IF a[i].remaining > 0 /\ n < a[i].before THEN [a[i] EXCEPT !.remaining = a[i].remaining - 1] ELSE a[i]
    BY Zenon DEF CountedDown
  <2> HIDE DEF c
  <2>3. CASE a[i].remaining > 0 /\ n < a[i].before
    <3>1. a[i].remaining - 1 \in Nat BY <2>1, <2>3
    <3>2. c[i] = [a[i] EXCEPT !.remaining = a[i].remaining - 1] BY <2>2, <2>3, Zenon
    <3>3. c[i] \in Waits /\ c[i].before = a[i].before /\ c[i].remaining = a[i].remaining - 1
      BY <2>1, <3>1, <3>2, Zenon DEF Waits
    <3> QED BY <3>3, <2>1, <2>3, Zenon
  <2>4. CASE ~(a[i].remaining > 0 /\ n < a[i].before) BY <2>1, <2>2, <2>4, Zenon
  <2> QED BY <2>3, <2>4, Zenon
<1>4. c = [i \in 1 .. Len(a) |-> c[i]] BY <1>1, Zenon DEF CountedDown
<1> HIDE DEF c
<1>5. c \in Seq(Waits) BY <1>1, <1>2, <1>3, <1>4
<1> QED BY <1>2, <1>3, <1>5, Zenon DEF c

\* A request is done: it leaves the worker's hand, and what waits for it.
LEMMA DoneStep == ASSUME CountFacts, CountInv, NEW w \in Workers, Done(w) PROVE CountInv'
<1> USE DEF CountInv
<1>0. /\ state \in States /\ work \in [Workers -> Errands] /\ work[w] = "handled" /\ holds \in [Workers -> SUBSET Nat]
      /\ state.queue \in Seq(Nat) /\ state.busy \in Nat /\ state.accepted \in Nat /\ state.acknowledged \in Seq(Waits)
      /\ state.failed \in BOOLEAN
      /\ UNCHANGED <<notifying, program>> /\ holds' = [holds EXCEPT ![w] = {}]
  BY Zenon DEF Locked, States, Done, past
<1>1. PICK n \in holds[w], failed \in BOOLEAN :
        /\ state' = [state EXCEPT !.busy = @ - 1, !.acknowledged = CountedDown(state.acknowledged, n), !.failed = @ \/ failed]
        /\ \E there \in {"fails", "wakes", "look"} : Goes(w, there)
  BY Zenon DEF Done
<1>2. PICK there \in {"fails", "wakes", "look"} : Goes(w, there) BY <1>1, Zenon
<1>3. n \in Nat /\ n < state.accepted /\ holds[w] = {n} BY <1>0, Zenon DEF Hands, InHand
<1>4. n \in Taken /\ n \in Unfinished BY <1>3, Zenon DEF Taken, Unfinished
<1> DEFINE a == state.acknowledged
           after == CountedDown(a, n)
<1>5. /\ after \in Seq(Waits) /\ DOMAIN after = DOMAIN a
      /\ \A i \in DOMAIN a :
            /\ a[i].before \in Nat /\ a[i].remaining \in Nat
            /\ after[i].before = a[i].before
            /\ after[i].remaining = IF a[i].remaining > 0 /\ n < a[i].before THEN a[i].remaining - 1 ELSE a[i].remaining
  BY <1>0, <1>3, CountedDownFacts, Zenon
<1> HIDE DEF after
<1>6. state.busy - 1 \in Nat
  <2>1. state.busy = Cardinality(Taken) /\ IsFiniteSet(Taken) BY Finite, Zenon DEF Tally
  <2>2. state.busy # 0 BY <2>1, <1>4, Zenon DEF CountFacts, EmptyCount
  <2> QED BY <2>2, <1>0
<1>7. /\ state' \in States /\ state'.queue = state.queue /\ state'.busy = state.busy - 1 /\ state'.idle = state.idle
      /\ state'.accepted = state.accepted /\ state'.acknowledged = after
      /\ state'.accepting = state.accepting
  <2>1. state' = [state EXCEPT !.busy = state.busy - 1, !.acknowledged = after, !.failed = state.failed \/ failed]
    BY <1>1, Zenon DEF after
  <2>2. (state.failed \/ failed) \in BOOLEAN BY Zenon
  <2> QED BY <2>1, <2>2, <1>0, <1>5, <1>6, SharedDone, Zenon
<1>8. /\ work'[w] = there /\ (\A v \in Workers : v # w => work'[v] = work[v]) /\ work' \in [Workers -> Errands]
      /\ there \in Errands /\ there \notin InHand /\ there \notin Away
  BY <1>0, <1>2, Zenon DEF Goes, Errands, InHand, Away
<1>9. holds'[w] = {} /\ (\A v \in Workers : v # w => holds'[v] = holds[v]) /\ holds' \in [Workers -> SUBSET Nat]
  BY <1>0, Zenon
<1>10. Locked' BY <1>0, <1>7, <1>8, <1>9, Zenon DEF Locked
<1>11. Hands'
  <2>1. \A v \in Workers : work'[v] \in InHand => \E m \in Nat : m < state'.accepted /\ holds'[v] = {m}
    BY <1>7, <1>8, <1>9 DEF Hands
  <2>2. \A v \in Workers : work'[v] \notin InHand => holds'[v] = {} BY <1>8, <1>9, Zenon DEF Hands
  <2>3. \A u, v \in Workers : u # v => holds'[u] \cap holds'[v] = {} BY <1>9, Zenon DEF Hands
  <2> QED BY <2>1, <2>2, <2>3, Zenon DEF Hands
<1>12. Taken' = Taken \ {n}
  <2>1. \A v \in Workers : v # w => n \notin holds[v] BY <1>3, Zenon DEF Hands
  <2> QED BY <2>1, <1>3, <1>9, Zenon DEF Taken
<1>13. Line' BY <1>7, <1>12, Zenon DEF Line, Elements
<1>14. Unfinished' = Unfinished \ {n}
  <2>1. Unfinished' = Taken' \cup Elements(state'.queue) BY Zenon DEF Unfinished, Elements
  <2>2. Unfinished = Taken \cup Elements(state.queue) /\ Taken \cap Elements(state.queue) = {} BY Finite, Zenon
  <2>3. Elements(state'.queue) = Elements(state.queue) BY <1>7, Zenon
  <2> QED BY <2>1, <2>2, <2>3, <1>4, <1>12, Zenon
<1>15. Awaited'
  <2>1. ASSUME NEW i \in DOMAIN a
        PROVE  \E b \in Nat : /\ after[i].before = b /\ b <= state.accepted
                              /\ after[i].remaining = Cardinality(Before(b)')
    <3>1. PICK b \in Nat : b = a[i].before BY <1>5, Zenon
    <3>2. b <= state.accepted /\ a[i].remaining = Cardinality(Before(b)) BY <3>1, Zenon DEF Awaited
    <3>3. PICK r \in Nat : r = a[i].remaining BY <1>5, Zenon
    <3>4. after[i].before = b /\ after[i].remaining = IF r > 0 /\ n < b THEN r - 1 ELSE r
      BY <1>5, <3>1, <3>3, Zenon
    <3>5. Before(b)' = Before(b) \ {n} BY <1>14, Zenon DEF Before
    <3>6. IsFiniteSet(Before(b)) BY Finite, Zenon
    <3>7. n \in Before(b) <=> n < b BY <1>4, Zenon DEF Before
    <3>8. Cardinality(Before(b)') = IF n < b THEN Cardinality(Before(b)) - 1 ELSE Cardinality(Before(b))
      BY <3>5, <3>6, <3>7, Zenon DEF CountFacts, RemoveCount
    <3>9. n < b => r # 0 BY <3>2, <3>3, <3>6, <3>7, Zenon DEF CountFacts, EmptyCount
    <3>10. after[i].remaining = Cardinality(Before(b)') BY <3>2, <3>3, <3>4, <3>8, <3>9
    <3> QED BY <3>2, <3>4, <3>10, Zenon
  <2> QED BY <2>1, <1>5, <1>7, AwaitedNext, Zenon
<1>16. Tally'
  <2>1. IsFiniteSet(Taken) BY Finite, Zenon
  <2>2. Cardinality(Taken') = Cardinality(Taken) - 1 BY <2>1, <1>4, <1>12, Zenon DEF CountFacts, RemoveCount
  <2>3. Cardinality(In(Away)') = Cardinality(In(Away)) + (IF there \in Away THEN 1 ELSE 0)
                                    - (IF work[w] \in Away THEN 1 ELSE 0)
        /\ Cardinality(In(Away)) \in Nat
    <3>1. work \in [Workers -> Errands] /\ there \in Errands BY <1>0, <1>8, Zenon
    <3> QED BY <3>1, <1>2, Recount, Zenon
  <2>4. work[w] \notin Away BY <1>0, Zenon DEF Away
  <2>5. Cardinality(In(Away)') = Cardinality(In(Away)) BY <2>3, <2>4, <1>8
  <2> QED BY <2>2, <2>5, <1>7, Zenon DEF Tally
<1>17. WorkFound'
  <2>1. Cardinality(In(Coming)') = Cardinality(In(Coming)) + (IF there \in Coming THEN 1 ELSE 0)
                                      - (IF work[w] \in Coming THEN 1 ELSE 0)
        /\ Cardinality(In(Coming)) \in Nat
    <3>1. work \in [Workers -> Errands] /\ there \in Errands BY <1>0, <1>8, Zenon
    <3> QED BY <3>1, <1>2, Recount, Zenon
  <2>2. work[w] \notin Coming BY <1>0, Zenon DEF Coming
  <2>3. In({"asleep"})' \subseteq In({"asleep"}) BY <1>8, Zenon DEF In
  <2>4. In({"asleep"}) # {} => Len(state.queue) <= Cardinality(In(Coming)) + (IF notifying THEN 1 ELSE 0) BY Found, Zenon
  <2>5. In({"asleep"})' # {} => Len(state'.queue) <= Cardinality(In(Coming)') + (IF notifying' THEN 1 ELSE 0)
    BY <2>1, <2>2, <2>3, <2>4, <1>0, <1>7
  <2> QED BY <2>5, FoundNext, Zenon
<1>18. Staffed'
  <2>1. \A v \in Workers : work'[v] = "gone" <=> work[v] = "gone" BY <1>0, <1>8, Zenon
  <2> QED BY <2>1, <1>0, <1>7, Staff, Zenon DEF Staffed
<1> QED BY <1>10, <1>11, <1>13, <1>15, <1>16, <1>17, <1>18, Zenon

-----------------------------------------------------------------------------
(* The io thread and the serving thread.                                   *)

\* A request is queued: the last of the line, and a worker is notified if
\* one waits.
LEMMA QueueStep ==
    ASSUME CountFacts, CountInv, ~notifying, state.accepting, UNCHANGED <<work, holds, program>>, notifying' = (state.idle > 0),
           state' = [state EXCEPT !.queue = Append(@, state.accepted), !.accepted = @ + 1]
    PROVE  CountInv'
<1> USE DEF CountInv
<1>0. /\ state \in States /\ work \in [Workers -> Errands] /\ holds \in [Workers -> SUBSET Nat]
      /\ state.queue \in Seq(Nat) /\ state.accepted \in Nat /\ state.idle \in Nat
  BY Zenon DEF Locked, States
<1> DEFINE q == Append(state.queue, state.accepted)
           k == Len(state.queue)
<1>1. /\ q \in Seq(Nat) /\ Len(q) = k + 1 /\ DOMAIN q = 1 .. k + 1 /\ DOMAIN state.queue = 1 .. k /\ k \in Nat
      /\ (\A i \in 1 .. k : q[i] = state.queue[i]) /\ q[k + 1] = state.accepted
  BY <1>0, AppendFacts
<1>2. Elements(q) = Elements(state.queue) \cup {state.accepted} BY <1>0, AppendElements, Zenon
<1>3. /\ Taken \in SUBSET Nat /\ Elements(state.queue) \in SUBSET Nat
      /\ Unfinished = Taken \cup Elements(state.queue)
      /\ \A n \in Unfinished : n \in Nat /\ n < state.accepted
      /\ IsFiniteSet(Taken) /\ IsFiniteSet(Elements(state.queue)) /\ IsFiniteSet(Unfinished)
  BY Finite, Zenon
<1>4. state.accepted \notin Unfinished /\ state.accepted \notin Elements(state.queue) /\ state.accepted \notin Taken
  BY <1>0, <1>3
<1>5. Len(q) = Cardinality(Elements(q)) BY <1>0, <1>3, <1>4, Shifted, Zenon DEF Line
<1> HIDE DEF q
<1>6. /\ state' \in States /\ state'.queue = q /\ state'.busy = state.busy /\ state'.idle = state.idle
      /\ state'.accepted = state.accepted + 1 /\ state'.acknowledged = state.acknowledged
      /\ state'.accepting = state.accepting
  <2>1. state' = [state EXCEPT !.queue = q, !.accepted = state.accepted + 1] /\ state.accepted + 1 \in Nat
    BY <1>0 DEF q
  <2> QED BY <2>1, <1>0, <1>1, SharedQueue, Zenon
<1>7. Taken' = Taken BY Zenon DEF Taken
<1>8. Locked'
  <2>1. notifying' \in BOOLEAN BY <1>0
  <2> QED BY <2>1, <1>6, Zenon DEF Locked
<1>9. Hands'
  <2>1. \A w \in Workers : work[w] \in InHand => \E n \in Nat : n < state.accepted + 1 /\ holds[w] = {n}
    BY <1>0 DEF Hands
  <2> QED BY <2>1, <1>6, Zenon DEF Hands
<1>10. Line'
  <2>1. \A i \in DOMAIN state.queue : state.queue[i] \in Nat /\ state.queue[i] < state.accepted
    BY <1>0, Element, Zenon DEF Line
  <2>2. ASSUME NEW i \in DOMAIN q PROVE q[i] < state.accepted + 1 /\ q[i] \notin Taken
    <3>1. CASE i = k + 1 BY <3>1, <1>0, <1>1, <1>4
    <3>2. CASE i \in 1 .. k
      <4>1. q[i] = state.queue[i] /\ i \in DOMAIN state.queue BY <3>2, <1>1, Zenon
      <4>2. q[i] < state.accepted + 1 BY <4>1, <2>1, <1>0
      <4> QED BY <4>1, <4>2, Zenon DEF Line
    <3> QED BY <3>1, <3>2, <1>1
  <2>3. ASSUME NEW i \in DOMAIN q, NEW j \in DOMAIN q, i < j PROVE q[i] < q[j]
    <3>1. i \in DOMAIN state.queue /\ q[i] = state.queue[i] BY <2>3, <1>1
    <3>2. CASE j = k + 1 BY <3>1, <3>2, <2>1, <1>1, Zenon
    <3>3. CASE j \in 1 .. k
      <4>1. j \in DOMAIN state.queue /\ q[j] = state.queue[j] BY <3>3, <1>1, Zenon
      <4> QED BY <4>1, <3>1, <2>3, Zenon DEF Line
    <3> QED BY <3>2, <3>3, <1>1
  <2>4. Elements(state'.queue) = Elements(q) BY <1>6, Zenon
  <2> QED BY <2>2, <2>3, <2>4, <1>5, <1>6, <1>7, Zenon DEF Line
<1>11. Unfinished' = Unfinished \cup {state.accepted}
  <2>1. Unfinished' = Taken' \cup Elements(state'.queue) BY Zenon DEF Unfinished, Elements
  <2>2. Elements(state'.queue) = Elements(q) BY <1>6, Zenon
  <2> QED BY <2>1, <2>2, <1>2, <1>3, <1>7, Zenon
<1>12. Awaited'
  <2>1. ASSUME NEW i \in DOMAIN state.acknowledged
        PROVE  \E b \in Nat : /\ state.acknowledged[i].before = b /\ b <= state.accepted + 1
                              /\ state.acknowledged[i].remaining = Cardinality(Before(b)')
    <3>1. state.acknowledged[i] \in Waits BY <1>0, Element, Zenon DEF States
    <3>2. PICK b \in Nat : b = state.acknowledged[i].before BY <3>1, Zenon DEF Waits
    <3>3. b <= state.accepted /\ state.acknowledged[i].remaining = Cardinality(Before(b)) BY <3>2, Zenon DEF Awaited
    <3>4. ~(state.accepted < b) BY <3>3, <1>0
    <3>5. Before(b)' = Before(b) BY <3>4, <1>11, Zenon DEF Before
    <3>6. b <= state.accepted + 1 BY <3>3, <1>0
    <3> QED BY <3>2, <3>3, <3>5, <3>6, Zenon
  <2> QED BY <2>1, <1>6, AwaitedNext, Zenon
<1>13. \A places : In(places)' = In(places) BY Zenon DEF In
<1>14. Tally' BY <1>6, <1>7, <1>13, Zenon DEF Tally
<1>15. WorkFound'
  <2>1. In({"asleep"}) # {} => Len(state.queue) <= Cardinality(In(Coming)) + (IF notifying THEN 1 ELSE 0) BY Found, Zenon
  <2>2. IsFiniteSet(In(Coming)) /\ IsFiniteSet(In(Away))
    <3>1. IsFiniteSet(Workers) /\ In(Coming) \in SUBSET Workers /\ In(Away) \in SUBSET Workers BY ServerAssumption, Zenon DEF In
    <3> QED BY <3>1, Zenon DEF CountFacts, SubsetCount
  <2>3. In({"asleep"}) # {} => In(Away) # {} BY Zenon DEF In, Away
  <2>4. In({"asleep"}) # {} => state.idle # 0 BY <2>2, <2>3, Zenon DEF Tally, CountFacts, EmptyCount
  <2>5. Cardinality(In(Coming)) \in Nat BY <2>2, Zenon DEF CountFacts, NumberCount
  <2>6. In({"asleep"}) # {} => Len(q) <= Cardinality(In(Coming)) + (IF notifying' THEN 1 ELSE 0)
    <3>1. (notifying' <=> state.idle > 0) /\ ~notifying /\ state.idle \in Nat BY <1>0, Zenon
    <3>2. In({"asleep"}) # {} => notifying'
      <4>1. In({"asleep"}) # {} => state.idle > 0 BY <2>4, <3>1
      <4> QED BY <4>1, <3>1, Zenon
    <3>3. In({"asleep"}) # {} => k <= Cardinality(In(Coming)) BY <2>1, <3>1, <2>5, <1>1
    <3> QED BY <3>2, <3>3, <2>5, <1>1
  <2> QED BY <2>6, <1>6, <1>13, FoundNext, Zenon
<1>16. Staffed'
  <2>1. \A w \in program.workers : work[w] # "gone" BY Zenon DEF Staffed
  <2> QED BY <2>1, Zenon DEF Staffed
<1> QED BY <1>8, <1>9, <1>10, <1>12, <1>14, <1>15, <1>16, Zenon

LEMMA OnMessageStep == ASSUME CountFacts, CountInv, NEW c, OnMessage(c) PROVE CountInv'
<1>1. ~notifying /\ UNCHANGED <<work, holds, program>> BY Zenon DEF OnMessage, IoFree
<1>2. CASE /\ state.accepting
           /\ state' = [state EXCEPT !.queue = Append(@, state.accepted), !.accepted = @ + 1]
           /\ notifying' = (state.idle > 0)
  BY <1>1, <1>2, QueueStep, Zenon
<1>3. CASE UNCHANGED <<state, notifying>> BY <1>1, <1>3, SameCounts, Zenon
<1> QED BY <1>2, <1>3, Zenon DEF OnMessage

\* A list of waits with more of the same behind it, or without the first.
LEMMA Joined ==
    ASSUME NEW a \in Seq(Waits), NEW x \in Waits, NEW k \in Nat
    PROVE  /\ a \o [i \in 1 .. k |-> x] \in Seq(Waits)
           /\ \A i \in DOMAIN (a \o [j \in 1 .. k |-> x]) :
                 \/ i \in DOMAIN a /\ (a \o [j \in 1 .. k |-> x])[i] = a[i]
                 \/ (a \o [j \in 1 .. k |-> x])[i] = x
<1> DEFINE b == [i \in 1 .. k |-> x]
<1>1. b \in Seq(Waits) /\ Len(b) = k /\ DOMAIN b = 1 .. k /\ \A i \in 1 .. k : b[i] = x OBVIOUS
<1> HIDE DEF b
<1>2. a \o b \in Seq(Waits) /\ Len(a \o b) = Len(a) + k /\ Len(a) \in Nat /\ DOMAIN (a \o b) = 1 .. Len(a) + k
  BY <1>1
<1>3. ASSUME NEW i \in DOMAIN (a \o b) PROVE (i \in DOMAIN a /\ (a \o b)[i] = a[i]) \/ (a \o b)[i] = x
  <2>1. CASE i <= Len(a) BY <2>1, <1>1, <1>2
  <2>2. CASE i > Len(a)
    <3>1. (a \o b)[i] = b[i - Len(a)] /\ i - Len(a) \in 1 .. k BY <2>2, <1>1, <1>2
    <3> QED BY <3>1, <1>1, Zenon
  <2> QED BY <2>1, <2>2, <1>2
<1> QED BY <1>2, <1>3, Zenon DEF b

LEMMA SubWaits ==
    ASSUME NEW a \in Seq(Waits), NEW n \in 0 .. Len(a)
    PROVE  /\ SubSeq(a, n + 1, Len(a)) \in Seq(Waits)
           /\ \A i \in DOMAIN SubSeq(a, n + 1, Len(a)) : \E j \in DOMAIN a : SubSeq(a, n + 1, Len(a))[i] = a[j]
<1> DEFINE b == SubSeq(a, n + 1, Len(a))
<1>1. b \in Seq(Waits) /\ Len(a) \in Nat /\ DOMAIN a = 1 .. Len(a) OBVIOUS
<1>2. DOMAIN b = 1 .. Len(a) - n OBVIOUS
<1>3. \A i \in 1 .. Len(a) - n : b[i] = a[n + i] /\ n + i \in 1 .. Len(a) OBVIOUS
<1> HIDE DEF b
<1>4. \A i \in DOMAIN b : \E j \in DOMAIN a : b[i] = a[j] BY <1>1, <1>2, <1>3, Zenon
<1> QED BY <1>1, <1>4, Zenon DEF b

\* The waits are replaced by others that are right.
LEMMA AcksStep ==
    ASSUME CountInv, UNCHANGED <<work, holds, notifying, program>>, NEW a \in Seq(Waits),
           state' = [state EXCEPT !.acknowledged = a],
           \A i \in DOMAIN a : a[i].before <= state.accepted /\ a[i].remaining = Cardinality(Before(a[i].before))
    PROVE  CountInv'
<1> USE DEF CountInv
<1>0. state \in States BY Zenon DEF Locked
<1>1. /\ state' \in States /\ state'.queue = state.queue /\ state'.busy = state.busy /\ state'.idle = state.idle
      /\ state'.accepted = state.accepted /\ state'.acknowledged = a
      /\ state'.accepting = state.accepting
  BY <1>0, SharedAcks, Zenon
<1>2. Locked' BY <1>1, Zenon DEF Locked
<1>3. Hands' BY <1>1, Zenon DEF Hands
<1>4. Line' BY <1>1, SameLine, Zenon
<1>5. Taken' = Taken /\ \A n : Before(n)' = Before(n) BY <1>1, SameRequests, Zenon
<1>6. Awaited'
  <2>1. ASSUME NEW i \in DOMAIN a
        PROVE  \E b \in Nat : /\ a[i].before = b /\ b <= state.accepted /\ a[i].remaining = Cardinality(Before(b)')
    <3>1. a[i] \in Waits BY Element, Zenon
    <3>2. a[i].before \in Nat BY <3>1, Zenon DEF Waits
    <3> QED BY <3>2, <1>5, Zenon
  <2> QED BY <2>1, <1>1, AwaitedNext, Zenon
<1>7. \A places : In(places)' = In(places) BY Zenon DEF In
<1>8. Tally' BY <1>1, <1>5, <1>7, Zenon DEF Tally
<1>9. WorkFound'
  <2>1. In({"asleep"}) # {} => Len(state.queue) <= Cardinality(In(Coming)) + (IF notifying THEN 1 ELSE 0) BY Found, Zenon
  <2> QED BY <2>1, <1>1, <1>7, FoundNext, Zenon
<1>10. Staffed' BY <1>1, Zenon DEF Staffed
<1> QED BY <1>2, <1>3, <1>4, <1>6, <1>8, <1>9, <1>10, Zenon

\* What is pending is what is unfinished.
LEMMA PendingIsUnfinished == ASSUME CountFacts, CountInv PROVE Pending \in Nat /\ Pending = Cardinality(Unfinished)
<1>1. /\ Unfinished = Taken \cup Elements(state.queue) /\ Taken \cap Elements(state.queue) = {}
      /\ IsFiniteSet(Taken) /\ IsFiniteSet(Elements(state.queue))
  BY Finite, Zenon DEF CountInv
<1>2. Cardinality(Unfinished) = Cardinality(Taken) + Cardinality(Elements(state.queue))
                                    - Cardinality(Taken \cap Elements(state.queue))
  BY <1>1, Zenon DEF CountFacts, UnionCount
<1>3. Cardinality(Taken) \in Nat /\ Cardinality(Elements(state.queue)) \in Nat BY <1>1, Zenon DEF CountFacts, NumberCount
<1>4. Cardinality(Taken \cap Elements(state.queue)) = 0 BY <1>1, Zenon DEF CountFacts, EmptyCount
<1>5. Len(state.queue) = Cardinality(Elements(state.queue)) /\ state.busy = Cardinality(Taken)
  BY Zenon DEF CountInv, Line, Tally
<1> QED BY <1>2, <1>3, <1>4, <1>5 DEF Pending

\* A change acknowledged now waits for exactly what is unfinished.
LEMMA AcknowledgedStep ==
    ASSUME CountFacts, CountInv, UNCHANGED <<work, holds, notifying, program>>, NEW ran, NEW filters, IsFiniteSet(filters), NEW due,
           Acknowledged(ran, filters, due)
    PROVE  CountInv'
<1> DEFINE x == [before |-> state.accepted, remaining |-> Pending]
           k == Cardinality(ran \cap filters)
           a == state.acknowledged \o [i \in 1 .. k |-> x]
<1>0. state.accepted \in Nat /\ state.acknowledged \in Seq(Waits) BY Zenon DEF CountInv, Locked, States
<1>1. Pending \in Nat /\ Pending = Cardinality(Unfinished) BY PendingIsUnfinished, Zenon
<1>2. x \in Waits /\ x.before = state.accepted /\ x.remaining = Pending BY <1>0, <1>1, Zenon DEF Waits
<1>3. k \in Nat
  <2>1. IsFiniteSet(ran \cap filters)
    <3>1. ran \cap filters \in SUBSET filters BY Zenon
    <3> QED BY <3>1, Zenon DEF CountFacts, SubsetCount
  <2> QED BY <2>1, Zenon DEF CountFacts, NumberCount
<1>4. state' = [state EXCEPT !.acknowledged = a] BY Zenon DEF Acknowledged
<1> HIDE DEF x, k
<1>5. a \in Seq(Waits) /\ \A i \in DOMAIN a : (i \in DOMAIN state.acknowledged /\ a[i] = state.acknowledged[i]) \/ a[i] = x
  BY <1>0, <1>2, <1>3, Joined, Zenon
<1> HIDE DEF a
<1>6. Before(state.accepted) = Unfinished BY Finite, Zenon DEF Before, CountInv
<1>7. \A i \in DOMAIN a : a[i].before <= state.accepted /\ a[i].remaining = Cardinality(Before(a[i].before))
  <2> SUFFICES ASSUME NEW i \in DOMAIN a
               PROVE  a[i].before <= state.accepted /\ a[i].remaining = Cardinality(Before(a[i].before))
    BY ZenonT(20)
  <2>1. CASE i \in DOMAIN state.acknowledged /\ a[i] = state.acknowledged[i] BY <2>1, ZenonT(40) DEF CountInv, Awaited
  <2>2. CASE a[i] = x BY <2>2, <1>0, <1>1, <1>2, <1>6
  <2> QED BY <2>1, <2>2, <1>5, Zenon
<1> QED BY <1>4, <1>5, <1>7, AcksStep, Zenon

\* The callbacks that are due are the first ones.
LEMMA DueIsANumber == ASSUME CountFacts, state.acknowledged \in Seq(Waits) PROVE DueAcknowledged \in 0 .. Len(state.acknowledged)
<1> DEFINE a == state.acknowledged
           P(n) == /\ \A i \in 1 .. n : a[i].remaining = 0
                   /\ n < Len(a) => a[n + 1].remaining > 0
           S == {j \in 1 .. Len(a) : a[j].remaining # 0}
<1>0. Len(a) \in Nat /\ DOMAIN a = 1 .. Len(a) /\ \A i \in 1 .. Len(a) : a[i].remaining \in Nat
  <2>1. Len(a) \in Nat /\ DOMAIN a = 1 .. Len(a) /\ \A i \in DOMAIN a : a[i] \in Waits BY Element
  <2> QED BY <2>1, Zenon DEF Waits
<1>1. \E n \in 0 .. Len(a) : P(n)
  <2>1. CASE S = {}
    <3>1. P(Len(a)) BY <2>1, <1>0
    <3> QED BY <3>1, <1>0
  <2>2. CASE S # {}
    <3>1. S \in SUBSET Nat BY <1>0
    <3>2. PICK m \in S : \A j \in S : m <= j BY <3>1, <2>2, Smallest, Zenon
    <3>3. m \in 1 .. Len(a) /\ a[m].remaining # 0 BY <3>2, Zenon
    <3>4. \A i \in 1 .. m - 1 : a[i].remaining = 0
      <4> SUFFICES ASSUME NEW i \in 1 .. m - 1, a[i].remaining # 0 PROVE FALSE BY Zenon
      <4>1. i \in S /\ ~(m <= i) BY <3>3, <1>0
      <4> QED BY <4>1, <3>2, Zenon
    <3>5. P(m - 1) BY <3>3, <3>4, <1>0
    <3>6. m - 1 \in 0 .. Len(a) BY <3>3, <1>0
    <3> QED BY <3>5, <3>6, Zenon
  <2> QED BY <2>1, <2>2, Zenon
<1>2. DueAcknowledged = CHOOSE n \in 0 .. Len(a) : P(n) BY Zenon DEF DueAcknowledged
<1> HIDE DEF P
<1> QED BY <1>1, <1>2, Zenon

LEMMA RunAcknowledgedStep == ASSUME CountFacts, CountInv, RunAcknowledged PROVE CountInv'
<1> DEFINE a == state.acknowledged
           n == DueAcknowledged
           b == SubSeq(a, n + 1, Len(a))
<1>0. a \in Seq(Waits) BY Zenon DEF CountInv, Locked, States
<1>1. n \in 0 .. Len(a) BY <1>0, DueIsANumber, Zenon
<1>2. state' = [state EXCEPT !.acknowledged = b] /\ UNCHANGED <<work, holds, notifying, program>>
  BY Zenon DEF RunAcknowledged, past
<1> HIDE DEF n
<1>3. b \in Seq(Waits) /\ \A i \in DOMAIN b : \E j \in DOMAIN a : b[i] = a[j] BY <1>0, <1>1, SubWaits, Zenon
<1> HIDE DEF b
<1>4. \A i \in DOMAIN b : b[i].before <= state.accepted /\ b[i].remaining = Cardinality(Before(b[i].before))
  BY <1>3, Zenon DEF CountInv, Awaited
<1> QED BY <1>2, <1>3, <1>4, AcksStep, Zenon

LEMMA CloseShutsStep == ASSUME CountInv, NEW t, CloseShuts(t) PROVE CountInv'
<1> USE DEF CountInv
<1>0. state \in States /\ state' = [state EXCEPT !.accepting = FALSE] /\ UNCHANGED <<work, holds, notifying, program>>
  BY Zenon DEF Locked, CloseShuts, past
<1>1. /\ state' \in States /\ state'.queue = state.queue /\ state'.busy = state.busy /\ state'.idle = state.idle
      /\ state'.accepted = state.accepted /\ state'.acknowledged = state.acknowledged
      /\ state'.accepting = FALSE
  BY <1>0, SharedShut, Zenon
<1>2. Locked' BY <1>0, <1>1, Zenon DEF Locked
<1>3. Hands' BY <1>0, <1>1, Zenon DEF Hands
<1>4. Line' BY <1>0, <1>1, SameLine, Zenon
<1>5. Taken' = Taken /\ \A n : Before(n)' = Before(n) BY <1>0, <1>1, SameRequests, Zenon
<1>6. Awaited' BY <1>1, <1>5, SameAwaited, Zenon
<1>7. \A places : In(places)' = In(places) BY <1>0, Zenon DEF In
<1>8. Tally' BY <1>1, <1>5, <1>7, Zenon DEF Tally
<1>9. WorkFound'
  <2>1. In({"asleep"}) # {} => Len(state.queue) <= Cardinality(In(Coming)) + (IF notifying THEN 1 ELSE 0) BY Found, Zenon
  <2> QED BY <2>1, <1>0, <1>1, <1>7, FoundNext, Zenon
<1>10. Staffed' BY <1>0, <1>1, Zenon DEF Staffed
<1> QED BY <1>2, <1>3, <1>4, <1>6, <1>8, <1>9, <1>10, Zenon

LEMMA CloseNotifiesStep == ASSUME CountInv, NEW t, CloseNotifies(t) PROVE CountInv'
<1> USE DEF CountInv
<1>0. /\ work' = [w \in Workers |-> IF work[w] = "asleep" THEN "signalled" ELSE work[w]]
      /\ UNCHANGED <<state, holds, notifying, program>> /\ work \in [Workers -> Errands]
  BY Zenon DEF Locked, CloseNotifies, past
<1>1. /\ work' \in [Workers -> Errands]
      /\ \A w \in Workers : work'[w] # "asleep" /\ (work'[w] \in InHand <=> work[w] \in InHand)
                            /\ (work'[w] \in Away <=> work[w] \in Away) /\ (work'[w] = "gone" <=> work[w] = "gone")
  BY <1>0, Zenon DEF Errands, InHand, Away
<1>2. Locked' BY <1>0, <1>1, Zenon DEF Locked
<1>3. Hands' BY <1>0, <1>1, Zenon DEF Hands
<1>4. Line' BY <1>0, SameLine, Zenon
<1>5. Taken' = Taken /\ \A n : Before(n)' = Before(n) BY <1>0, SameRequests, Zenon
<1>6. Awaited' BY <1>0, <1>5, SameAwaited, Zenon
<1>7. In(Away)' = In(Away) BY <1>1, Zenon DEF In
<1>8. Tally' BY <1>0, <1>5, <1>7, Zenon DEF Tally
<1>9. In({"asleep"})' = {} BY <1>1, Zenon DEF In
<1>10. WorkFound' BY <1>9, FoundNext, Zenon
<1>11. Staffed' BY <1>0, <1>1, Staff, Zenon DEF Staffed
<1> QED BY <1>2, <1>3, <1>4, <1>6, <1>8, <1>10, <1>11, Zenon

\* Joined workers leave nothing behind.
LEMMA AllGone ==
    ASSUME CountFacts, CountInv, \A w \in Workers : work[w] = "gone"
    PROVE  state.queue = <<>> /\ Unfinished = {} /\ state.busy = 0
<1> USE DEF CountInv
<1>1. program.workers # {} /\ program.workers \subseteq Workers BY ServerAssumption, Zenon DEF Locked
<1>2. state.queue = <<>> BY <1>1, Zenon DEF Staffed
<1>3. \A w \in Workers : holds[w] = {} BY Zenon DEF Hands, InHand
<1>4. Taken = {} BY <1>3, Zenon DEF Taken
<1>5. Unfinished = {} BY <1>2, <1>4 DEF Unfinished
<1>6. state.busy = 0 BY <1>4, Zenon DEF Tally, CountFacts, EmptyCount
<1> QED BY <1>2, <1>5, <1>6, Zenon

LEMMA CloseJoinsStep ==
    ASSUME CountFacts, CountInv, NEW t, CloseJoins(t)
    PROVE  CountInv' /\ UNCHANGED state /\ Len(state.queue) = 0
<1>0. /\ state' = [state EXCEPT !.queue = <<>>] /\ UNCHANGED <<work, holds, notifying, program>>
      /\ \A w \in Workers : work[w] = "gone"
  BY Zenon DEF CloseJoins
<1>1. state.queue = <<>> BY <1>0, AllGone, Zenon
<1>2. state' = state
  <2>1. state \in States BY Zenon DEF CountInv, Locked
  <2>2. state' = [state EXCEPT !.queue = state.queue] BY <1>0, <1>1, Zenon
  <2> DEFINE A == Seq(Nat)
             W == Seq(Waits)
  <2>3. state \in [queue : A, busy : Nat, idle : Nat, accepted : Nat, acknowledged : W, accepting : BOOLEAN, failed : BOOLEAN]
    BY <2>1, Zenon DEF States
  <2> HIDE DEF A, W
  <2> QED BY <2>2, <2>3, Zenon
<1> QED BY <1>0, <1>1, <1>2, SameCounts, Zenon

-----------------------------------------------------------------------------
(* The books are right at every step.                                      *)

LEMMA InitCount == ASSUME CountFacts, ServerInit PROVE CountInv
<1>0. /\ state = State /\ work = [w \in Workers |-> IF w \in program.workers THEN "look" ELSE "gone"]
      /\ holds = [w \in Workers |-> {}] /\ notifying = FALSE /\ program \in Programs
  BY Zenon DEF ServerInit
<1>1. /\ state \in States /\ state.queue = <<>> /\ state.busy = 0 /\ state.idle = 0 /\ state.acknowledged = <<>>
  BY <1>0 DEF State, States
<1>2. Locked BY <1>0, <1>1, Zenon DEF Locked, Errands
<1>3. \A w \in Workers : holds[w] = {} /\ work[w] \in {"look", "gone"} BY <1>0, Zenon
<1>4. Hands BY <1>3, Zenon DEF Hands, InHand
<1>5. Taken = {} BY <1>3, Zenon DEF Taken
<1>6. Line
  <2>1. Elements(state.queue) = {} /\ Len(state.queue) = 0 /\ DOMAIN state.queue = {} BY <1>1 DEF Elements
  <2> QED BY <2>1, Zenon DEF Line, CountFacts, EmptyCount
<1>7. In(Away) = {} /\ In({"asleep"}) = {} BY <1>3, Zenon DEF In, Away
<1>8. Tally BY <1>1, <1>5, <1>7, Zenon DEF Tally, CountFacts, EmptyCount
<1>9. Awaited BY <1>1 DEF Awaited
<1>10. WorkFound BY <1>7, Found, Zenon
<1>11. Staffed
  <2>1. program.workers \subseteq Workers BY <1>2, Staff, Zenon
  <2> QED BY <2>1, <1>0, Zenon DEF Staffed
<1> QED BY <1>2, <1>4, <1>6, <1>8, <1>9, <1>10, <1>11, Zenon DEF CountInv

LEMMA FewFilters == ASSUME CountFacts, NEW F \in SUBSET Versions PROVE IsFiniteSet(F)
<1>1. IsFiniteSet(Versions)
  <2>1. MaxVersion \in Nat BY RoutingAssumption, Zenon
  <2> QED BY <2>1 DEF Versions, CountFacts, IntervalCount
<1> QED BY <1>1, Zenon DEF CountFacts, SubsetCount

LEMMA NextCount ==
    ASSUME CountFacts, CountInv, filtering \in SUBSET Versions, filtering' \in SUBSET Versions, [ServerNext]_allVars
    PROVE  CountInv'
<1>0. IsFiniteSet(filtering) /\ IsFiniteSet(filtering') BY FewFilters, Zenon
<1>1. ASSUME NEW w \in Workers, Worker(w) \/ Spurious(w) PROVE CountInv'
  BY <1>1, LookStep, DoneStep, WorkerGoesOn, Zenon DEF Worker
<1>2. ASSUME NEW c \in Conns, Event(c) PROVE CountInv'
  <2>1. CASE OnMessage(c) BY <2>1, OnMessageStep, Zenon
  <2>2. CASE Up(c)
    <3>1. Acknowledged(callbacks \ callbacks', filtering, FlushEnds(held)) /\ UNCHANGED <<work, holds, notifying, program>>
      BY <2>2, Zenon DEF Up, past
    <3> QED BY <3>1, <1>0, AcknowledgedStep, Zenon
  <2>3. CASE Lost(c)
    <3>1. Acknowledged(callbacks \ callbacks', filtering, FALSE) /\ UNCHANGED <<work, holds, notifying, program>>
      BY <2>3, Zenon DEF Lost, past
    <3> QED BY <3>1, <1>0, AcknowledgedStep, Zenon
  <2>4. CASE Other(c)
    <3>1. Acknowledged(callbacks \ callbacks', filtering, FALSE) /\ UNCHANGED <<work, holds, notifying, program>>
      BY <2>4, Zenon DEF Other
    <3> QED BY <3>1, <1>0, AcknowledgedStep, Zenon
  <2> QED BY <1>2, <2>1, <2>2, <2>3, <2>4, Zenon DEF Event
<1>3. ASSUME NEW c \in Conns, Network(c) PROVE CountInv'
  <2>1. UNCHANGED own BY <1>3, Zenon DEF Network
  <2>2. UNCHANGED <<state, work, holds, program, notifying>> BY <2>1, Zenon DEF own, locked, past
  <2> QED BY <2>2, SameCounts, Zenon
<1>4. CASE Notify BY <1>4, NotifyStep, Zenon
<1>5. CASE Command
  <2>1. CASE RunDrain
    <3>1. /\ Acknowledged((callbacks \cup {version'}) \ callbacks', filtering, FALSE)
          /\ UNCHANGED <<work, holds, notifying, program>>
      BY <2>1, Zenon DEF RunDrain, past
    <3> QED BY <3>1, <1>0, AcknowledgedStep, Zenon
  <2>2. CASE RunFilters
    <3>1. /\ Acknowledged((callbacks \cup {version'}) \ callbacks', filtering', FALSE)
          /\ UNCHANGED <<work, holds, notifying, program>>
      BY <2>2, ZenonT(40) DEF RunFilters, past
    <3> QED BY <3>1, <1>0, AcknowledgedStep, Zenon
  <2>3. CASE RunReply \/ RunAsk \/ RunHeld \/ RunFlush \/ RunShutdown
    <3>1. UNCHANGED <<state, work, holds, program, notifying>>
      BY <2>3, Zenon DEF RunReply, RunAsk, RunHeld, RunFlush, RunShutdown, locked, past
    <3> QED BY <3>1, SameCounts, Zenon
  <2> QED BY <1>5, <2>1, <2>2, <2>3, Zenon DEF Command
<1>6. CASE RunAcknowledged BY <1>6, RunAcknowledgedStep, Zenon
<1>7. CASE Expires \/ LoopTop \/ LoopWoken \/ LoopAtCap \/ LoopChecks \/ AskHeld \/ ArmFlush \/ Periodic \/ LoopPolls
  <2>1. UNCHANGED <<state, work, holds, program, notifying>>
    BY <1>7, ZenonT(40) DEF Expires, LoopTop, LoopWoken, LoopAtCap, LoopChecks, AskHeld, ArmFlush, Periodic, LoopPolls, locked, past
  <2> QED BY <2>1, SameCounts, Zenon
<1>8. CASE StartDraining \/ Drained \/ Stop \/ SetKeyFilters \/ CapPasses \/ Close
  <2>1. UNCHANGED <<state, work, holds, program, notifying>>
    BY <1>8, Zenon DEF StartDraining, Drained, Stop, SetKeyFilters, CapPasses, Close, locked, past
  <2> QED BY <2>1, SameCounts, Zenon
<1>9. ASSUME NEW t \in Callers, Closes(t) PROVE CountInv'
  <2>1. CASE CloseShuts(t) BY <2>1, CloseShutsStep, Zenon
  <2>2. CASE CloseNotifies(t) BY <2>2, CloseNotifiesStep, Zenon
  <2>3. CASE CloseJoins(t) BY <2>3, CloseJoinsStep, Zenon
  <2>4. CASE Drains(t) \/ Tells(t) \/ CloseBegins(t) \/ CloseStops(t) \/ CloseEnds(t)
    <3>1. UNCHANGED <<state, work, holds, program, notifying>>
      BY <2>4, Zenon DEF Drains, Tells, CloseBegins, CloseStops, CloseEnds, locked, past
    <3> QED BY <3>1, SameCounts, Zenon
  <2> QED BY <1>9, <2>1, <2>2, <2>3, <2>4, Zenon DEF Closes
<1>10. CASE UNCHANGED allVars
  <2>1. UNCHANGED <<state, work, holds, program, notifying>> BY <1>10, Zenon DEF allVars, own, locked, past
  <2> QED BY <2>1, SameCounts, Zenon
<1> QED BY <1>1, <1>2, <1>3, <1>4, <1>5, <1>6, <1>7, <1>8, <1>9, <1>10, Zenon DEF ServerNext, Loop

-----------------------------------------------------------------------------
(* The client's routing under the server is Routing's.                     *)

LEMMA StepOfRouting == ASSUME IInv, [ServerNext]_allVars PROVE [Next]_vars
<1>1. ASSUME NEW w \in Workers, Worker(w) \/ Spurious(w) PROVE UNCHANGED vars
  BY <1>1, Zenon DEF Worker, Spurious, Look, Handle, Done, Fails, Wakes
<1>2. ASSUME NEW c \in Conns, Event(c) PROVE Next
  BY <1>2, Zenon DEF Event, OnMessage, Up, Lost, Other, Next, Events
<1>3. ASSUME NEW c \in Conns, Network(c) PROVE Next
  BY <1>3, Zenon DEF Network, Answered, Next, Mux
<1>4. CASE RunDrain BY <1>4, Zenon DEF RunDrain, Next
<1>5. CASE RunFilters
  <2>1. takes[version] \in BOOLEAN BY Zenon DEF IInv, TypeOK
  <2> QED BY <1>5, <2>1, ZenonT(40) DEF RunFilters, Next
<1>6. CASE RunReply \/ RunAsk \/ RunHeld \/ RunFlush \/ RunShutdown \/ Notify \/ Expires
  BY <1>6, Zenon DEF RunReply, RunAsk, RunHeld, RunFlush, RunShutdown, Notify, Expires
<1>7. CASE Loop \/ LoopPolls
  BY <1>7, Zenon DEF Loop, LoopPolls, LoopTop, LoopWoken, LoopAtCap, RunAcknowledged, LoopChecks, AskHeld, ArmFlush, Periodic
<1>8. CASE StartDraining \/ Drained \/ Stop \/ SetKeyFilters \/ CapPasses \/ Close
  BY <1>8, Zenon DEF StartDraining, Drained, Stop, SetKeyFilters, CapPasses, Close
<1>9. ASSUME NEW t \in Callers, Closes(t) PROVE UNCHANGED vars
  BY <1>9, Zenon DEF Closes, Drains, Tells, CloseBegins, CloseShuts, CloseNotifies, CloseStops, CloseJoins, CloseEnds
<1>10. CASE UNCHANGED allVars BY <1>10, Zenon DEF allVars
<1> QED BY <1>1, <1>2, <1>3, <1>4, <1>5, <1>6, <1>7, <1>8, <1>9, <1>10, Zenon DEF ServerNext, Command

\* The threaded server drives its client as Routing says any client may:
\* every behaviour of the server is, for the client's routing, one of
\* Routing's.
THEOREM ThreadedServerRefinesRouting == ServerSpec => Spec
<1>1. ServerInit => Init BY Zenon DEF ServerInit
<1>2. ServerSpec => []IInv
  <2>1. ServerInit => IInv BY <1>1, InitIInv, Zenon
  <2>2. IInv /\ [ServerNext]_allVars => IInv' BY StepOfRouting, NextIInv, Zenon
  <2> QED BY <2>1, <2>2, PTL DEF ServerSpec
<1>3. IInv /\ [ServerNext]_allVars => [Next]_vars BY StepOfRouting, Zenon
<1> QED BY <1>1, <1>2, <1>3, PTL, ZenonT(20) DEF ServerSpec, Spec

\* What acknowledged means holds under a threaded server, whose callbacks
\* run as messages arrive.
THEOREM ThreadedServerAcknowledgedHolds == ServerSpec => []AcknowledgedHolds
  BY ThreadedServerRefinesRouting, RoutingAcknowledgedHolds, PTL

-----------------------------------------------------------------------------
(* The serving thread, the commands and the calls.                         *)

Commands == {"drain", "filters", "reply", "ask", "held", "flush", "shutdown", "down"}

Switches ==
    /\ woken \in BOOLEAN /\ working \in BOOLEAN /\ draining \in BOOLEAN /\ closed \in BOOLEAN /\ capped \in BOOLEAN
    /\ bounded \in BOOLEAN /\ early \in BOOLEAN /\ reopened \in BOOLEAN
    /\ ended \in {"no", "drained", "early", "stopped"} /\ closing \in Callers \cup {"nobody"}

Outbound ==
    /\ held \in Nat /\ flushing \in 0 .. held /\ armed \in BOOLEAN
    /\ filtering \in SUBSET Versions /\ refused \in Nat

Posts == at \in [Callers -> Places] /\ inbox \in Seq(Commands)

DeskInv == Switches /\ Outbound /\ Posts

LEMMA InitDesk == ServerInit => DeskInv
<1> SUFFICES ASSUME ServerInit PROVE DeskInv BY Zenon
<1>1. Switches BY Zenon DEF ServerInit, Switches, Callers
<1>2. Outbound
  <2>1. held = 0 /\ flushing = 0 /\ armed = FALSE /\ filtering = {} /\ refused = 0 BY Zenon DEF ServerInit
  <2>2. held \in Nat /\ flushing \in 0 .. held BY <2>1
  <2>3. armed \in BOOLEAN /\ filtering \in SUBSET Versions /\ refused \in Nat BY <2>1, Zenon
  <2> QED BY <2>2, <2>3, Zenon DEF Outbound
<1>3. Posts
  <2>1. at = [t \in Callers |-> IF t = "serve" THEN "top" ELSE "idle"] /\ inbox = <<>> BY Zenon DEF ServerInit
  <2>2. at \in [Callers -> Places] BY <2>1, Zenon DEF Places
  <2> QED BY <2>1, <2>2 DEF Posts
<1> QED BY <1>1, <1>2, <1>3, Zenon DEF DeskInv

\* What leaves was held, and the flush waits for no more than is held.
LEMMA LeaveOutbound ==
    ASSUME Outbound, NEW n \in 0 .. held, Leave(n), UNCHANGED <<filtering, refused>>
    PROVE  Outbound'
<1>1. held \in Nat /\ flushing \in 0 .. held BY Zenon DEF Outbound
<1>2. held' \in Nat /\ flushing' \in 0 .. held' BY <1>1 DEF Leave
<1>3. armed' \in BOOLEAN BY Zenon DEF Leave
<1> QED BY <1>2, <1>3, Zenon DEF Outbound

LEMMA NextSwitches ==
    ASSUME Switches, IInv, [ServerNext]_allVars
    PROVE  Switches'
<1>1. ASSUME NEW w \in Workers, Worker(w) \/ Spurious(w) PROVE Switches'
  <2>1. UNCHANGED <<draining, closed, capped, bounded, early, reopened, ended, closing>>
        /\ working' \in {working, FALSE} /\ woken' \in {woken, TRUE}
    BY <1>1, Zenon DEF Worker, Spurious, Look, Handle, Done, Fails, Wakes, flags, past, WakeLoop
  <2> QED BY <2>1, ZenonT(40) DEF Switches
<1>2. ASSUME NEW c \in Conns, Event(c) PROVE Switches'
  <2>1. UNCHANGED <<working, draining, closed, capped, bounded, early, ended, closing>>
        /\ woken' \in BOOLEAN /\ reopened' \in BOOLEAN
    BY <1>2, Zenon DEF Event, OnMessage, Up, Lost, Other, Acknowledged, flags, past, Switches
  <2> QED BY <2>1, Zenon DEF Switches
<1>3. ASSUME NEW c \in Conns, Network(c) PROVE Switches'
  <2>1. UNCHANGED <<working, draining, closed, capped, bounded, early, ended, closing, woken, reopened>>
    BY <1>3, Zenon DEF Network, own, flags, past
  <2> QED BY <2>1, Zenon DEF Switches
<1>4. CASE Command
  <2>1. CASE RunDrain \/ RunFilters \/ RunFlush
    <3>1. UNCHANGED <<working, draining, closed, capped, bounded, early, ended, closing, reopened>> /\ woken' \in BOOLEAN
      BY <2>1, Zenon DEF RunDrain, RunFilters, RunFlush, Acknowledged, flags, past
    <3> QED BY <3>1, Zenon DEF Switches
  <2>2. CASE RunReply \/ RunShutdown
    <3>1. UNCHANGED <<working, draining, closed, capped, bounded, early, ended, closing, woken, reopened>>
      BY <2>2, Zenon DEF RunReply, RunShutdown, flags, past
    <3> QED BY <3>1, Zenon DEF Switches
  <2>3. CASE RunAsk
    <3>1. UNCHANGED <<working, draining, closed, capped, bounded, ended, closing, woken, reopened>> /\ early' = takes[version]
      BY <2>3, Zenon DEF RunAsk, flags
    <3>2. takes[version] \in BOOLEAN BY Zenon DEF IInv, TypeOK
    <3> QED BY <3>1, <3>2, Zenon DEF Switches
  <2>4. CASE RunHeld
    <3>1. UNCHANGED <<working, draining, closed, capped, bounded, early, closing, woken, reopened>>
          /\ ended' \in {ended, "stopped", "early", "drained"}
      BY <2>4, Zenon DEF RunHeld, flags
    <3> QED BY <3>1 DEF Switches
  <2> QED BY <1>4, <2>1, <2>2, <2>3, <2>4, Zenon DEF Command
<1>5. CASE Notify \/ Expires
  <2>1. UNCHANGED <<working, draining, closed, capped, bounded, early, ended, closing, reopened>> /\ woken' \in BOOLEAN
    BY <1>5, Zenon DEF Notify, Expires, flags, past, Switches
  <2> QED BY <2>1, Zenon DEF Switches
<1>6. CASE Loop \/ LoopPolls
  <2>1. UNCHANGED <<working, draining, closed, capped, early, closing, reopened>>
        /\ woken' \in {woken, FALSE} /\ bounded' \in {bounded, draining} /\ ended' \in {ended, "stopped"}
    BY <1>6, Zenon DEF Loop, LoopPolls, LoopTop, LoopWoken, LoopAtCap, RunAcknowledged, LoopChecks, AskHeld, ArmFlush,
                Periodic, flags, past
  <2>2. woken' \in BOOLEAN /\ bounded' \in BOOLEAN BY <2>1, Zenon DEF Switches
  <2>3. ended' \in {"no", "drained", "early", "stopped"} BY <2>1, Zenon DEF Switches
  <2> QED BY <2>1, <2>2, <2>3, Zenon DEF Switches
<1>7. CASE StartDraining \/ Drained \/ Stop \/ SetKeyFilters \/ CapPasses \/ Close
  <2>1. UNCHANGED <<draining, closed, bounded, early, ended, closing, reopened>>
        /\ woken' \in {woken, TRUE} /\ working' \in {working, FALSE} /\ capped' \in {capped, TRUE}
    BY <1>7, Zenon DEF StartDraining, Drained, Stop, SetKeyFilters, CapPasses, Close, flags, past, WakeLoop
  <2>2. woken' \in BOOLEAN /\ working' \in BOOLEAN /\ capped' \in BOOLEAN BY <2>1, Zenon DEF Switches
  <2> QED BY <2>1, <2>2, Zenon DEF Switches
<1>8. ASSUME NEW t \in Callers, Closes(t) PROVE Switches'
  <2>1. UNCHANGED <<capped, bounded, early, ended, reopened>>
        /\ woken' \in {woken, TRUE} /\ working' \in {working, FALSE} /\ draining' \in {draining, TRUE}
        /\ closed' \in {closed, TRUE} /\ closing' \in {closing, t, "nobody"}
    BY <1>8, Zenon DEF Closes, Drains, Tells, CloseBegins, CloseShuts, CloseNotifies, CloseStops, CloseJoins, CloseEnds,
                flags, past, WakeLoop
  <2>2. woken' \in BOOLEAN /\ working' \in BOOLEAN BY <2>1, Zenon DEF Switches
  <2>3. draining' \in BOOLEAN /\ closed' \in BOOLEAN BY <2>1, Zenon DEF Switches
  <2>4. closing' \in Callers \cup {"nobody"} BY <2>1, Zenon DEF Switches
  <2> QED BY <2>1, <2>2, <2>3, <2>4, Zenon DEF Switches
<1>9. CASE UNCHANGED allVars BY <1>9, Zenon DEF allVars, own, flags, past, Switches
<1> QED BY <1>1, <1>2, <1>3, <1>4, <1>5, <1>6, <1>7, <1>8, <1>9, Zenon DEF ServerNext

LEMMA NextOutbound ==
    ASSUME CountFacts, Outbound, CountInv, IInv, [ServerNext]_allVars
    PROVE  Outbound'
<1>0. held \in Nat /\ flushing \in 0 .. held /\ armed \in BOOLEAN /\ refused \in Nat BY Zenon DEF Outbound
<1>1. ASSUME NEW w \in Workers, Worker(w) \/ Spurious(w) PROVE Outbound'
  <2>1. UNCHANGED <<held, flushing, armed, filtering, refused>>
    BY <1>1, Zenon DEF Worker, Spurious, Look, Handle, Done, Fails, Wakes, outgoing, past
  <2> QED BY <2>1, Zenon DEF Outbound
<1>2. ASSUME NEW c \in Conns, Event(c) PROVE Outbound'
  <2>1. CASE OnMessage(c)
    <3>1. UNCHANGED <<held, flushing, armed, filtering>> /\ refused' \in {refused, refused + 1}
      BY <2>1, Zenon DEF OnMessage, outgoing
    <3>2. refused' \in Nat BY <3>1, <1>0
    <3> QED BY <3>1, <3>2, Zenon DEF Outbound
  <2>2. CASE Up(c)
    <3>1. Leave(held) /\ UNCHANGED <<filtering, refused>> BY <2>2, Zenon DEF Up, past
    <3>2. held \in 0 .. held BY <1>0
    <3> QED BY <3>1, <3>2, LeaveOutbound, Zenon
  <2>3. CASE Lost(c)
    <3>1. UNCHANGED <<flushing, armed, filtering, refused>> /\ held' \in {held, held + 1} BY <2>3, Zenon DEF Lost, past
    <3>2. held' \in Nat /\ flushing \in 0 .. held' BY <3>1, <1>0
    <3> QED BY <3>1, <3>2, Zenon DEF Outbound
  <2>4. CASE Other(c)
    <3>1. UNCHANGED <<held, flushing, armed, filtering, refused>> BY <2>4, Zenon DEF Other, outgoing
    <3> QED BY <3>1, Zenon DEF Outbound
  <2> QED BY <1>2, <2>1, <2>2, <2>3, <2>4, Zenon DEF Event
<1>3. ASSUME NEW c \in Conns, Network(c) PROVE Outbound'
  <2>1. UNCHANGED <<held, flushing, armed, filtering, refused>> BY <1>3, Zenon DEF Network, own, outgoing, past
  <2> QED BY <2>1, Zenon DEF Outbound
<1>4. CASE Command
  <2>1. CASE RunDrain \/ RunAsk \/ RunHeld \/ RunShutdown
    <3>1. UNCHANGED <<held, flushing, armed, filtering, refused>>
      BY <2>1, Zenon DEF RunDrain, RunAsk, RunHeld, RunShutdown, outgoing, past
    <3> QED BY <3>1, Zenon DEF Outbound
  <2>2. CASE RunFilters
    <3>1. UNCHANGED <<held, flushing, armed, refused>> /\ filtering' = filtering \cup {version'}
          /\ version < MaxVersion /\ version' = version + 1
      BY <2>2, Zenon DEF RunFilters, SetRouting, outgoing, past
    <3>2. version \in Versions BY Zenon DEF IInv, TypeOK
    <3>3. version' \in Versions BY <3>1, <3>2, RoutingAssumption DEF Versions
    <3> QED BY <3>1, <3>3, Zenon DEF Outbound
  <2>3. CASE RunReply
    <3>1. UNCHANGED <<flushing, armed, filtering, refused>> /\ held' \in {held, held + 1} BY <2>3, Zenon DEF RunReply, past
    <3>2. held' \in Nat /\ flushing \in 0 .. held' BY <3>1, <1>0
    <3> QED BY <3>1, <3>2, Zenon DEF Outbound
  <2>4. CASE RunFlush
    <3>1. UNCHANGED <<held, filtering, refused>> /\ flushing' = held /\ armed' \in BOOLEAN BY <2>4 DEF RunFlush, past
    <3>2. flushing' \in 0 .. held BY <3>1, <1>0
    <3> QED BY <3>1, <3>2, Zenon DEF Outbound
  <2> QED BY <1>4, <2>1, <2>2, <2>3, <2>4, Zenon DEF Command
<1>5. CASE Notify
  <2>1. UNCHANGED <<held, flushing, armed, filtering, refused>> BY <1>5, Zenon DEF Notify, outgoing, past
  <2> QED BY <2>1, Zenon DEF Outbound
<1>6. CASE Expires
  <2>1. Leave(1) /\ held > 0 /\ UNCHANGED <<filtering, refused>> BY <1>6, Zenon DEF Expires, past
  <2>2. 1 \in 0 .. held BY <2>1, <1>0
  <2> QED BY <2>1, <2>2, LeaveOutbound, Zenon
<1>7. CASE Loop \/ LoopPolls
  <2>1. UNCHANGED <<held, flushing, filtering, refused>> /\ armed' \in {armed, TRUE}
    BY <1>7, Zenon DEF Loop, LoopPolls, LoopTop, LoopWoken, LoopAtCap, RunAcknowledged, LoopChecks, AskHeld, ArmFlush,
                Periodic, outgoing, past
  <2> QED BY <2>1, Zenon DEF Outbound
<1>8. CASE StartDraining \/ Drained \/ Stop \/ SetKeyFilters \/ CapPasses \/ Close
  <2>1. UNCHANGED <<held, flushing, armed, filtering, refused>>
    BY <1>8, Zenon DEF StartDraining, Drained, Stop, SetKeyFilters, CapPasses, Close, outgoing, past
  <2> QED BY <2>1, Zenon DEF Outbound
<1>9. ASSUME NEW t \in Callers, Closes(t) PROVE Outbound'
  <2>1. CASE CloseJoins(t)
    <3>1. UNCHANGED <<held, flushing, armed, filtering>> /\ refused' = refused + Len(state.queue)
      BY <2>1, Zenon DEF CloseJoins, outgoing
    <3>2. Len(state.queue) = 0 BY <2>1, CloseJoinsStep, Zenon
    <3>3. refused' \in Nat BY <3>1, <3>2, <1>0
    <3> QED BY <3>1, <3>3, Zenon DEF Outbound
  <2>2. CASE ~CloseJoins(t)
    <3>1. UNCHANGED <<held, flushing, armed, filtering, refused>>
      BY <1>9, <2>2, Zenon DEF Closes, Drains, Tells, CloseBegins, CloseShuts, CloseNotifies, CloseStops, CloseEnds, outgoing, past
    <3> QED BY <3>1, Zenon DEF Outbound
  <2> QED BY <2>1, <2>2, Zenon
<1>10. CASE UNCHANGED allVars
  <2>1. UNCHANGED <<held, flushing, armed, filtering, refused>> BY <1>10, Zenon DEF allVars, own, outgoing, past
  <2> QED BY <2>1, Zenon DEF Outbound
<1> QED BY <1>1, <1>2, <1>3, <1>4, <1>5, <1>6, <1>7, <1>8, <1>9, <1>10, Zenon DEF ServerNext

\* A command posted or taken, a call that goes on.
LEMMA PostType == ASSUME inbox \in Seq(Commands), NEW c \in Commands, Post(c) PROVE inbox' \in Seq(Commands)
  BY AppendFacts, Zenon DEF Post

LEMMA MovesType ==
    ASSUME at \in [Callers -> Places], NEW t \in Callers, NEW p \in Places, Moves(t, p)
    PROVE  /\ at' \in [Callers -> Places] /\ at'[t] = p
           /\ \A u \in Callers : u # t => at'[u] = at[u]
  BY Zenon DEF Moves

LEMMA NextPosts ==
    ASSUME Posts, [ServerNext]_allVars
    PROVE  Posts'
<1> USE DEF Posts
<1>0. "serve" \in Callers /\ "program" \in Callers BY Zenon DEF Callers
<1>a. UNCHANGED at => at' \in [Callers -> Places] BY Zenon
<1>b. UNCHANGED inbox => inbox' \in Seq(Commands) BY Zenon
<1>c. \A c \in Commands : Post(c) => inbox' \in Seq(Commands) BY PostType, Zenon
<1>d. \A c : Takes(c) => inbox' \in Seq(Commands)
  <2> SUFFICES ASSUME NEW c, Takes(c) PROVE inbox' \in Seq(Commands) BY Zenon
  <2>1. inbox # <<>> /\ inbox' = Tail(inbox) BY Zenon DEF Takes
  <2> QED BY <2>1, TailFacts, Zenon
<1>e. \A t \in Callers, p \in Places : Moves(t, p) => at' \in [Callers -> Places] BY MovesType, Zenon
<1> HIDE DEF Posts
<1>1. ASSUME NEW w \in Workers, Worker(w) \/ Spurious(w) PROVE Posts'
  <2>1. UNCHANGED at /\ (Post("reply") \/ UNCHANGED inbox)
    BY <1>1, Zenon DEF Worker, Spurious, Look, Handle, Done, Fails, Wakes
  <2> QED BY <2>1, <1>a, <1>b, <1>c, Zenon DEF Posts, Commands
<1>2. ASSUME NEW c \in Conns, Event(c) \/ Network(c) PROVE Posts'
  <2>1. UNCHANGED <<at, inbox>> BY <1>2, Zenon DEF Event, OnMessage, Up, Lost, Other, Network, own
  <2> QED BY <2>1, <1>a, <1>b, Zenon DEF Posts
<1>3. CASE Command
  <2>1. CASE RunDrain \/ RunFilters \/ RunReply \/ RunFlush
    <3>1. UNCHANGED at /\ \E c : Takes(c) BY <2>1, Zenon DEF RunDrain, RunFilters, RunReply, RunFlush
    <3> QED BY <3>1, <1>a, <1>d, Zenon DEF Posts
  <2>2. CASE RunAsk \/ RunHeld
    <3>1. (\E p \in Places : Moves("serve", p)) /\ \E c : Takes(c) BY <2>2, Zenon DEF RunAsk, RunHeld, Places
    <3> QED BY <3>1, <1>0, <1>d, <1>e, Zenon DEF Posts
  <2>3. CASE RunShutdown
    <3>1. UNCHANGED at /\ inbox' = <<"down">> BY <2>3, Zenon DEF RunShutdown
    <3>2. "down" \in Commands BY Zenon DEF Commands
    <3>3. inbox' \in Seq(Commands) BY <3>1, <3>2
    <3> QED BY <3>1, <3>3, <1>a, Zenon DEF Posts
  <2> QED BY <1>3, <2>1, <2>2, <2>3, Zenon DEF Command
<1>4. CASE Notify \/ Expires
  <2>1. UNCHANGED <<at, inbox>> BY <1>4, Zenon DEF Notify, Expires
  <2> QED BY <2>1, <1>a, <1>b, Zenon DEF Posts
<1>5. CASE Loop \/ LoopPolls
  <2>1. (\E p \in Places : Moves("serve", p)) /\ (UNCHANGED inbox \/ \E c \in Commands : Post(c))
    BY <1>5, Zenon DEF Loop, LoopPolls, LoopTop, LoopWoken, LoopAtCap, RunAcknowledged, LoopChecks, AskHeld, ArmFlush,
                Periodic, Places, Commands
  <2> QED BY <2>1, <1>0, <1>b, <1>c, <1>e, ZenonT(20) DEF Posts
<1>6. CASE StartDraining \/ Drained \/ Stop \/ SetKeyFilters \/ CapPasses \/ Close
  <2>1. (UNCHANGED at \/ \E p \in Places : Moves("program", p)) /\ (UNCHANGED inbox \/ \E c \in Commands : Post(c))
    BY <1>6, Zenon DEF StartDraining, Drained, Stop, SetKeyFilters, CapPasses, Close, Places, Commands
  <2> QED BY <2>1, <1>0, <1>a, <1>b, <1>c, <1>e, ZenonT(20) DEF Posts
<1>7. ASSUME NEW t \in Callers, Closes(t) PROVE Posts'
  <2>1. (\E p \in Places : Moves(t, p)) /\ (UNCHANGED inbox \/ \E c \in Commands : Post(c))
    BY <1>7, Zenon DEF Closes, Drains, Tells, CloseBegins, CloseShuts, CloseNotifies, CloseStops, CloseJoins, CloseEnds,
                Places, Commands
  <2> QED BY <2>1, <1>b, <1>c, <1>e, Zenon DEF Posts
<1>8. CASE UNCHANGED allVars
  <2>1. UNCHANGED <<at, inbox>> BY <1>8, Zenon DEF allVars, own
  <2> QED BY <2>1, <1>a, <1>b, Zenon DEF Posts
<1> QED BY <1>1, <1>2, <1>3, <1>4, <1>5, <1>6, <1>7, <1>8, Zenon DEF ServerNext

\* The invariant of a server: its client's, its workers', its threads'.
ServerInv == IInv /\ CountInv /\ DeskInv

LEMMA InitServer == ASSUME CountFacts, ServerInit PROVE ServerInv
<1>1. IInv BY InitIInv, Zenon DEF ServerInit
<1> QED BY <1>1, InitCount, InitDesk, Zenon DEF ServerInv

LEMMA NextServer == ASSUME CountFacts, ServerInv, [ServerNext]_allVars PROVE ServerInv'
<1>1. IInv' BY StepOfRouting, NextIInv, Zenon DEF ServerInv
<1>2. Switches' BY NextSwitches, Zenon DEF ServerInv, DeskInv
<1>3. Outbound' BY NextOutbound, Zenon DEF ServerInv, DeskInv
<1>4. Posts' BY NextPosts, Zenon DEF ServerInv, DeskInv
<1>5. CountInv' BY <1>3, NextCount, Zenon DEF ServerInv, DeskInv, Outbound
<1> QED BY <1>1, <1>2, <1>3, <1>4, <1>5, Zenon DEF ServerInv, DeskInv

LEMMA LosesNoRequest == ASSUME ServerInv PROVE NoRequestLost
<1>1. Locked /\ Tally /\ Awaited /\ WorkFound /\ Switches /\ Outbound /\ Posts
  BY Zenon DEF ServerInv, CountInv, DeskInv
<1>2. /\ state.queue \in Seq(Nat) /\ state.busy \in Nat /\ state.idle \in Nat /\ state.accepted \in Nat
      /\ state.acknowledged \in Seq(Waits) /\ state.accepting \in BOOLEAN /\ state.failed \in BOOLEAN
  BY <1>1, Zenon DEF Locked, States
<1>3. \A i \in DOMAIN state.acknowledged : state.acknowledged[i].remaining \in Nat
  <2>1. \A i \in DOMAIN state.acknowledged : state.acknowledged[i] \in Waits BY <1>2, Element, Zenon
  <2> QED BY <2>1, Zenon DEF Waits
<1>4. ServerTypeOK
  <2>1. {state.busy, state.idle, state.accepted} \subseteq Nat BY <1>2, Zenon
  <2>2. {state.accepting, state.failed, notifying, armed, woken, working, draining, closed, capped, bounded,
         early, reopened} \subseteq BOOLEAN
    BY <1>1, <1>2, Zenon DEF Locked, Switches, Outbound
  <2>3. work \in [Workers -> {"look", "asleep", "signalled", "handling", "handled", "fails", "wakes", "gone"}]
    BY <1>1, Zenon DEF Locked, Errands
  <2>4. held \in Nat /\ flushing \in 0 .. held /\ filtering \subseteq Versions /\ refused \in Nat
    BY <1>1, Zenon DEF Outbound
  <2>5. at \in [Callers -> Places] /\ ended \in {"no", "drained", "early", "stopped"} BY <1>1, Zenon DEF Posts, Switches
  <2> QED BY <1>2, <1>3, <2>1, <2>2, <2>3, <2>4, <2>5, Zenon DEF ServerTypeOK
<1>5. CountsExact
  <2>1. In(Away) = {w \in Workers : work[w] \in {"asleep", "signalled"}} BY Zenon DEF In, Away
  <2>2. \A i \in DOMAIN state.acknowledged :
           state.acknowledged[i].remaining = Cardinality({n \in Unfinished : n < state.acknowledged[i].before})
    BY <1>1, Zenon DEF Awaited, Before
  <2> QED BY <2>1, <2>2, <1>1, Zenon DEF CountsExact, Tally
<1> QED BY <1>1, <1>4, <1>5, Zenon DEF NoRequestLost

\* What a step of the inbox may make of Stopped.
LEMMA PostStops ==
    ASSUME Posts, NEW c \in Commands \ {"shutdown", "down"}, Post(c)
    PROVE  Stopped' => Stopped
<1> SUFFICES ASSUME ~Stopped PROVE ~Stopped' BY Zenon
<1>1. inbox' = Append(inbox, c) /\ inbox \in Seq(Commands) BY Zenon DEF Post, Posts
<1>2. Len(inbox') = Len(inbox) + 1 /\ inbox'[Len(inbox) + 1] = c BY <1>1, AppendFacts
<1> QED BY <1>2, Zenon DEF Stopped

LEMMA TakeStops ==
    ASSUME Posts, NEW c, Takes(c)
    PROVE  Stopped' => Stopped
<1> SUFFICES ASSUME inbox' # <<>>, inbox'[Len(inbox')] \in {"shutdown", "down"} PROVE Stopped BY Zenon DEF Stopped
<1>1. inbox # <<>> /\ inbox' = Tail(inbox) /\ inbox \in Seq(Commands) BY Zenon DEF Takes, Posts
<1>2. /\ Len(inbox) \in Nat /\ Len(inbox') = Len(inbox) - 1 /\ inbox' \in Seq(Commands)
      /\ \A i \in 1 .. Len(inbox) - 1 : inbox'[i] = inbox[i + 1]
  BY <1>1, TailFacts, Zenon
<1>3. Len(inbox') # 0 /\ Len(inbox') \in Nat BY <1>2
<1>4. inbox'[Len(inbox')] = inbox[Len(inbox)] BY <1>2, <1>3
<1> QED BY <1>1, <1>4, Zenon DEF Stopped

LEMMA StopsServed ==
    ASSUME CountFacts, ServerInv, [ServerNext]_allVars
    PROVE  ~Stopped /\ Stopped' => Unfinished = {} /\ state.busy = 0
<1> SUFFICES ASSUME ~Stopped, Stopped' PROVE Unfinished = {} /\ state.busy = 0 BY Zenon
<1>0. Posts /\ CountInv BY Zenon DEF ServerInv, DeskInv
<1>a. ~UNCHANGED inbox BY Zenon DEF Stopped
<1>b. ~\E c \in Commands \ {"shutdown", "down"} : Post(c) BY <1>0, PostStops, Zenon
<1>c. ~\E c : Takes(c) BY <1>0, TakeStops, Zenon
<1>1. ASSUME NEW w \in Workers, Worker(w) \/ Spurious(w) PROVE FALSE
  <2>1. UNCHANGED inbox \/ Post("reply") BY <1>1, Zenon DEF Worker, Spurious, Look, Handle, Done, Fails, Wakes
  <2> QED BY <2>1, <1>a, <1>b, Zenon DEF Commands
<1>2. ASSUME NEW c \in Conns, Event(c) \/ Network(c) PROVE FALSE
  BY <1>2, <1>a, Zenon DEF Event, OnMessage, Up, Lost, Other, Network, own
<1>3. CASE Command
  <2>1. ~RunShutdown
    <3>1. inbox = <<"shutdown">> => Stopped BY DEF Stopped
    <3> QED BY <3>1, Zenon DEF RunShutdown
  <2> QED BY <1>3, <2>1, <1>c, Zenon DEF Command, RunDrain, RunFilters, RunReply, RunAsk, RunHeld, RunFlush
<1>4. CASE Notify \/ Expires BY <1>4, <1>a, Zenon DEF Notify, Expires
<1>5. CASE Loop \/ LoopPolls
  <2>1. UNCHANGED inbox \/ Post("ask") \/ Post("held") \/ Post("flush")
    BY <1>5, Zenon DEF Loop, LoopPolls, LoopTop, LoopWoken, LoopAtCap, RunAcknowledged, LoopChecks, AskHeld, ArmFlush, Periodic
  <2> QED BY <2>1, <1>a, <1>b, Zenon DEF Commands
<1>6. CASE StartDraining \/ Drained \/ Stop \/ SetKeyFilters \/ CapPasses \/ Close
  <2>1. UNCHANGED inbox \/ Post("filters") BY <1>6, Zenon DEF StartDraining, Drained, Stop, SetKeyFilters, CapPasses, Close
  <2> QED BY <2>1, <1>a, <1>b, Zenon DEF Commands
<1>7. ASSUME NEW t \in Callers, Closes(t) PROVE Unfinished = {} /\ state.busy = 0
  <2>1. UNCHANGED inbox \/ Post("drain") \/ CloseJoins(t)
    BY <1>7, Zenon DEF Closes, Drains, Tells, CloseBegins, CloseShuts, CloseNotifies, CloseStops, CloseEnds
  <2>2. \A w \in Workers : work[w] = "gone" BY <2>1, <1>a, <1>b, Zenon DEF Commands, CloseJoins
  <2> QED BY <2>2, <1>0, AllGone, Zenon
<1>8. CASE UNCHANGED allVars BY <1>8, <1>a, Zenon DEF allVars, own
<1> QED BY <1>1, <1>2, <1>3, <1>4, <1>5, <1>6, <1>7, <1>8, Zenon DEF ServerNext

-----------------------------------------------------------------------------
(* What a drain that its confirmation ended refuses: nothing.  The answer   *)
(* "acknowledged" leaves the client quiet, and it stays so; until close()   *)
(* the queue refuses nothing.                                               *)

\* What the serving thread asked is asked once, and answered where it waits.
Posted(q, place) ==
    \A i \in DOMAIN q :
        /\ q[i] = "ask" => place = "asked"
        /\ q[i] = "held" => place = "counted"
        /\ q[i] \in {"ask", "held"} => \A j \in DOMAIN q : q[j] = q[i] => j = i

Mail == Posted(inbox, at["serve"])

\* Until close() the queue is open.
Shutting ==
    /\ ~closed => state.accepting /\ refused = 0
    /\ \A t \in Callers : at[t] = "shut" => closed

\* What drained() saw holds on while the answers come, and once the loop
\* ended by it.
Calm ==
    /\ at["serve"] \in {"holding", "counted"} /\ ~early => Quiet
    /\ ended = "drained" => Quiet /\ refused = 0

LEMMA PostedMore ==
    ASSUME NEW q \in Seq(Commands), NEW p, Posted(q, p), NEW c \in Commands, c \notin {"ask", "held"}
    PROVE  Posted(Append(q, c), p)
<1>1. /\ DOMAIN Append(q, c) = 1 .. Len(q) + 1 /\ DOMAIN q = 1 .. Len(q) /\ Len(q) \in Nat
      /\ \A i \in 1 .. Len(q) : Append(q, c)[i] = q[i]
      /\ Append(q, c)[Len(q) + 1] = c
  BY AppendFacts
<1> DEFINE r == Append(q, c)
<1> HIDE DEF r
<1>2. \A i \in DOMAIN r : r[i] \in {"ask", "held"} => i \in DOMAIN q /\ r[i] = q[i] BY <1>1 DEF r
<1> QED BY <1>2, Zenon DEF Posted, r

LEMMA PostedNew ==
    ASSUME NEW q \in Seq(Commands), NEW p, Posted(q, p), p \notin {"asked", "counted"}, NEW c \in Commands, NEW to,
           c = "ask" => to = "asked", c = "held" => to = "counted"
    PROVE  Posted(Append(q, c), to)
<1>1. /\ DOMAIN Append(q, c) = 1 .. Len(q) + 1 /\ DOMAIN q = 1 .. Len(q) /\ Len(q) \in Nat
      /\ \A i \in 1 .. Len(q) : Append(q, c)[i] = q[i]
      /\ Append(q, c)[Len(q) + 1] = c
  BY AppendFacts
<1> DEFINE r == Append(q, c)
<1>2. \A i \in DOMAIN q : q[i] \notin {"ask", "held"} BY Zenon DEF Posted
<1> HIDE DEF r
<1>3. \A i \in DOMAIN r : r[i] \in {"ask", "held"} => i = Len(q) + 1 /\ r[i] = c BY <1>1, <1>2 DEF r
<1> QED BY <1>3 DEF Posted, r

LEMMA PostedTail ==
    ASSUME NEW q \in Seq(Commands), q # <<>>, NEW p, Posted(q, p)
    PROVE  /\ Posted(Tail(q), p)
           /\ Head(q) \in {"ask", "held"} => \A to : Posted(Tail(q), to)
<1> DEFINE r == Tail(q)
<1>1. /\ DOMAIN Tail(q) = 1 .. Len(q) - 1 /\ DOMAIN q = 1 .. Len(q) /\ Len(q) \in Nat /\ Len(q) >= 1 /\ Head(q) = q[1]
      /\ \A i \in 1 .. Len(q) - 1 : Tail(q)[i] = q[i + 1]
  BY TailFacts, Zenon
<1>2. \A i \in DOMAIN r : i + 1 \in DOMAIN q /\ r[i] = q[i + 1] /\ i \in Int BY <1>1 DEF r
<1>3. 1 \in DOMAIN q /\ Head(q) = q[1] BY <1>1
<1> HIDE DEF r
<1>4. Posted(r, p)
  <2> SUFFICES ASSUME NEW i \in DOMAIN r
               PROVE  /\ r[i] = "ask" => p = "asked"
                      /\ r[i] = "held" => p = "counted"
                      /\ r[i] \in {"ask", "held"} => \A j \in DOMAIN r : r[j] = r[i] => j = i
    BY Zenon DEF Posted
  <2>1. r[i] \in {"ask", "held"} => \A j \in DOMAIN r : r[j] = r[i] => j + 1 = i + 1 BY <1>2, Zenon DEF Posted
  <2>2. \A j \in DOMAIN r : j + 1 = i + 1 => j = i BY <1>2
  <2> QED BY <1>2, <2>1, <2>2, Zenon DEF Posted
<1>5. ASSUME Head(q) \in {"ask", "held"}, NEW i \in DOMAIN r PROVE r[i] \notin {"ask", "held"}
  <2>1. q[1] \in {"ask", "held"} /\ (q[1] = "ask" => p = "asked") /\ (q[1] = "held" => p = "counted")
    BY <1>3, <1>5, Zenon DEF Posted
  <2>2. q[i + 1] # q[1]
    <3>1. q[i + 1] = q[1] => i + 1 = 1 BY <1>2, <1>3, <2>1, Zenon DEF Posted
    <3>2. i + 1 # 1 BY <1>1 DEF r
    <3> QED BY <3>1, <3>2, Zenon
  <2>3. (q[i + 1] = "ask" => p = "asked") /\ (q[i + 1] = "held" => p = "counted") BY <1>2, Zenon DEF Posted
  <2> QED BY <1>2, <2>1, <2>2, <2>3, Zenon
<1> QED BY <1>4, <1>5, Zenon DEF Posted, r

\* A step that neither asks nor answers: the commands posted or taken are
\* others, the serving thread waits for an answer as before or for none.
LEMMA MailKept ==
    ASSUME Posts, Mail, at'["serve"] = at["serve"] \/ at["serve"] \notin {"asked", "counted"},
           \/ UNCHANGED inbox
           \/ \E c \in Commands \ {"ask", "held"} : Post(c)
           \/ at'["serve"] = at["serve"] /\ \E c : Takes(c)
    PROVE  Mail'
<1> DEFINE p == at["serve"]
           to == at'["serve"]
<1>1. inbox \in Seq(Commands) /\ Posted(inbox, p) BY Zenon DEF Posts, Mail
<1>2. SUFFICES Posted(inbox', to) BY Zenon DEF Mail
<1> HIDE DEF p, to
<1>3. \A q : Posted(q, p) => Posted(q, to)
  <2>1. to = p \/ p \notin {"asked", "counted"} BY Zenon DEF p, to
  <2> QED BY <2>1, Zenon DEF Posted
<1>4. CASE UNCHANGED inbox BY <1>1, <1>3, <1>4, Zenon
<1>5. ASSUME NEW c \in Commands \ {"ask", "held"}, Post(c) PROVE Posted(inbox', to)
  <2>1. inbox' = inbox \/ inbox' = Append(inbox, c) BY <1>5, Zenon DEF Post
  <2>2. Posted(Append(inbox, c), p) BY <1>1, <1>5, PostedMore, Zenon
  <2> QED BY <2>1, <2>2, <1>1, <1>3, Zenon
<1>6. ASSUME NEW c, Takes(c) PROVE Posted(inbox', to)
  <2>1. inbox # <<>> /\ inbox' = Tail(inbox) BY <1>6, Zenon DEF Takes
  <2>2. Posted(Tail(inbox), p) BY <2>1, <1>1, PostedTail, Zenon
  <2> QED BY <2>1, <2>2, <1>3, Zenon
<1> QED BY <1>4, <1>5, <1>6, Zenon

\* An answer: it was asked for here, and nothing else is.
LEMMA MailAnswered ==
    ASSUME Posts, Mail, NEW c \in {"ask", "held"}, Takes(c)
    PROVE  /\ Mail' /\ (c = "ask" => at["serve"] = "asked") /\ (c = "held" => at["serve"] = "counted")
<1> DEFINE p == at["serve"]
           to == at'["serve"]
<1>1. inbox \in Seq(Commands) /\ Posted(inbox, p) /\ inbox # <<>> /\ inbox' = Tail(inbox) /\ Head(inbox) = c
  BY Zenon DEF Posts, Mail, Takes
<1> HIDE DEF p, to
<1>2. \A q : Posted(Tail(inbox), q) BY <1>1, PostedTail, Zenon
<1>3. Mail' BY <1>1, <1>2, Zenon DEF Mail
<1>4. inbox[1] = c /\ 1 \in DOMAIN inbox
  <2>1. Len(inbox) >= 1 /\ Len(inbox) \in Nat /\ DOMAIN inbox = 1 .. Len(inbox) /\ Head(inbox) = inbox[1]
    BY <1>1, TailFacts, Zenon
  <2> QED BY <1>1, <2>1
<1> QED BY <1>1, <1>3, <1>4 DEF Posted, p

\* Quiet is kept: a server turns its rules off and never on again.
LEMMA ServerQuiet ==
    ASSUME IInv, [ServerNext]_allVars
    PROVE  Quiet => Quiet'
<1> SUFFICES ASSUME Quiet PROVE ~takes'[version'] BY StepOfRouting, QuietNext, Zenon
<1>0. ~takes[version] /\ takes \in [Versions -> BOOLEAN] /\ version \in Versions BY Zenon DEF Quiet, IInv, TypeOK
<1>a. ASSUME NEW on \in BOOLEAN, SetRouting(on, TRUE), ~on PROVE ~takes'[version']
  <2>1. version < MaxVersion /\ version' = version + 1 /\ takes' = [takes EXCEPT ![version + 1] = on]
    BY <1>a, Zenon DEF SetRouting
  <2>2. version + 1 \in Versions BY <2>1, <1>0, RoutingAssumption DEF Versions
  <2> QED BY <2>1, <2>2, <1>0, <1>a, Zenon
<1>b. ASSUME UNCHANGED <<version, takes>> PROVE ~takes'[version'] BY <1>b, <1>0, Zenon
<1>c. UNCHANGED vars => UNCHANGED <<version, takes>> BY Zenon DEF vars, client
<1>1. ASSUME NEW w \in Workers, Worker(w) \/ Spurious(w) PROVE ~takes'[version']
  BY <1>1, <1>b, <1>c, Zenon DEF Worker, Spurious, Look, Handle, Done, Fails, Wakes
<1>2. ASSUME NEW c \in Conns, Event(c) PROVE ~takes'[version']
  <2>1. CASE OnMessage(c) BY <2>1, <1>b, Zenon DEF OnMessage, HandleMessage
  <2>2. CASE Up(c) BY <2>2, <1>b, Zenon DEF Up, AfterConnectionRegistration
  <2>3. CASE Lost(c) BY <2>3, <1>b, Zenon DEF Lost, ConnectionDestroyed, WriteFailed
  <2>4. CASE Other(c) BY <2>4, <1>b, Zenon DEF Other, Open, OnPeerStatus, ReadToTheEnd
  <2> QED BY <1>2, <2>1, <2>2, <2>3, <2>4, Zenon DEF Event
<1>3. ASSUME NEW c \in Conns, Network(c) PROVE ~takes'[version']
  <2>1. UNCHANGED client BY <1>3, Zenon DEF Network, MuxRegister, Answered, HandlePeerControl, MuxRoute, MuxGone
  <2> QED BY <2>1, <1>b, Zenon DEF client
<1>4. CASE RunDrain BY <1>4, <1>a, Zenon DEF RunDrain
<1>5. CASE RunFilters
  <2>1. takes[version] \in BOOLEAN BY <1>0, Zenon
  <2> QED BY <1>5, <2>1, <1>0, <1>a, Zenon DEF RunFilters
<1>6. CASE RunReply \/ RunAsk \/ RunHeld \/ RunFlush \/ RunShutdown \/ Notify \/ Expires
  BY <1>6, <1>b, <1>c, Zenon DEF RunReply, RunAsk, RunHeld, RunFlush, RunShutdown, Notify, Expires
<1>7. CASE Loop \/ LoopPolls
  BY <1>7, <1>b, <1>c, Zenon DEF Loop, LoopPolls, LoopTop, LoopWoken, LoopAtCap, RunAcknowledged, LoopChecks, AskHeld, ArmFlush, Periodic
<1>8. CASE StartDraining \/ Drained \/ Stop \/ SetKeyFilters \/ CapPasses \/ Close
  BY <1>8, <1>b, <1>c, Zenon DEF StartDraining, Drained, Stop, SetKeyFilters, CapPasses, Close
<1>9. ASSUME NEW t \in Callers, Closes(t) PROVE ~takes'[version']
  BY <1>9, <1>b, <1>c, Zenon DEF Closes, Drains, Tells, CloseBegins, CloseShuts, CloseNotifies, CloseStops, CloseJoins, CloseEnds
<1>10. CASE UNCHANGED allVars BY <1>10, <1>b, <1>c, Zenon DEF allVars
<1> QED BY <1>1, <1>2, <1>3, <1>4, <1>5, <1>6, <1>7, <1>8, <1>9, <1>10, ZenonT(20) DEF ServerNext, Command

\* A step that shuts nothing, counts nothing and answers nothing.
LEMMA CalmKept ==
    ASSUME Shutting, Calm, Quiet => Quiet', UNCHANGED <<closed, early, refused>>, state'.accepting = state.accepting,
           ended' \in {ended, "stopped"},
           \A t \in Callers : at'[t] = at[t] \/ at'[t] \notin {"shut", "holding", "counted"}
    PROVE  Shutting' /\ Calm'
<1>0. "serve" \in Callers BY Zenon DEF Callers
<1>1. Shutting'
  <2>1. \A t \in Callers : at'[t] = "shut" => at[t] = "shut" BY ZenonT(20)
  <2> QED BY <2>1, ZenonT(40) DEF Shutting
<1>2. at'["serve"] \in {"holding", "counted"} => at["serve"] = at'["serve"] BY <1>0, Zenon
<1>3. ended' = "drained" => ended = "drained" BY ZenonT(20)
<1>4. Calm' BY <1>2, <1>3, Zenon DEF Calm
<1> QED BY <1>1, <1>4, Zenon

\* Only close() shuts the queue.
LEMMA StaysOpen ==
    ASSUME state \in States, [ServerNext]_allVars, \A t \in Callers : ~CloseShuts(t)
    PROVE  state'.accepting = state.accepting
<1>a. UNCHANGED state => state'.accepting = state.accepting BY Zenon
<1>b. ASSUME NEW r, NEW f, NEW d, Acknowledged(r, f, d) PROVE state'.accepting = state.accepting
  <2>1. \E a : state' = [state EXCEPT !.acknowledged = a] BY <1>b, Zenon DEF Acknowledged
  <2> QED BY <2>1, Zenon DEF States
<1>1. ASSUME NEW w \in Workers, Worker(w) \/ Spurious(w) PROVE state'.accepting = state.accepting
  <2>1. CASE Look(w)
    <3> DEFINE idle == IF work[w] = "signalled" THEN state.idle - 1 ELSE state.idle
    <3>1. \/ state' = [state EXCEPT !.queue = Tail(@), !.busy = @ + 1, !.idle = idle]
          \/ state' = [state EXCEPT !.idle = idle]
          \/ state' = [state EXCEPT !.idle = idle + 1]
      BY <2>1, Zenon DEF Look
    <3> QED BY <3>1, ZenonT(40) DEF States
  <2>2. CASE Done(w)
    <3>1. PICK n \in holds[w], failed \in BOOLEAN :
             state' = [state EXCEPT !.busy = @ - 1, !.acknowledged = CountedDown(state.acknowledged, n), !.failed = @ \/ failed]
      BY <2>2, Zenon DEF Done
    <3> QED BY <3>1, Zenon DEF States
  <2> QED BY <1>1, <2>1, <2>2, <1>a, Zenon DEF Worker, Spurious, Handle, Fails, Wakes
<1>2. ASSUME NEW c \in Conns, Event(c) \/ Network(c) PROVE state'.accepting = state.accepting
  <2>1. CASE OnMessage(c)
    <3>1. UNCHANGED state \/ \E q, n : state' = [state EXCEPT !.queue = q, !.accepted = n] BY <2>1, ZenonT(40) DEF OnMessage
    <3> QED BY <3>1, Zenon DEF States
  <2> QED BY <1>2, <2>1, <1>a, <1>b, ZenonT(40) DEF Event, Up, Lost, Other, Network, own, locked
<1>3. CASE Command
  BY <1>3, <1>a, <1>b, Zenon DEF Command, RunDrain, RunFilters, RunReply, RunAsk, RunHeld, RunFlush, RunShutdown, locked
<1>4. CASE Notify \/ Expires BY <1>4, <1>a, Zenon DEF Notify, Expires, locked
<1>5. CASE Loop \/ LoopPolls
  <2>1. CASE RunAcknowledged
    <3>1. \E a : state' = [state EXCEPT !.acknowledged = a] BY <2>1, ZenonT(40) DEF RunAcknowledged
    <3> QED BY <3>1, Zenon DEF States
  <2> QED BY <1>5, <2>1, <1>a, Zenon
           DEF Loop, LoopPolls, LoopTop, LoopWoken, LoopAtCap, LoopChecks, AskHeld, ArmFlush, Periodic, locked
<1>6. CASE StartDraining \/ Drained \/ Stop \/ SetKeyFilters \/ CapPasses \/ Close
  BY <1>6, <1>a, Zenon DEF StartDraining, Drained, Stop, SetKeyFilters, CapPasses, Close, locked
<1>7. ASSUME NEW t \in Callers, Closes(t) PROVE state'.accepting = state.accepting
  <2>1. CASE CloseJoins(t)
    <3>1. \E q : state' = [state EXCEPT !.queue = q] BY <2>1, Zenon DEF CloseJoins
    <3> QED BY <3>1, Zenon DEF States
  <2> QED BY <1>7, <2>1, <1>a, Zenon
           DEF Closes, Drains, Tells, CloseBegins, CloseNotifies, CloseStops, CloseEnds, locked
<1>8. CASE UNCHANGED allVars BY <1>8, Zenon DEF allVars, own, locked
<1> QED BY <1>1, <1>2, <1>3, <1>4, <1>5, <1>6, <1>7, <1>8, Zenon DEF ServerNext

\* A message that a living connection brings is refused by a closed server
\* that is not quiet, and by no other.
LEMMA OnMessageRefuses ==
    ASSUME Shutting, Calm, IInv, state \in States, NEW c \in Conns, OnMessage(c)
    PROVE  /\ ~closed => UNCHANGED refused
           /\ Quiet => UNCHANGED refused
<1>1. UNCHANGED refused \/ (~state.accepting /\ Living(c)) BY Zenon DEF OnMessage
<1>2. ~closed => state.accepting BY Zenon DEF Shutting
<1>3. Quiet /\ Living(c) => FALSE
  <2>1. s2c[c] # <<>> /\ Head(s2c[c]).kind = "message" BY Zenon DEF OnMessage, HandleMessage, Arrives
  <2>2. s2c[c] \in Seq([kind : Kinds, ver : Versions]) BY Zenon DEF IInv, TypeOK
  <2>3. Head(s2c[c]) = s2c[c][1] /\ 1 \in DOMAIN s2c[c]
    <3>1. Len(s2c[c]) >= 1 /\ Len(s2c[c]) \in Nat /\ DOMAIN s2c[c] = 1 .. Len(s2c[c]) /\ Head(s2c[c]) = s2c[c][1]
      BY <2>1, <2>2, TailFacts, Zenon
    <3> QED BY <3>1
  <2> QED BY <2>1, <2>3, Zenon DEF Quiet, Hushed
<1> QED BY <1>1, <1>2, <1>3, Zenon

LEMMA OnMessageCalm ==
    ASSUME Shutting, Calm, IInv, state \in States, NEW c \in Conns, OnMessage(c), Quiet => Quiet',
           state'.accepting = state.accepting
    PROVE  Shutting' /\ Calm'
<1>1. UNCHANGED <<closed, early, ended, at>> BY Zenon DEF OnMessage, flags
<1>2. (~closed => UNCHANGED refused) /\ (Quiet => UNCHANGED refused) BY OnMessageRefuses, Zenon
<1>3. Shutting' BY <1>1, <1>2, Zenon DEF Shutting
<1>4. Calm' BY <1>1, <1>2, Zenon DEF Calm
<1> QED BY <1>3, <1>4, Zenon

\* The answer of drained(): the routing acknowledged, and it is the drain's.
LEMMA RunAskCalm ==
    ASSUME Shutting, Mail, Calm, ServerInv, AcknowledgedHolds, RunAsk, Quiet => Quiet'
    PROVE  Shutting' /\ Mail' /\ Calm'
<1>0. Posts /\ IInv BY Zenon DEF ServerInv, DeskInv
<1>1. /\ Takes("ask") /\ UNCHANGED <<closed, refused, ended, state>> /\ early' = takes[version]
      /\ \E p \in {"holding", "periodic"} : Moves("serve", p) /\ (p = "holding" => RoutingAcknowledged)
  BY Zenon DEF RunAsk, flags, locked
<1>2. Mail' BY <1>0, <1>1, MailAnswered, Zenon
<1>3. at'["serve"] \in {"holding", "periodic"} /\ at'["program"] = at["program"]
      /\ (at'["serve"] = "holding" => RoutingAcknowledged)
  BY <1>0, <1>1, Zenon DEF Moves, Posts, Callers
<1>4. RoutingAcknowledged /\ ~early' => Quiet BY <1>0, <1>1, AcknowledgedQuiet, Zenon DEF AcknowledgedHolds
<1>5. Shutting' BY <1>1, <1>3, Zenon DEF Shutting, Callers
<1>6. Calm' BY <1>1, <1>3, <1>4, Zenon DEF Calm
<1> QED BY <1>2, <1>5, <1>6, Zenon

\* The answer of nothing_held(): what drained() saw still holds.
LEMMA RunHeldCalm ==
    ASSUME Shutting, Mail, Calm, Posts, RunHeld, Quiet => Quiet'
    PROVE  Shutting' /\ Mail' /\ Calm'
<1>1. /\ Takes("held") /\ UNCHANGED <<closed, refused, early, state>>
      /\ ended' \in {ended, "stopped", "early"} \/ (ended' = "drained" /\ ~closed /\ ~early)
      /\ \E p \in {"over", "arm"} : Moves("serve", p)
  BY Zenon DEF RunHeld, flags, locked
<1>2. Mail' /\ at["serve"] = "counted" BY <1>1, MailAnswered, Zenon
<1>3. at'["serve"] \in {"over", "arm"} /\ at'["program"] = at["program"] BY <1>1, Zenon DEF Moves, Posts, Callers
<1>4. Shutting' BY <1>1, <1>3, Zenon DEF Shutting, Callers
<1>5. ended' = "drained" => Quiet /\ refused = 0 BY <1>1, <1>2, Zenon DEF Calm, Shutting
<1>6. Calm' BY <1>1, <1>3, <1>5, Zenon DEF Calm
<1> QED BY <1>2, <1>4, <1>6, Zenon

LEMMA NextCalm ==
    ASSUME CountFacts, Shutting, Mail, Calm, ServerInv, AcknowledgedHolds, [ServerNext]_allVars
    PROVE  Shutting' /\ Mail' /\ Calm'
<1>0. /\ Posts /\ IInv /\ state \in States /\ CountInv /\ (Quiet => Quiet') /\ "serve" \in Callers /\ "program" \in Callers
      /\ at \in [Callers -> Places]
  BY ServerQuiet, Zenon DEF ServerInv, DeskInv, CountInv, Locked, Callers, Posts
<1>a. (\A t \in Callers : at'[t] = at[t] \/ at'[t] # "notify") => state'.accepting = state.accepting
  <2>1. ASSUME NEW t \in Callers, CloseShuts(t) PROVE at[t] = "shut" /\ at'[t] = "notify"
    BY <2>1, <1>0, Zenon DEF CloseShuts, Moves
  <2> QED BY <2>1, <1>0, StaysOpen, Zenon
<1>b. ASSUME UNCHANGED <<closed, early, refused, ended, at>>,
             UNCHANGED inbox \/ (\E c \in Commands \ {"ask", "held"} : Post(c)) \/ (\E c : Takes(c))
      PROVE  Shutting' /\ Mail' /\ Calm'
  <2>1. Mail' BY <1>0, <1>b, MailKept, Zenon
  <2>2. Shutting' /\ Calm' BY <1>0, <1>a, <1>b, CalmKept, Zenon
  <2> QED BY <2>1, <2>2, Zenon
<1>c. ASSUME NEW t \in Callers, NEW p \in Places \ {"shut", "holding", "counted", "notify"}, Moves(t, p),
             t = "program" \/ at["serve"] \notin {"asked", "counted"},
             UNCHANGED <<closed, early, refused>>, ended' \in {ended, "stopped"}
      PROVE  /\ Shutting' /\ Calm'
             /\ UNCHANGED inbox \/ (\E c \in Commands \ {"ask", "held"} : Post(c)) => Mail'
  <2>1. at'[t] = p /\ \A u \in Callers : u # t => at'[u] = at[u] BY <1>0, <1>c, MovesType, Zenon
  <2>2. at'["serve"] = at["serve"] \/ at["serve"] \notin {"asked", "counted"} BY <2>1, <1>0, <1>c, Zenon
  <2>3. state'.accepting = state.accepting BY <2>1, <1>a, <1>c, Zenon
  <2>4. Shutting' /\ Calm' BY <2>1, <2>3, <1>0, <1>c, CalmKept, ZenonT(40)
  <2> QED BY <2>2, <2>4, <1>0, MailKept, Zenon
<1> DEFINE Kept == Shutting' /\ Mail' /\ Calm'
<1>1. ASSUME NEW w \in Workers, Worker(w) \/ Spurious(w) PROVE Kept
  <2>1. UNCHANGED <<closed, early, refused, ended, at>> /\ (UNCHANGED inbox \/ Post("reply"))
    BY <1>1, Zenon DEF Worker, Spurious, Look, Handle, Done, Fails, Wakes, flags, past
  <2> QED BY <2>1, <1>b, Zenon DEF Commands
<1>2. ASSUME NEW c \in Conns, Event(c) PROVE Kept
  <2>1. CASE OnMessage(c)
    <3>1. UNCHANGED <<inbox, at>> BY <2>1, Zenon DEF OnMessage
    <3>2. state'.accepting = state.accepting BY <3>1, <1>a, Zenon
    <3>3. Mail' BY <3>1, <1>0, MailKept, Zenon
    <3> QED BY <2>1, <3>2, <3>3, <1>0, OnMessageCalm, Zenon
  <2>2. CASE Up(c) \/ Lost(c) \/ Other(c)
    <3>1. UNCHANGED <<closed, early, refused, ended, at, inbox>> BY <2>2, Zenon DEF Up, Lost, Other, flags, past
    <3> QED BY <3>1, <1>b, Zenon
  <2> QED BY <1>2, <2>1, <2>2, Zenon DEF Event
<1>3. ASSUME NEW c \in Conns, Network(c) PROVE Kept
  <2>1. UNCHANGED <<closed, early, refused, ended, at, inbox>> BY <1>3, Zenon DEF Network, own, flags, past
  <2> QED BY <2>1, <1>b, Zenon
<1>4. CASE Command
  <2>1. CASE RunDrain \/ RunFilters \/ RunReply \/ RunFlush
    <3>1. UNCHANGED <<closed, early, refused, ended, at>> /\ \E c : Takes(c)
      BY <2>1, Zenon DEF RunDrain, RunFilters, RunReply, RunFlush, flags, past
    <3> QED BY <3>1, <1>b, Zenon
  <2>2. CASE RunAsk BY <2>2, <1>0, RunAskCalm, Zenon
  <2>3. CASE RunHeld BY <2>3, <1>0, RunHeldCalm, Zenon
  <2>4. CASE RunShutdown
    <3>1. UNCHANGED <<closed, early, refused, ended, at>> /\ inbox' = <<"down">> BY <2>4, Zenon DEF RunShutdown, flags, past
    <3>2. Mail' BY <3>1 DEF Mail, Posted
    <3>3. Shutting' /\ Calm' BY <3>1, <1>0, <1>a, CalmKept, Zenon
    <3> QED BY <3>2, <3>3, Zenon
  <2> QED BY <1>4, <2>1, <2>2, <2>3, <2>4, Zenon DEF Command
<1>5. CASE Notify \/ Expires \/ UNCHANGED allVars
  <2>1. UNCHANGED <<closed, early, refused, ended, at, inbox>> BY <1>5, Zenon DEF Notify, Expires, allVars, own, flags, past
  <2> QED BY <2>1, <1>b, Zenon
<1>6. CASE LoopTop \/ LoopWoken \/ LoopAtCap \/ LoopPolls \/ RunAcknowledged \/ ArmFlush \/ Periodic
  <2>1. /\ at["serve"] \in {"top", "waits", "acks", "arm", "periodic"} /\ UNCHANGED <<closed, early, refused, ended>>
        /\ UNCHANGED inbox \/ Post("flush")
        /\ \E p \in {"acks", "waits", "check", "periodic", "top"} : Moves("serve", p)
    BY <1>6, Zenon DEF LoopTop, LoopWoken, LoopAtCap, LoopPolls, RunAcknowledged, ArmFlush, Periodic, flags, past
  <2> QED BY <2>1, <1>0, <1>c, Zenon DEF Places, Commands
<1>7. CASE LoopChecks
  <2>1. /\ at["serve"] = "check" /\ UNCHANGED <<closed, early, refused>> /\ ended' \in {ended, "stopped"}
        /\ \/ Moves("serve", "asked") /\ ~Stopped /\ Post("ask")
           \/ (Moves("serve", "over") \/ Moves("serve", "periodic")) /\ UNCHANGED inbox
    BY <1>7, Zenon DEF LoopChecks, flags, Post
  <2>2. Shutting' /\ Calm' /\ (UNCHANGED inbox => Mail') BY <2>1, <1>0, <1>c, Zenon DEF Places
  <2>3. ASSUME Moves("serve", "asked"), ~Stopped, Post("ask") PROVE Mail'
    <3>1. at'["serve"] = "asked" BY <2>3, <1>0, Zenon DEF Moves
    <3>2. inbox' = Append(inbox, "ask") /\ inbox \in Seq(Commands) BY <2>3, <1>0, Zenon DEF Post, Posts
    <3>3. Posted(Append(inbox, "ask"), "asked") BY <3>2, <2>1, PostedNew, Zenon DEF Mail, Commands
    <3> QED BY <3>1, <3>2, <3>3, Zenon DEF Mail
  <2> QED BY <2>1, <2>2, <2>3, Zenon
<1>8. CASE AskHeld
  <2>1. /\ at["serve"] = "holding" /\ UNCHANGED <<closed, early, refused>> /\ ended' \in {ended, "stopped"}
        /\ \/ Moves("serve", "counted") /\ ~Stopped /\ Post("held")
           \/ Moves("serve", "over") /\ UNCHANGED inbox
    BY <1>8, Zenon DEF AskHeld, flags, Post
  <2>2. CASE Moves("serve", "over") /\ UNCHANGED inbox BY <2>1, <2>2, <1>0, <1>c, Zenon DEF Places
  <2>3. CASE Moves("serve", "counted") /\ ~Stopped /\ Post("held")
    <3>1. at'["serve"] = "counted" /\ at'["program"] = at["program"] BY <2>3, <1>0, Zenon DEF Moves
    <3>2. inbox' = Append(inbox, "held") /\ inbox \in Seq(Commands) BY <2>3, <1>0, Zenon DEF Post, Posts
    <3>3. Posted(Append(inbox, "held"), "counted") BY <3>2, <2>1, PostedNew, Zenon DEF Mail, Commands
    <3>4. Mail' BY <3>1, <3>2, <3>3, Zenon DEF Mail
    <3>5. state'.accepting = state.accepting BY <3>1, <1>a, Zenon DEF Callers
    <3>6. Shutting' BY <3>1, <3>5, <2>1, ZenonT(40) DEF Shutting, Callers
    <3>7. Calm' BY <3>1, <2>1, <1>0, Zenon DEF Calm
    <3> QED BY <3>4, <3>6, <3>7, Zenon
  <2> QED BY <2>1, <2>2, <2>3, Zenon
<1>9. CASE StartDraining \/ Drained \/ Stop \/ SetKeyFilters \/ CapPasses \/ Close
  <2>1. /\ UNCHANGED <<closed, early, refused, ended>>
        /\ UNCHANGED inbox \/ Post("filters")
        /\ UNCHANGED at \/ \E p \in {"drain", "idle", "over"} : Moves("program", p)
    BY <1>9, Zenon DEF StartDraining, Drained, Stop, SetKeyFilters, CapPasses, Close, flags, past
  <2> QED BY <2>1, <1>0, <1>b, <1>c, Zenon DEF Places, Commands
<1>10. ASSUME NEW t \in Callers, Closes(t) PROVE Kept
  <2>1. CASE Drains(t) \/ Tells(t) \/ CloseNotifies(t) \/ CloseStops(t) \/ CloseEnds(t)
    <3>1. /\ at[t] \notin {"asked", "counted"} /\ UNCHANGED <<closed, early, refused, ended>>
          /\ UNCHANGED inbox \/ Post("drain")
          /\ \E p \in {"drained", "tell", "drain", "join", "done"} : Moves(t, p)
      BY <2>1, Zenon DEF Drains, Tells, CloseNotifies, CloseStops, CloseEnds, flags, past
    <3>2. t = "program" \/ at["serve"] \notin {"asked", "counted"} BY <3>1, Zenon DEF Callers
    <3> QED BY <3>1, <3>2, <1>c, Zenon DEF Places, Commands
  <2>2. CASE CloseBegins(t)
    <3>1. /\ at[t] = "over" /\ closed' = TRUE /\ UNCHANGED <<early, refused, ended, inbox, state>>
          /\ \E p \in {"done", "shut"} : Moves(t, p)
      BY <2>2, Zenon DEF CloseBegins, past, locked
    <3>2. at'[t] \in {"done", "shut"} /\ \A u \in Callers : u # t => at'[u] = at[u]
      BY <3>1, <1>0, MovesType, Zenon DEF Places
    <3>3. at'["serve"] = at["serve"] \/ (at["serve"] = "over" /\ at'["serve"] \notin {"holding", "counted"})
      BY <3>1, <3>2, <1>0, Zenon
    <3>4. Mail' BY <3>1, <3>3, <1>0, MailKept, Zenon
    <3>5. Calm' BY <3>1, <3>3, <1>0, Zenon DEF Calm
    <3> QED BY <3>1, <3>4, <3>5, ZenonT(40) DEF Shutting
  <2>3. CASE CloseShuts(t)
    <3>1. /\ at[t] = "shut" /\ UNCHANGED <<closed, early, refused, ended, inbox>> /\ Moves(t, "notify")
      BY <2>3, Zenon DEF CloseShuts, flags, past
    <3>2. at'[t] = "notify" /\ \A u \in Callers : u # t => at'[u] = at[u]
      BY <3>1, <1>0, MovesType, Zenon DEF Places
    <3>3. at'["serve"] = at["serve"] \/ (at["serve"] = "shut" /\ at'["serve"] \notin {"holding", "counted"})
      BY <3>1, <3>2, <1>0, Zenon
    <3>4. Mail' BY <3>1, <3>3, <1>0, MailKept, Zenon
    <3>5. Calm' BY <3>1, <3>3, <1>0, Zenon DEF Calm
    <3>6. closed' BY <3>1, Zenon DEF Shutting
    <3> QED BY <3>4, <3>5, <3>6, Zenon DEF Shutting
  <2>4. CASE CloseJoins(t)
    <3>1. /\ at[t] = "join" /\ UNCHANGED <<closed, early, ended>> /\ Moves(t, "ends") /\ Post("shutdown")
          /\ refused' = refused + Len(state.queue)
      BY <2>4, Zenon DEF CloseJoins, flags
    <3>2. refused \in Nat BY Zenon DEF ServerInv, DeskInv, Outbound
    <3>3. UNCHANGED refused BY <3>1, <3>2, <2>4, <1>0, CloseJoinsStep, SMTT(20)
    <3>4. t = "program" \/ at["serve"] \notin {"asked", "counted"} BY <3>1, Zenon DEF Callers
    <3> QED BY <3>1, <3>3, <3>4, <1>c, Zenon DEF Places, Commands
  <2> QED BY <1>10, <2>1, <2>2, <2>3, <2>4, Zenon DEF Closes
<1> QED
  BY <1>1, <1>2, <1>3, <1>4, <1>5, <1>6, <1>7, <1>8, <1>9, <1>10, ZenonT(20) DEF ServerNext, Loop

-----------------------------------------------------------------------------
(* The theorems, with the library's facts on finite sets.                  *)

Library == INSTANCE FiniteSetTheorems
LOCAL INSTANCE WellFoundedInduction

\* The library's notion of size is this one.
LEMMA SameCount ==
    /\ \A S : IsFiniteSet(S) <=> Library!IsFiniteSet(S)
    /\ \A S : Cardinality(S) = Library!Cardinality(S)
<1>1. \A S : IsFiniteSet(S) <=> Library!IsFiniteSet(S)
  BY Zenon DEF IsFiniteSet, Library!IsFiniteSet
<1>2. \A S : Cardinality(S) = Library!Cardinality(S)
  BY Zenon DEF Cardinality, Library!Cardinality
<1> QED
  BY <1>1, <1>2, Zenon

LEMMA CountsHold == CountFacts
<1>1. EmptyCount
  BY SameCount, Library!FS_EmptySet, Zenon DEF EmptyCount
<1>2. NumberCount
  BY SameCount, Library!FS_CardinalityType, Zenon DEF NumberCount
<1>3. AddCount
  BY SameCount, Library!FS_AddElement, Zenon DEF AddCount
<1>4. RemoveCount
  BY SameCount, Library!FS_RemoveElement, Zenon DEF RemoveCount
<1>5. SubsetCount
  BY SameCount, Library!FS_Subset, Zenon DEF SubsetCount
<1>6. UnionCount
  BY SameCount, Library!FS_Union, Zenon DEF UnionCount
<1>7. IntervalCount
  BY SameCount, Library!FS_Interval, Zenon DEF IntervalCount
<1>8. LeastNumber
  <2> SUFFICES ASSUME NEW S \in SUBSET Nat, S # {} PROVE \E m \in S : \A k \in S : m <= k
    BY Zenon DEF LeastNumber
  <2> DEFINE R == {ss \in Nat \X Nat : ss[1] < ss[2]}
  <2>0. IsWellFoundedOn(R, Nat)
    BY NatLessThanWellFounded, Zenon DEF OpToRel
  <2>1. \A x, y \in Nat : x < y => <<x, y>> \in R
    BY Zenon
  <2> HIDE DEF R
  <2>2. PICK m \in S : \A y \in S : ~ (<<y, m>> \in R)
    BY <2>0, WFMin, Zenon
  <2>3. \A k \in S : k \in Nat /\ m \in Nat /\ ~(k < m)
    BY <2>1, <2>2, ZenonT(40)
  <2> QED
    BY <2>3
<1> QED
  BY <1>1, <1>2, <1>3, <1>4, <1>5, <1>6, <1>7, <1>8, ZenonT(40) DEF CountFacts

LEMMA ServerIsInv == ServerSpec => []ServerInv
<1>1. ServerInit => ServerInv BY CountsHold, InitServer, Zenon
<1>2. ServerInv /\ [ServerNext]_allVars => ServerInv' BY CountsHold, NextServer, Zenon
<1> QED BY <1>1, <1>2, PTL DEF ServerSpec

\* No request is lost between the queue and the workers, of any number: each
\* is counted by exactly the changes that wait for it, the counts are those
\* of the threads, and while a worker sleeps one is on its way to it.
THEOREM ThreadedServerNoRequestLost == ServerSpec => []NoRequestLost
<1>1. ServerInv => NoRequestLost BY LosesNoRequest, Zenon
<1> QED BY <1>1, ServerIsInv, PTL, ZenonT(20)

\* The client of a server is asked to shut down only once every request the
\* queue took is done: close() joins the workers first, who leave an empty
\* queue behind.
THEOREM ThreadedServerServedBeforeShutdown == ServerSpec => ServedBeforeShutdown
<1>1. ASSUME ServerInv, [ServerNext]_allVars PROVE [~Stopped /\ Stopped' => Unfinished = {} /\ state.busy = 0]_allVars
  BY <1>1, CountsHold, StopsServed, Zenon
<1> QED BY <1>1, ServerIsInv, PTL, ZenonT(20) DEF ServerSpec, ServedBeforeShutdown

\* A drain that its confirmation ended refuses no request the rules routed
\* here, for any number of workers, connections and requests and whatever
\* the other threads call meanwhile: the confirmation says that nothing is
\* on its way, close() comes after it, and the workers finish what is queued.
THEOREM ThreadedServerNothingRefused == ServerSpec => []NothingRefused
<1> DEFINE Refusing == Shutting /\ Mail /\ Calm
<1>1. ServerInit => Refusing
  <2> SUFFICES ASSUME ServerInit PROVE Refusing BY ZenonT(20)
  <2>1. /\ at = [t \in Callers |-> IF t = "serve" THEN "top" ELSE "idle"] /\ inbox = <<>> /\ refused = 0 /\ ended = "no"
        /\ state.accepting = TRUE
    BY Zenon DEF ServerInit, State
  <2>2. at["serve"] = "top" /\ \A t \in Callers : at[t] # "shut" BY <2>1, Zenon DEF Callers
  <2>3. Mail BY <2>1 DEF Mail, Posted
  <2> QED BY <2>1, <2>2, <2>3, ZenonT(20) DEF Shutting, Calm
<1>2. ServerInv /\ AcknowledgedHolds /\ Refusing /\ [ServerNext]_allVars => Refusing'
  BY CountsHold, NextCalm, Zenon
<1>3. Refusing => NothingRefused BY Zenon DEF Calm, NothingRefused
<1> HIDE DEF Refusing
<1> QED BY <1>1, <1>2, <1>3, ServerIsInv, ThreadedServerAcknowledgedHolds, PTL, ZenonT(20) DEF ServerSpec
=============================================================================
