-------------------------- MODULE ConfirmerProofs --------------------------
(***************************************************************************)
(* What a Confirmer's handlers make of its books, for any number of        *)
(* messages and any list a CONFIRMATION may hold.                          *)
(***************************************************************************)
EXTENDS Confirmer, Counting, TLAPS

-----------------------------------------------------------------------------
(* The producer's record, and what its handlers make of it.                *)

Open(q, b) == q.batches[b].open
All(q, b) == q.batches[b].all
Group(q, b) == q.batches[b].group

Ends == {"none", "processed", "lost"}
Batch == [all : SUBSET Numbers, open : SUBSET Numbers, group : Nat,
          written : BOOLEAN, on : Conns \cup {None}]
Run == [first : Numbers, count : Numbers, batch : Nat \ {0}, left : Int]

\* A producer's record by its fields.
Record(last, next, batches, runs, unconfirmed, end) ==
    [last |-> last, next |-> next, batches |-> batches, runs |-> runs,
     unconfirmed |-> unconfirmed, end |-> end]

LEMMA RecordFields ==
    ASSUME NEW l, NEW n, NEW b, NEW r, NEW u, NEW e
    PROVE  /\ Record(l, n, b, r, u, e).last = l /\ Record(l, n, b, r, u, e).next = n
           /\ Record(l, n, b, r, u, e).batches = b /\ Record(l, n, b, r, u, e).runs = r
           /\ Record(l, n, b, r, u, e).unconfirmed = u /\ Record(l, n, b, r, u, e).end = e
BY Zenon DEF Record

IsRecord(q) == q = Record(q.last, q.next, q.batches, q.runs, q.unconfirmed, q.end)

LEMMA RecordIs ==
    ASSUME NEW l, NEW n, NEW b, NEW r, NEW u, NEW e
    PROVE  IsRecord(Record(l, n, b, r, u, e))
BY RecordFields DEF IsRecord

\* What each handler changes of it.
WithLast(q, l) == [q EXCEPT !.last = l]

LEMMA WithLastIs ==
    ASSUME NEW q, IsRecord(q), NEW l
    PROVE  WithLast(q, l) = Record(l, q.next, q.batches, q.runs, q.unconfirmed, q.end)
BY DEF IsRecord, Record, WithLast

LEMMA NextChanged ==
    ASSUME NEW q, IsRecord(q), NEW n
    PROVE  [q EXCEPT !.next = n]
             = Record(q.last, n, q.batches, q.runs, q.unconfirmed, q.end)
BY DEF IsRecord, Record

WithBatches(q, b) == [q EXCEPT !.batches = b]

LEMMA BatchesChanged ==
    ASSUME NEW q, IsRecord(q), NEW b
    PROVE  [q EXCEPT !.batches = b]
             = Record(q.last, q.next, b, q.runs, q.unconfirmed, q.end)
BY DEF IsRecord, Record

LEMMA WithBatchesIs ==
    ASSUME NEW q, IsRecord(q), NEW b
    PROVE  WithBatches(q, b) = Record(q.last, q.next, b, q.runs, q.unconfirmed, q.end)
BY BatchesChanged, Zenon DEF WithBatches

WithRuns(q, r) == [q EXCEPT !.runs = r]

LEMMA RunsChanged ==
    ASSUME NEW q, IsRecord(q), NEW r
    PROVE  [q EXCEPT !.runs = r]
             = Record(q.last, q.next, q.batches, r, q.unconfirmed, q.end)
BY DEF IsRecord, Record

LEMMA WithRunsIs ==
    ASSUME NEW q, IsRecord(q), NEW r
    PROVE  WithRuns(q, r) = Record(q.last, q.next, q.batches, r, q.unconfirmed, q.end)
BY RunsChanged, Zenon DEF WithRuns

LEMMA CountChanged ==
    ASSUME NEW q, IsRecord(q), NEW u
    PROVE  [q EXCEPT !.unconfirmed = u]
             = Record(q.last, q.next, q.batches, q.runs, u, q.end)
BY DEF IsRecord, Record

LEMMA EndChanged ==
    ASSUME NEW q, IsRecord(q), NEW e
    PROVE  [q EXCEPT !.end = e]
             = Record(q.last, q.next, q.batches, q.runs, q.unconfirmed, e)
BY DEF IsRecord, Record

WithKept(q, b, r) == [q EXCEPT !.batches = b, !.runs = r]

LEMMA WithKeptIs ==
    ASSUME NEW q, IsRecord(q), NEW b, NEW r
    PROVE  WithKept(q, b, r) = Record(q.last, q.next, b, r, q.unconfirmed, q.end)
<1> DEFINE y1 == Record(q.last, q.next, b, q.runs, q.unconfirmed, q.end)
<1>1. [q EXCEPT !.batches = b] = y1
  BY BatchesChanged, Zenon
<1>2. IsRecord(y1) /\ y1.last = q.last /\ y1.next = q.next /\ y1.batches = b /\ y1.runs = q.runs /\ y1.unconfirmed = q.unconfirmed /\ y1.end = q.end
  BY RecordIs, RecordFields
<1> HIDE DEF y1
<1>3. [y1 EXCEPT !.runs = r] = Record(q.last, q.next, b, r, q.unconfirmed, q.end)
  BY <1>2, RunsChanged
<1> QED BY <1>1, <1>3, Zenon DEF WithKept

WithOpen(q, b, u) == [q EXCEPT !.batches = b, !.unconfirmed = u]

LEMMA WithOpenIs ==
    ASSUME NEW q, IsRecord(q), NEW b, NEW u
    PROVE  WithOpen(q, b, u) = Record(q.last, q.next, b, q.runs, u, q.end)
<1> DEFINE y1 == Record(q.last, q.next, b, q.runs, q.unconfirmed, q.end)
<1>1. [q EXCEPT !.batches = b] = y1
  BY BatchesChanged, Zenon
<1>2. IsRecord(y1) /\ y1.last = q.last /\ y1.next = q.next /\ y1.batches = b /\ y1.runs = q.runs /\ y1.unconfirmed = q.unconfirmed /\ y1.end = q.end
  BY RecordIs, RecordFields
<1> HIDE DEF y1
<1>3. [y1 EXCEPT !.unconfirmed = u] = Record(q.last, q.next, b, q.runs, u, q.end)
  BY <1>2, CountChanged, Zenon
<1> QED BY <1>1, <1>3, Zenon DEF WithOpen

WithEnds(q, b, u, e) == [q EXCEPT !.batches = b, !.unconfirmed = u, !.end = e]

LEMMA WithEndsIs ==
    ASSUME NEW q, IsRecord(q), NEW b, NEW u, NEW e
    PROVE  WithEnds(q, b, u, e) = Record(q.last, q.next, b, q.runs, u, e)
<1> DEFINE y1 == Record(q.last, q.next, b, q.runs, q.unconfirmed, q.end)
           y2 == Record(q.last, q.next, b, q.runs, u, q.end)
<1>1. [q EXCEPT !.batches = b] = y1
  BY BatchesChanged, Zenon
<1>2. IsRecord(y1) /\ y1.last = q.last /\ y1.next = q.next /\ y1.batches = b /\ y1.runs = q.runs /\ y1.unconfirmed = q.unconfirmed /\ y1.end = q.end
  BY RecordIs, RecordFields
<1> HIDE DEF y1
<1>3. [y1 EXCEPT !.unconfirmed = u] = y2
  BY <1>2, CountChanged DEF y2
<1>4. IsRecord(y2) /\ y2.last = q.last /\ y2.next = q.next /\ y2.batches = b /\ y2.runs = q.runs /\ y2.unconfirmed = u /\ y2.end = q.end
  BY RecordIs, RecordFields
<1> HIDE DEF y2
<1>5. [y2 EXCEPT !.end = e] = Record(q.last, q.next, b, q.runs, u, e)
  BY <1>4, EndChanged, Zenon
<1> QED BY <1>1, <1>3, <1>5, Zenon DEF WithEnds

WithNew(q, n, b, u) == [q EXCEPT !.next = n, !.batches = b, !.unconfirmed = u]

LEMMA WithNewIs ==
    ASSUME NEW q, IsRecord(q), NEW n, NEW b, NEW u
    PROVE  WithNew(q, n, b, u) = Record(q.last, n, b, q.runs, u, q.end)
<1> DEFINE y1 == Record(q.last, n, q.batches, q.runs, q.unconfirmed, q.end)
           y2 == Record(q.last, n, b, q.runs, q.unconfirmed, q.end)
<1>1. [q EXCEPT !.next = n] = y1
  BY NextChanged, Zenon
<1>2. IsRecord(y1) /\ y1.last = q.last /\ y1.next = n /\ y1.batches = q.batches /\ y1.runs = q.runs /\ y1.unconfirmed = q.unconfirmed /\ y1.end = q.end
  BY RecordIs, RecordFields
<1> HIDE DEF y1
<1>3. [y1 EXCEPT !.batches = b] = y2
  BY <1>2, BatchesChanged DEF y2
<1>4. IsRecord(y2) /\ y2.last = q.last /\ y2.next = n /\ y2.batches = b /\ y2.runs = q.runs /\ y2.unconfirmed = q.unconfirmed /\ y2.end = q.end
  BY RecordIs, RecordFields
<1> HIDE DEF y2
<1>5. [y2 EXCEPT !.unconfirmed = u] = Record(q.last, n, b, q.runs, u, q.end)
  BY <1>4, CountChanged
<1> QED BY <1>1, <1>3, <1>5, Zenon DEF WithNew

WithEnd(q, n, e) == [q EXCEPT !.next = n, !.end = e]

LEMMA WithEndIs ==
    ASSUME NEW q, IsRecord(q), NEW n, NEW e
    PROVE  WithEnd(q, n, e) = Record(q.last, n, q.batches, q.runs, q.unconfirmed, e)
<1> DEFINE y1 == Record(q.last, n, q.batches, q.runs, q.unconfirmed, q.end)
<1>1. [q EXCEPT !.next = n] = y1
  BY NextChanged, Zenon
<1>2. IsRecord(y1) /\ y1.last = q.last /\ y1.next = n /\ y1.batches = q.batches /\ y1.runs = q.runs /\ y1.unconfirmed = q.unconfirmed /\ y1.end = q.end
  BY RecordIs, RecordFields
<1> HIDE DEF y1
<1>3. [y1 EXCEPT !.end = e] = Record(q.last, n, q.batches, q.runs, q.unconfirmed, e)
  BY <1>2, EndChanged
<1> QED BY <1>1, <1>3, Zenon DEF WithEnd

Typed(q) ==
    /\ IsRecord(q)
    /\ q.last \in 0 .. MaxNumber /\ q.next \in Nat \ {0}
    /\ q.batches \in [Batches(q) -> Batch] /\ Batches(q) \subseteq 1 .. q.next - 1
    /\ q.runs \subseteq Run
    /\ q.unconfirmed \in Int
    /\ q.end \in [Numbers -> Ends]

\* A handler leaves the batches what they are but for what is open of them.
SameBatches(q, z, B) ==
    \A b \in B : /\ All(z, b) = All(q, b) /\ Group(z, b) = Group(q, b)

LEMMA OpenTyped ==
    ASSUME NEW q, Typed(q), NEW b \in Batches(q)
    PROVE  /\ Open(q, b) \subseteq Numbers /\ All(q, b) \subseteq Numbers /\ Group(q, b) \in Nat
BY Zenon DEF Typed, Batch, Open, All, Group

LEMMA ResolvedIs ==
    ASSUME NEW q, Typed(q), NEW S, DOMAIN S \subseteq Batches(q), NEW e \in Ends,
           Cardinality(Unresolved(q, S)) \in Int, NEW z, z = Resolved(q, S, e)
    PROVE  /\ Typed(z) /\ Batches(z) = Batches(q) /\ SameBatches(q, z, Batches(q))
           /\ z.last = q.last /\ z.next = q.next /\ z.runs = q.runs
           /\ z.unconfirmed = q.unconfirmed - Cardinality(Unresolved(q, S))
           /\ z.end = [n \in Numbers |-> IF n \in Unresolved(q, S) THEN e ELSE q.end[n]]
           /\ \A b \in Batches(q) :
                Open(z, b) = IF b \in DOMAIN S THEN Open(q, b) \ S[b] ELSE Open(q, b)
<1> DEFINE F(b) == IF b \in DOMAIN S THEN Without(q.batches[b], S[b]) ELSE q.batches[b]
           B == [b \in Batches(q) |-> F(b)]
           U == Unresolved(q, S)
           E == [n \in Numbers |-> IF n \in U THEN e ELSE q.end[n]]
<1>1. z = Record(q.last, q.next, B, q.runs, q.unconfirmed - Cardinality(U), E)
  <2> DEFINE u == q.unconfirmed - Cardinality(U)
  <2>1. Resolved(q, S, e) = WithEnds(q, B, u, E)
    BY Zenon DEF Resolved, WithEnds
  <2>2. IsRecord(q)
    BY Zenon DEF Typed
  <2> HIDE DEF B, u, E
  <2> QED BY <2>1, <2>2, WithEndsIs, Zenon DEF u
<1>2. \A b \in Batches(q) : /\ F(b) \in Batch /\ F(b).all = All(q, b) /\ F(b).group = Group(q, b)
                            /\ F(b).open = IF b \in DOMAIN S THEN Open(q, b) \ S[b] ELSE Open(q, b)
  BY Zenon DEF Typed, Batch, Without, All, Group, Open
<1>3. E \in [Numbers -> Ends] /\ B \in [Batches(q) -> Batch]
  BY <1>2, Zenon DEF Typed
<1> HIDE DEF F, E, U
<1>4. DOMAIN B = Batches(q) /\ \A b \in Batches(q) : B[b] = F(b)
  BY Zenon
<1> HIDE DEF B
<1>5. /\ IsRecord(z) /\ z.last = q.last /\ z.next = q.next /\ z.batches = B /\ z.runs = q.runs
      /\ z.unconfirmed = q.unconfirmed - Cardinality(U) /\ z.end = E
  BY <1>1, RecordFields, RecordIs
<1>6. Batches(z) = Batches(q)
  BY <1>4, <1>5, Zenon DEF Batches
<1>7. q.unconfirmed - Cardinality(U) \in Int
  BY DEF Typed, U
<1>8. Typed(z)
  BY <1>3, <1>5, <1>6, <1>7, Zenon DEF Typed
<1> QED BY <1>2, <1>4, <1>5, <1>6, <1>8, Zenon DEF U, E, SameBatches, Open, All, Group

-----------------------------------------------------------------------------
(* What is counted.                                                        *)

LEMMA NumbersFinite ==
    ASSUME CountFacts, NEW S, S \subseteq Numbers
    PROVE  IsFiniteSet(S) /\ Cardinality(S) \in Nat
<1>1. IsFiniteSet(Numbers)
  BY ConfirmerAssumption DEF CountFacts, IntervalCount, Numbers
<1>2. IsFiniteSet(S)
  BY <1>1, Zenon DEF CountFacts, SubsetCount
<1> QED BY <1>2, Zenon DEF CountFacts, NumberCount

LEMMA CountLess ==
    ASSUME CountFacts, NEW S, IsFiniteSet(S), NEW T, T \subseteq S
    PROVE  /\ IsFiniteSet(T) /\ IsFiniteSet(S \ T) /\ Cardinality(S \ T) = Cardinality(S) - Cardinality(T)
           /\ Cardinality(S) \in Nat /\ Cardinality(T) \in Nat /\ Cardinality(S \ T) \in Nat
<1>1. IsFiniteSet(T) /\ IsFiniteSet(S \ T)
  BY Zenon DEF CountFacts, SubsetCount
<1>2. S = (S \ T) \cup T /\ (S \ T) \cap T = {}
  BY Zenon
<1>3. Cardinality(S) \in Nat /\ Cardinality(T) \in Nat /\ Cardinality(S \ T) \in Nat /\ Cardinality({}) = 0
  BY <1>1, Zenon DEF CountFacts, NumberCount, EmptyCount
<1>4. Cardinality((S \ T) \cup T) = Cardinality(S \ T) + Cardinality(T) - Cardinality((S \ T) \cap T)
  BY <1>1, Zenon DEF CountFacts, UnionCount
<1>5. Cardinality((S \ T) \cup T) = Cardinality(S) /\ Cardinality((S \ T) \cap T) = 0
  BY <1>2, <1>3, Zenon
<1> QED BY <1>1, <1>3, <1>4, <1>5

-----------------------------------------------------------------------------
(* The books but for the messages M, which are in no batch.                *)

Pending(q) == {n \in Numbers : n <= q.last /\ q.end[n] = "none"}

Kept(q, M) ==
    /\ Typed(q)
    /\ \A b \in Batches(q) : Open(q, b) \subseteq All(q, b) /\ All(q, b) \subseteq 1 .. q.last
    /\ \A b, d \in Batches(q) : b # d => Open(q, b) \cap Open(q, d) = {}
    /\ \A b \in Batches(q) : Open(q, b) \cap M = {}
    /\ M \subseteq Pending(q)
    /\ \A n \in Pending(q) : n \in M \/ \E b \in Batches(q) : n \in Open(q, b)
    /\ \A b \in Batches(q) : Open(q, b) \subseteq Pending(q)
    /\ \A n \in Numbers : n > q.last => q.end[n] = "none"
    /\ q.unconfirmed = Cardinality(Pending(q) \ M)

LEMMA ResolvedKept ==
    ASSUME CountFacts, NEW q, NEW M, Kept(q, M), NEW S, DOMAIN S \subseteq Batches(q),
           NEW e \in {"processed", "lost"}, NEW z, z = Resolved(q, S, e)
    PROVE  /\ Kept(z, M) /\ Batches(z) = Batches(q) /\ SameBatches(q, z, Batches(q))
           /\ z.last = q.last /\ z.next = q.next /\ z.runs = q.runs
           /\ Unresolved(q, S) \subseteq Pending(q)
           /\ z.end = [n \in Numbers |-> IF n \in Unresolved(q, S) THEN e ELSE q.end[n]]
           /\ \A b \in Batches(q) :
                Open(z, b) = IF b \in DOMAIN S THEN Open(q, b) \ S[b] ELSE Open(q, b)
<1> DEFINE U == Unresolved(q, S)
<1>1. \A n : n \in U <=> \E b \in DOMAIN S : n \in S[b] /\ n \in Open(q, b)
  BY DEF Unresolved, Open
<1>2. U \subseteq Pending(q) \ M
  BY <1>1, Zenon DEF Kept
<1>3. IsFiniteSet(Pending(q) \ M)
  BY NumbersFinite, Zenon DEF Pending
<1>4. /\ Cardinality(U) \in Int
      /\ Cardinality((Pending(q) \ M) \ U) = Cardinality(Pending(q) \ M) - Cardinality(U)
  BY <1>2, <1>3, CountLess
<1>5. Typed(q) /\ e \in Ends
  BY Zenon DEF Kept, Ends
<1>6. /\ Typed(z) /\ Batches(z) = Batches(q) /\ SameBatches(q, z, Batches(q))
      /\ z.last = q.last /\ z.next = q.next /\ z.runs = q.runs
      /\ z.unconfirmed = q.unconfirmed - Cardinality(U)
      /\ z.end = [n \in Numbers |-> IF n \in U THEN e ELSE q.end[n]]
      /\ \A b \in Batches(q) :
            Open(z, b) = IF b \in DOMAIN S THEN Open(q, b) \ S[b] ELSE Open(q, b)
  BY <1>4, <1>5, ResolvedIs
<1>7. \A b \in Batches(q) : Open(z, b) = Open(q, b) \ U
  BY <1>1, <1>6 DEF Kept
<1> HIDE DEF U
<1>8. Pending(z) = Pending(q) \ U
  BY <1>6, Zenon DEF Pending
<1>9. Pending(z) \ M = (Pending(q) \ M) \ U /\ M \subseteq Pending(z)
  BY <1>2, <1>8, Zenon DEF Kept
<1>10. z.unconfirmed = Cardinality(Pending(z) \ M)
  BY <1>4, <1>6, <1>9, Zenon DEF Kept
<1>11. \A n \in Numbers : n > z.last => z.end[n] = "none"
  BY <1>2, <1>6 DEF Kept, Pending, Typed
<1>12. \A b \in Batches(z) : Open(z, b) \subseteq All(z, b) /\ All(z, b) \subseteq 1 .. z.last
  BY <1>6, <1>7 DEF Kept, SameBatches
<1>13. Kept(z, M)
  BY <1>6, <1>7, <1>8, <1>9, <1>10, <1>11, <1>12 DEF Kept
<1> QED BY <1>2, <1>6, <1>13, Zenon DEF U

-----------------------------------------------------------------------------
(* The runs but for those of batch x.                                      *)

Found(q, x) ==
    /\ \A b \in Batches(q) : b # x =>
         \A n \in Open(q, b) : \E r \in q.runs : r.batch = b /\ n \in Span(r)
    /\ \A r \in q.runs : r.batch # x =>
         /\ r.batch \in Batches(q) /\ Span(r) \subseteq All(q, r.batch)
         /\ r.left = Cardinality(Span(r) \cap Open(q, r.batch)) /\ r.left > 0
    /\ \A r, s \in q.runs : r # s /\ r.batch # x /\ s.batch # x => Span(r) \cap Span(s) = {}
    /\ \A r \in q.runs : r.batch # x /\ x \in Batches(q) => Span(r) \cap Open(q, x) = {}

LEMMA SpanIs ==
    ASSUME NEW r \in Run
    PROVE  r.first \in Span(r) /\ Span(r) \subseteq Nat /\ r.first \in Numbers /\ r.count \in Numbers
BY ConfirmerAssumption DEF Run, Span, Numbers

LEMMA RunsOfIs ==
    ASSUME CountFacts, LengthCount, NEW b \in Nat \ {0}, NEW S, S \subseteq Numbers, NEW r \in RunsOf(b, S)
    PROVE  /\ r \in Run /\ r.batch = b /\ Span(r) \subseteq S
           /\ r.left = Cardinality(Span(r)) /\ r.left > 0
           /\ r.first - 1 \notin S /\ r.first + r.count \notin S
           /\ r = [first |-> r.first, count |-> r.count, batch |-> b, left |-> r.count]
<1>1. PICK x \in Numbers \X Numbers :
        /\ x[1] .. x[1] + x[2] - 1 \subseteq S /\ x[1] - 1 \notin S /\ x[1] + x[2] \notin S
        /\ r = [first |-> x[1], count |-> x[2], batch |-> b, left |-> x[2]]
  BY Zenon DEF RunsOf
<1>2. PICK m \in Numbers, k \in Numbers : x[1] = m /\ x[2] = k
  BY Zenon
<1>3. /\ r.first = m /\ r.count = k /\ r.batch = b /\ r.left = k
      /\ r = [first |-> m, count |-> k, batch |-> b, left |-> k]
  BY <1>1, <1>2, Zenon
<1>4. m \in Int /\ k \in Int /\ m >= 1 /\ k >= 1
  BY ConfirmerAssumption DEF Numbers
<1>5. Cardinality(m .. m + k - 1) = k
  BY <1>4 DEF LengthCount
<1>6. r \in Run
  BY <1>3, <1>4, Zenon DEF Run
<1> QED BY <1>1, <1>2, <1>3, <1>4, <1>5, <1>6 DEF Span

LEMMA RunsOfApart ==
    ASSUME CountFacts, LengthCount, NEW b \in Nat \ {0}, NEW S, S \subseteq Numbers,
           NEW r \in RunsOf(b, S), NEW s \in RunsOf(b, S), NEW n \in Span(r), n \in Span(s)
    PROVE  r = s
<1>1. /\ r.first - 1 \notin S /\ r.first + r.count \notin S /\ Span(r) \subseteq S
      /\ s.first - 1 \notin S /\ s.first + s.count \notin S /\ Span(s) \subseteq S
      /\ r = [first |-> r.first, count |-> r.count, batch |-> b, left |-> r.count]
      /\ s = [first |-> s.first, count |-> s.count, batch |-> b, left |-> s.count]
      /\ r \in Run /\ s \in Run
  BY RunsOfIs
<1>2. /\ r.first \in Int /\ r.count \in Int /\ s.first \in Int /\ s.count \in Int
      /\ n \in Int /\ r.first <= n /\ n < r.first + r.count /\ s.first <= n /\ n < s.first + s.count
  BY <1>1, SpanIs, ConfirmerAssumption DEF Numbers, Span
<1>3. r.first = s.first
  BY <1>1, <1>2 DEF Span
<1>4. r.first + r.count = s.first + s.count
  BY <1>1, <1>2 DEF Span
<1>5. r.count = s.count
  BY <1>2, <1>3, <1>4
<1> QED BY <1>1, <1>3, <1>5, Zenon

LEMMA RunsOfCover ==
    ASSUME CountFacts, NEW b, NEW S, S \subseteq Numbers, NEW n \in S
    PROVE  \E r \in RunsOf(b, S) : n \in Span(r)
<1> USE ConfirmerAssumption
<1>1. n \in Nat /\ n >= 1 /\ n <= MaxNumber
  BY DEF Numbers
<1>2. PICK m \in Nat : m <= n /\ m .. n \subseteq S
                       /\ \A k \in Nat : k <= n /\ k .. n \subseteq S => m <= k
  <2> DEFINE D == {k \in Nat : k <= n /\ k .. n \subseteq S}
  <2>1. n \in D
    BY <1>1
  <2>2. PICK m \in D : \A k \in D : m <= k
    BY <2>1, Zenon DEF CountFacts, LeastNumber
  <2> QED BY <2>2, Zenon
<1>3. PICK j \in Nat : n < j /\ j \notin S /\ \A k \in Nat : n < k /\ k \notin S => j <= k
  <2> DEFINE D == {k \in Nat : n < k /\ k \notin S}
  <2>1. MaxNumber + 1 \in D
    BY <1>1 DEF Numbers
  <2>2. PICK j \in D : \A k \in D : j <= k
    BY <2>1, Zenon DEF CountFacts, LeastNumber
  <2> QED BY <2>2, Zenon
<1>4. m \in Numbers
  BY <1>1, <1>2 DEF Numbers
<1>5. j <= MaxNumber + 1
  BY <1>1, <1>3 DEF Numbers
<1>6. m - 1 \notin S
  <2> SUFFICES ASSUME m - 1 \in S PROVE FALSE
    BY Zenon
  <2>1. m - 1 \in Nat /\ m - 1 <= n
    BY <1>1, <1>2 DEF Numbers
  <2>2. (m - 1) .. n \subseteq S
    BY <1>1, <1>2, <2>1
  <2> QED BY <1>2, <2>1, <2>2
<1>7. m .. j - 1 \subseteq S
  BY <1>1, <1>2, <1>3
<1>8. j - m \in Numbers /\ m + (j - m) = j /\ m + (j - m) - 1 = j - 1
  BY <1>1, <1>2, <1>3, <1>4, <1>5 DEF Numbers
<1> DEFINE y == <<m, j - m>>
<1>9. /\ y \in Numbers \X Numbers /\ y[1] = m /\ y[2] = j - m
      /\ y[1] .. y[1] + y[2] - 1 \subseteq S /\ y[1] - 1 \notin S /\ y[1] + y[2] \notin S
  BY <1>3, <1>4, <1>6, <1>7, <1>8, Zenon
<1> DEFINE r == [first |-> y[1], count |-> y[2], batch |-> b, left |-> y[2]]
<1>10. r \in RunsOf(b, S)
  BY <1>9, Zenon DEF RunsOf
<1>11. n \in Span(r)
  BY <1>1, <1>2, <1>3, <1>8 DEF Span
<1> QED BY <1>10, <1>11, Zenon

LEMMA RebuiltIs ==
    ASSUME CountFacts, LengthCount, NEW q, NEW M, Kept(q, M), NEW b \in Batches(q), Found(q, b),
           NEW z, z = Rebuilt(q, b)
    PROVE  /\ Kept(z, M) /\ Found(z, 0) /\ z.batches = q.batches
           /\ z.last = q.last /\ z.next = q.next /\ z.end = q.end
           /\ \A r \in z.runs : (r \in q.runs /\ r.batch # b) \/ Span(r) \subseteq Open(q, b)
<1> DEFINE new == RunsOf(b, q.batches[b].open)
           rest == {r \in q.runs : r.batch # b}
<1>1. b \in Nat \ {0} /\ Open(q, b) \subseteq Numbers /\ IsRecord(q) /\ q.runs \subseteq Run
  BY OpenTyped DEF Kept, Typed
<1>2. \A r \in new : /\ r \in Run /\ r.batch = b /\ Span(r) \subseteq Open(q, b)
                     /\ r.left = Cardinality(Span(r)) /\ r.left > 0 /\ r.first \in Open(q, b)
  BY <1>1, RunsOfIs, SpanIs DEF Open
<1>3. \A r \in rest : r.first \in Span(r) /\ Span(r) \cap Open(q, b) = {}
  BY <1>1, SpanIs, Zenon DEF Found
<1> DEFINE R == {r \in q.runs : r.batch # b /\ r.first \notin {s.first : s \in new}} \cup new
<1>4. R = rest \cup new
  BY <1>2, <1>3, Zenon
<1>5. Rebuilt(q, b) = WithRuns(q, R)
  BY Zenon DEF Rebuilt, WithRuns
<1> HIDE DEF R, new
<1>6. z = Record(q.last, q.next, q.batches, R, q.unconfirmed, q.end)
  BY <1>1, <1>5, WithRunsIs, Zenon
<1>7. /\ IsRecord(z) /\ z.last = q.last /\ z.next = q.next /\ z.batches = q.batches /\ z.runs = rest \cup new
      /\ z.unconfirmed = q.unconfirmed /\ z.end = q.end
  BY <1>4, <1>6, RecordFields, RecordIs
<1>8. Typed(z)
  BY <1>1, <1>2, <1>7, Zenon DEF Kept, Typed, Batches
<1>9. Pending(z) = Pending(q) /\ Batches(z) = Batches(q)
  BY <1>7, Zenon DEF Pending, Batches
<1>10. \A d : Open(z, d) = Open(q, d) /\ All(z, d) = All(q, d)
  BY <1>7, Zenon DEF Open, All
<1>11. Kept(z, M)
  BY <1>7, <1>8, <1>9, <1>10, Zenon DEF Kept
<1>12. Found(z, 0)
  <2>1. ASSUME NEW d \in Batches(z), NEW n \in Open(z, d)
        PROVE  \E r \in z.runs : r.batch = d /\ n \in Span(r)
    <3>1. CASE d = b
      <4>1. \E r \in new : n \in Span(r)
        BY <1>1, <1>10, <3>1, RunsOfCover, Zenon DEF new, Open
      <4> QED BY <1>2, <1>7, <3>1, <4>1, Zenon
    <3>2. CASE d # b
      BY <1>7, <1>9, <1>10, <3>2, Zenon DEF Found
    <3> QED BY <3>1, <3>2, Zenon
  <2>2. ASSUME NEW r \in z.runs
        PROVE  /\ r.batch \in Batches(z) /\ Span(r) \subseteq All(z, r.batch)
               /\ r.left = Cardinality(Span(r) \cap Open(z, r.batch)) /\ r.left > 0
    <3>1. CASE r \in new
      <4>1. Span(r) \cap Open(z, r.batch) = Span(r) /\ Span(r) \subseteq All(z, r.batch)
        BY <1>2, <1>10, <3>1, Zenon DEF Kept
      <4> QED BY <1>2, <1>9, <3>1, <4>1, Zenon
    <3>2. CASE r \in rest
      BY <1>9, <1>10, <3>2, Zenon DEF Found
    <3> QED BY <1>7, <3>1, <3>2, Zenon
  <2>3. ASSUME NEW r \in z.runs, NEW s \in z.runs, r # s
        PROVE  Span(r) \cap Span(s) = {}
    <3>1. CASE r \in rest /\ s \in rest
      BY <2>3, <3>1, Zenon DEF Found
    <3>2. CASE r \in new /\ s \in new
      BY <1>1, <2>3, <3>2, RunsOfApart DEF new, Open
    <3>3. CASE r \in rest /\ s \in new
      BY <1>2, <1>3, <3>3, Zenon
    <3>4. CASE r \in new /\ s \in rest
      BY <1>2, <1>3, <3>4, Zenon
    <3> QED BY <1>7, <3>1, <3>2, <3>3, <3>4, Zenon
  <2>4. 0 \notin Batches(z)
    BY <1>8 DEF Typed
  <2> QED BY <2>1, <2>2, <2>3, <2>4, Zenon DEF Found
<1> QED BY <1>2, <1>7, <1>11, <1>12, Zenon

-----------------------------------------------------------------------------
(* Batches forgotten, and new ones.                                        *)

LEMMA ForgottenIs ==
    ASSUME NEW q, NEW M, Kept(q, M), NEW B, NEW x, Found(q, x),
           x = 0 \/ (x \in B /\ x \in Batches(q) /\ Open(q, x) = {}),
           NEW z, z = Forgotten(q, B)
    PROVE  /\ Kept(z, M) /\ Found(z, 0)
           /\ Batches(z) = {b \in Batches(q) : b \notin B \/ Open(q, b) # {}}
           /\ \A b \in Batches(z) : z.batches[b] = q.batches[b]
           /\ z.last = q.last /\ z.next = q.next /\ z.end = q.end
           /\ z.runs \subseteq q.runs
<1> DEFINE over == {b \in B \cap Batches(q) : q.batches[b].open = {}}
           D == Batches(q) \ over
           F == [d \in D |-> q.batches[d]]
           R == {r \in q.runs : r.batch \notin over}
<1>1. Forgotten(q, B) = WithKept(q, F, R)
  BY Zenon DEF Forgotten, WithKept
<1>2. Typed(q) /\ IsRecord(q)
  BY Zenon DEF Kept, Typed
<1>3. D = {b \in Batches(q) : b \notin B \/ Open(q, b) # {}} /\ D \subseteq Batches(q)
  BY Zenon DEF Open
<1>4. DOMAIN F = D /\ \A d \in D : F[d] = q.batches[d]
  BY Zenon
<1>5. F \in [D -> Batch]
  BY <1>2, Zenon DEF Typed
<1>6. \A r \in R : r \in q.runs /\ r.batch \notin over
  BY Zenon
<1> HIDE DEF F, R
<1>7. z = Record(q.last, q.next, F, R, q.unconfirmed, q.end)
  BY <1>1, <1>2, WithKeptIs, Zenon
<1>8. /\ IsRecord(z) /\ z.last = q.last /\ z.next = q.next /\ z.batches = F /\ z.runs = R
      /\ z.unconfirmed = q.unconfirmed /\ z.end = q.end
  BY <1>7, RecordFields, RecordIs
<1>9. Batches(z) = D /\ Pending(z) = Pending(q)
  BY <1>4, <1>8, Zenon DEF Batches, Pending
<1>10. \A b \in D : z.batches[b] = q.batches[b] /\ Open(z, b) = Open(q, b) /\ All(z, b) = All(q, b)
  BY <1>4, <1>8, Zenon DEF Open, All
<1>11. Typed(z)
  BY <1>2, <1>3, <1>5, <1>6, <1>8, <1>9, Zenon DEF Typed
<1>12. \A b \in Batches(q) : b \notin D => Open(q, b) = {}
  BY Zenon DEF Open
<1>13. Kept(z, M)
  BY <1>3, <1>8, <1>9, <1>10, <1>11, <1>12 DEF Kept
<1>14. Found(z, 0)
  <2>1. x \notin D
    BY <1>2, <1>3 DEF Typed
  <2>2. \A r \in R : r.batch # x
    BY <1>2, <1>6, Zenon DEF Typed, Run, Open
  <2>3. \A r \in R : r \in q.runs /\ r.batch \in Batches(q) /\ r.batch \in D
    BY <1>6, <2>2, Zenon DEF Found
  <2>4. \A b \in D : \A n \in Open(z, b) : \E r \in R : r.batch = b /\ n \in Span(r)
    BY <1>3, <1>10, <2>1 DEF Found, R
  <2>5. \A r \in R : /\ Span(r) \subseteq All(z, r.batch)
                     /\ r.left = Cardinality(Span(r) \cap Open(z, r.batch)) /\ r.left > 0
    BY <1>10, <2>2, <2>3, Zenon DEF Found
  <2>6. \A r, s \in R : r # s => Span(r) \cap Span(s) = {}
    BY <2>2, <2>3, Zenon DEF Found
  <2>7. 0 \notin D
    BY <1>2 DEF Typed
  <2> QED BY <1>8, <1>9, <2>3, <2>4, <2>5, <2>6, <2>7 DEF Found
<1> QED BY <1>3, <1>6, <1>8, <1>9, <1>10, <1>13, <1>14, Zenon

LEMMA WaitsIs ==
    ASSUME CountFacts, LengthCount, NEW q, NEW S, Kept(q, S), Found(q, 0),
           \A r \in q.runs : Span(r) \cap S = {},
           NEW group \in Nat, NEW on \in Conns \cup {None},
           NEW z, z = Waits(q, S, group, on)
    PROVE  /\ Kept(z, {}) /\ Found(z, 0) /\ Batches(z) = Batches(q) \cup {q.next}
           /\ q.next \notin Batches(q)
           /\ \A b \in Batches(q) : z.batches[b] = q.batches[b]
           /\ Open(z, q.next) = S /\ All(z, q.next) = S /\ Group(z, q.next) = group
           /\ z.last = q.last /\ z.next = q.next + 1 /\ z.end = q.end
<1> DEFINE b == q.next
           batch == [all |-> S, open |-> S, group |-> group, written |-> FALSE, on |-> on]
           F == [d \in Batches(q) \cup {b} |-> IF d = b THEN batch ELSE q.batches[d]]
           y == WithNew(q, q.next + 1, F, q.unconfirmed + Cardinality(S))
<1>1. z = Rebuilt(y, b)
  BY Zenon DEF Waits, WithNew
<1>2. Typed(q) /\ IsRecord(q)
  BY Zenon DEF Kept, Typed
<1>3. b \notin Batches(q) /\ b \in Nat \ {0}
  BY <1>2 DEF Typed
<1>4. S \subseteq Numbers /\ S \subseteq Pending(q) /\ S \subseteq 1 .. q.last
  BY DEF Kept, Pending, Numbers
<1>5. batch \in Batch /\ batch.all = S /\ batch.open = S /\ batch.group = group
  BY <1>4, Zenon DEF Batch
<1> HIDE DEF batch
<1>6. DOMAIN F = Batches(q) \cup {b} /\ F[b] = batch /\ \A d \in Batches(q) : F[d] = q.batches[d]
  BY <1>3, Zenon
<1>7. F \in [Batches(q) \cup {b} -> Batch]
  BY <1>2, <1>5, Zenon DEF Typed
<1> HIDE DEF F
<1>8. y = Record(q.last, q.next + 1, F, q.runs, q.unconfirmed + Cardinality(S), q.end)
  BY <1>2, WithNewIs, Zenon
<1> HIDE DEF y
<1>9. /\ IsRecord(y) /\ y.last = q.last /\ y.next = q.next + 1 /\ y.batches = F /\ y.runs = q.runs
      /\ y.unconfirmed = q.unconfirmed + Cardinality(S) /\ y.end = q.end
  BY <1>8, RecordFields, RecordIs
<1>10. Batches(y) = Batches(q) \cup {b} /\ Pending(y) = Pending(q)
  BY <1>6, <1>9, Zenon DEF Batches, Pending
<1>11. /\ Open(y, b) = S /\ All(y, b) = S /\ Group(y, b) = group
       /\ \A d \in Batches(q) : y.batches[d] = q.batches[d] /\ Open(y, d) = Open(q, d) /\ All(y, d) = All(q, d)
  BY <1>5, <1>6, <1>9, Zenon DEF Open, All, Group
<1>12. IsFiniteSet(Pending(q)) /\ IsFiniteSet(S)
  BY <1>4, NumbersFinite, Zenon DEF Pending
<1>13. /\ Cardinality(Pending(q) \ S) = Cardinality(Pending(q)) - Cardinality(S)
       /\ Cardinality(Pending(q)) \in Nat /\ Cardinality(S) \in Nat
  BY <1>4, <1>12, CountLess, Zenon
<1>14. Pending(y) \ {} = Pending(q)
  BY <1>10, Zenon
<1>15. y.unconfirmed = Cardinality(Pending(y) \ {}) /\ y.unconfirmed \in Int
  BY <1>9, <1>13, <1>14 DEF Kept
<1>16. Typed(y)
  BY <1>2, <1>7, <1>9, <1>10, <1>15 DEF Typed
<1>17. \A d, c \in Batches(y) : d # c => Open(y, d) \cap Open(y, c) = {}
  BY <1>10, <1>11 DEF Kept
<1>18. \A d \in Batches(y) : /\ Open(y, d) \subseteq All(y, d) /\ All(y, d) \subseteq 1 .. y.last
                             /\ Open(y, d) \subseteq Pending(y)
  BY <1>4, <1>9, <1>10, <1>11, Zenon DEF Kept
<1>19. \A n \in Pending(y) : \E d \in Batches(y) : n \in Open(y, d)
  BY <1>10, <1>11, Zenon DEF Kept
<1>20. Kept(y, {})
  BY <1>9, <1>10, <1>15, <1>16, <1>17, <1>18, <1>19, Zenon DEF Kept
<1>21. Found(y, b)
  <2>1. \A r \in q.runs : r.batch # 0 /\ r.batch \in Batches(q)
    BY <1>2, Zenon DEF Found, Typed, Run
  <2>2. 0 \notin Batches(q)
    BY <1>2 DEF Typed
  <2> QED BY <1>3, <1>9, <1>10, <1>11, <2>1, <2>2, Zenon DEF Found
<1>22. Kept(z, {}) /\ Found(z, 0) /\ z.batches = y.batches
       /\ z.last = y.last /\ z.next = y.next /\ z.end = y.end
  BY <1>1, <1>10, <1>20, <1>21, RebuiltIs
<1>23. Batches(z) = Batches(y) /\ \A d : Open(z, d) = Open(y, d) /\ All(z, d) = All(y, d) /\ Group(z, d) = Group(y, d)
  BY <1>22, Zenon DEF Batches, Open, All, Group
<1> QED BY <1>3, <1>9, <1>10, <1>11, <1>22, <1>23, Zenon

\* An envelope drawn before the id k could not hold n.
Over(n, k) == \E id \in 1 .. k - 1 : <<n, id>> \in TooLarge

LEMMA OverOn ==
    ASSUME NEW n, NEW k \in Nat, NEW m \in Nat, k <= m, Over(n, k) PROVE Over(n, m)
<1>1. 1 .. k - 1 \subseteq 1 .. m - 1
  OBVIOUS
<1> QED BY <1>1, Zenon DEF Over

\* A message that no batch waits for is given up on.
LEMMA CannotConfirmIs ==
    ASSUME NEW q, NEW n, Kept(q, {n}), Found(q, 0), NEW z, z = CannotConfirm(q, n)
    PROVE  /\ Kept(z, {}) /\ Found(z, 0) /\ z.batches = q.batches
           /\ z.last = q.last /\ z.next = q.next + 1
           /\ z.end = [q.end EXCEPT ![n] = "lost"]
<1> DEFINE e == [q.end EXCEPT ![n] = "lost"]
<1>1. z = WithEnd(q, q.next + 1, e)
  BY Zenon DEF CannotConfirm, WithEnd
<1>2. Typed(q) /\ IsRecord(q) /\ n \in Pending(q) /\ n \in Numbers /\ q.end \in [Numbers -> Ends]
  BY Zenon DEF Kept, Typed, Pending
<1>3. e \in [Numbers -> Ends] /\ e[n] = "lost" /\ \A m \in Numbers : m # n => e[m] = q.end[m]
  BY <1>2, Zenon DEF Ends
<1>4. "lost" # "none"
  OBVIOUS
<1> HIDE DEF e
<1>5. z = Record(q.last, q.next + 1, q.batches, q.runs, q.unconfirmed, e)
  BY <1>1, <1>2, WithEndIs, Zenon
<1>6. /\ IsRecord(z) /\ z.last = q.last /\ z.next = q.next + 1 /\ z.batches = q.batches /\ z.runs = q.runs
      /\ z.unconfirmed = q.unconfirmed /\ z.end = e
  BY <1>5, RecordFields, RecordIs
<1>7. Batches(z) = Batches(q) /\ Pending(z) = Pending(q) \ {n}
  <2>1. \A m \in Numbers : e[m] = "none" <=> q.end[m] = "none" /\ m # n
    BY <1>3, <1>4, Zenon
  <2> QED BY <1>6, <2>1, Zenon DEF Batches, Pending
<1>8. \A d : Open(z, d) = Open(q, d) /\ All(z, d) = All(q, d) /\ Group(z, d) = Group(q, d)
  BY <1>6, Zenon DEF Open, All, Group
<1>9. Typed(z)
  <2>1. z.next \in Nat \ {0} /\ 1 .. q.next - 1 \subseteq 1 .. z.next - 1
    BY <1>2, <1>6 DEF Typed
  <2> QED BY <1>2, <1>3, <1>6, <1>7, <2>1, Zenon DEF Typed
<1>10. z.unconfirmed = Cardinality(Pending(z) \ {})
  <2>1. Pending(z) \ {} = Pending(q) \ {n}
    BY <1>7, Zenon
  <2> QED BY <1>6, <2>1, Zenon DEF Kept
<1>11. \A d \in Batches(z) : /\ Open(z, d) \subseteq All(z, d) /\ All(z, d) \subseteq 1 .. z.last
                             /\ Open(z, d) \subseteq Pending(z)
  BY <1>6, <1>7, <1>8, Zenon DEF Kept
<1>12. \A d, c \in Batches(z) : d # c => Open(z, d) \cap Open(z, c) = {}
  BY <1>7, <1>8, Zenon DEF Kept
<1>13. \A m \in Pending(z) : \E d \in Batches(z) : m \in Open(z, d)
  BY <1>7, <1>8, Zenon DEF Kept
<1>14. \A m \in Numbers : m > z.last => z.end[m] = "none"
  <2>1. \A m \in Numbers : m > q.last => m # n
    BY <1>2 DEF Pending, Numbers, Typed
  <2> QED BY <1>3, <1>6, <2>1, Zenon DEF Kept
<1>15. Kept(z, {})
  BY <1>9, <1>10, <1>11, <1>12, <1>13, <1>14, Zenon DEF Kept
<1>16. Found(z, 0)
  BY <1>6, <1>7, <1>8, Zenon DEF Found
<1> QED BY <1>6, <1>15, <1>16, Zenon DEF e

\* From q to z only messages of S end, too large for an envelope.
TooLargeOnly(q, z, S) ==
    \A n \in Numbers : z.end[n] = q.end[n] \/ (n \in S /\ z.end[n] = "lost" /\ Over(n, z.next))

\* The messages S sent: in a new batch, or the one of them given up on.
AfterSent(q, S, group, z) ==
    /\ Kept(z, {}) /\ Found(z, 0) /\ q.next \notin Batches(q)
    /\ Batches(q) \subseteq Batches(z) /\ Batches(z) \subseteq Batches(q) \cup {q.next}
    /\ \A b \in Batches(q) : z.batches[b] = q.batches[b]
    /\ q.next \in Batches(z) => Open(z, q.next) = S /\ All(z, q.next) = S /\ Group(z, q.next) = group
    /\ z.last = q.last /\ z.next = q.next + 1
    /\ TooLargeOnly(q, z, S)

LEMMA SentIs ==
    ASSUME CountFacts, LengthCount, NEW q, NEW S, Kept(q, S), Found(q, 0),
           \A r \in q.runs : Span(r) \cap S = {},
           NEW group \in Nat, NEW on \in Conns \cup {None},
           NEW z, z = Sent(q, S, group, on)
    PROVE  AfterSent(q, S, group, z)
<1>1. q.next \notin Batches(q) /\ q.next \in Nat \ {0}
  BY DEF Kept, Typed
<1>2. CASE \E n \in S : S = {n} /\ <<n, q.next>> \in TooLarge
  <2>1. PICK n \in S : S = {n} /\ <<n, q.next>> \in TooLarge
    BY <1>2, Zenon
  <2>2. (CHOOSE m \in S : TRUE) = n
    BY <2>1, Zenon
  <2>3. z = CannotConfirm(q, n)
    BY <1>2, <2>2, Zenon DEF Sent
  <2>4. Kept(q, {n})
    BY <2>1, Zenon
  <2>5. /\ Kept(z, {}) /\ Found(z, 0) /\ z.batches = q.batches
        /\ z.last = q.last /\ z.next = q.next + 1 /\ z.end = [q.end EXCEPT ![n] = "lost"]
    BY <2>3, <2>4, CannotConfirmIs, Zenon
  <2>6. Batches(z) = Batches(q)
    BY <2>5, Zenon DEF Batches
  <2>7. Over(n, z.next)
    <3>1. q.next \in 1 .. z.next - 1
      BY <1>1, <2>5
    <3> QED BY <2>1, <3>1, Zenon DEF Over
  <2>8. q.end \in [Numbers -> Ends]
    BY Zenon DEF Kept, Typed
  <2>9. \A m \in Numbers : z.end[m] = q.end[m] \/ (m = n /\ z.end[m] = "lost")
    BY <2>5, <2>8, Zenon
  <2> QED BY <1>1, <2>1, <2>5, <2>6, <2>7, <2>9, Zenon DEF AfterSent, TooLargeOnly
<1>3. CASE ~ \E n \in S : S = {n} /\ <<n, q.next>> \in TooLarge
  <2>1. z = Waits(q, S, group, on)
    BY <1>3, Zenon DEF Sent
  <2>2. /\ Kept(z, {}) /\ Found(z, 0) /\ Batches(z) = Batches(q) \cup {q.next}
        /\ \A b \in Batches(q) : z.batches[b] = q.batches[b]
        /\ Open(z, q.next) = S /\ All(z, q.next) = S /\ Group(z, q.next) = group
        /\ z.last = q.last /\ z.next = q.next + 1 /\ z.end = q.end
    BY <2>1, WaitsIs
  <2> QED BY <1>1, <2>2, Zenon DEF AfterSent, TooLargeOnly
<1> QED BY <1>2, <1>3, Zenon

-----------------------------------------------------------------------------
(* What is sent again.                                                     *)

\* The groups G mark where batches first sent end; a batch is within its own.
Marked(q, G) ==
    \A b \in Batches(q) :
        /\ Group(q, b) \in G
        /\ \A n \in All(q, b) : n <= Group(q, b) /\ \A g \in G : g < n \/ Group(q, b) <= g

Sound(q, G) == Kept(q, {}) /\ Found(q, 0) /\ Marked(q, G)

\* The deadline of the batch that n was first sent in is past.
Late(n) == \E group \in passed : n <= group /\ \A g \in marks : g < n \/ group <= g

\* From q to z only pending messages end, and each for a cause.
EndsOnly(q, z, P, F) ==
    \A n \in Numbers :
        \/ z.end[n] = q.end[n]
        \/ n \in Pending(q) /\ z.end[n] = "processed" /\ n \in P
        \/ n \in Pending(q) /\ z.end[n] = "lost" /\ (n \in F \/ Late(n) \/ Over(n, z.next))

LEMMA MarkedSame ==
    ASSUME NEW q, NEW z, NEW G, Marked(q, G), Batches(z) \subseteq Batches(q), SameBatches(q, z, Batches(z))
    PROVE  Marked(z, G)
BY Zenon DEF Marked, SameBatches

LEMMA TypedFacts ==
    ASSUME NEW q, Typed(q)
    PROVE  /\ IsRecord(q) /\ q.runs \subseteq Run /\ \A r \in q.runs : r.batch \in Nat /\ r.batch # 0
           /\ q.next \in Nat \ {0} /\ Batches(q) \subseteq 1 .. q.next - 1
           /\ 0 \notin Batches(q) /\ q.next \notin Batches(q)
<1>1. /\ IsRecord(q) /\ q.runs \subseteq Run /\ q.next \in Nat \ {0} /\ Batches(q) \subseteq 1 .. q.next - 1
  BY Zenon DEF Typed
<1>2. \A r \in q.runs : r.batch \in Nat /\ r.batch # 0
  BY <1>1, Zenon DEF Run
<1> QED BY <1>1, <1>2

LEMMA FoundFacts ==
    ASSUME NEW q, Typed(q), Found(q, 0)
    PROVE  /\ \A b \in Batches(q) : \A n \in Open(q, b) : \E r \in q.runs : r.batch = b /\ n \in Span(r)
           /\ \A r \in q.runs : /\ r.batch \in Batches(q) /\ Span(r) \subseteq All(q, r.batch)
                                /\ r.left = Cardinality(Span(r) \cap Open(q, r.batch)) /\ r.left > 0
           /\ \A r, s \in q.runs : r # s => Span(r) \cap Span(s) = {}
BY TypedFacts DEF Found

LEMMA FoundBut ==
    ASSUME NEW q, NEW M, Kept(q, M), Found(q, 0), NEW b \in Batches(q), NEW z,
           Batches(z) = Batches(q), SameBatches(q, z, Batches(q)), z.runs = q.runs,
           \A d \in Batches(q) : d # b => Open(z, d) = Open(q, d),
           Open(z, b) \subseteq Open(q, b)
    PROVE  Found(z, b)
<1>1. /\ \A r \in q.runs : r.batch # 0 /\ r.batch \in Batches(q)
      /\ 0 \notin Batches(q)
  <2>1. Typed(q)
    BY Zenon DEF Kept
  <2> QED BY <2>1, TypedFacts, FoundFacts, Zenon
<1>2. \A n \in Open(z, b) : \E r \in q.runs : r.batch = b /\ n \in Span(r)
  BY <1>1, Zenon DEF Found
<1>3. \A r \in q.runs : r.batch # b => Span(r) \cap Open(z, b) = {}
  BY <1>1, <1>2 DEF Found
<1> QED BY <1>1, <1>3, Zenon DEF Found, SameBatches

\* What leaves a batch to go again.
LEMMA MovedIs ==
    ASSUME CountFacts, NEW q, Kept(q, {}), NEW b \in Batches(q), NEW S,
           NEW z, z = Moved(q, b, S)
    PROVE  /\ Kept(z, S \cap Open(q, b)) /\ Batches(z) = Batches(q) /\ SameBatches(q, z, Batches(q))
           /\ z.last = q.last /\ z.next = q.next /\ z.runs = q.runs /\ z.end = q.end
           /\ \A d \in Batches(q) : Open(z, d) = IF d = b THEN Open(q, d) \ S ELSE Open(q, d)
<1> DEFINE F(d) == IF d = b THEN Without(q.batches[d], S) ELSE q.batches[d]
           B == [d \in Batches(q) |-> F(d)]
           M == S \cap q.batches[b].open
           u == q.unconfirmed - Cardinality(M)
<1>1. z = WithOpen(q, B, u)
  BY Zenon DEF WithOpen, Moved
<1>2. Typed(q) /\ IsRecord(q)
  BY Zenon DEF Kept, Typed
<1>3. \A d \in Batches(q) : /\ F(d) \in Batch /\ F(d).all = All(q, d) /\ F(d).group = Group(q, d)
                            /\ F(d).open = IF d = b THEN Open(q, d) \ S ELSE Open(q, d)
  BY <1>2, Zenon DEF Typed, Batch, Without, All, Group, Open
<1>4. B \in [Batches(q) -> Batch]
  BY <1>3, Zenon
<1> HIDE DEF F
<1>5. DOMAIN B = Batches(q) /\ \A d \in Batches(q) : B[d] = F(d)
  BY Zenon
<1>6. M = S \cap Open(q, b) /\ M \subseteq Pending(q)
  BY Zenon DEF Open, Kept
<1> HIDE DEF B, M, u
<1>7. z = Record(q.last, q.next, B, q.runs, u, q.end)
  BY <1>1, <1>2, WithOpenIs, Zenon
<1>8. /\ IsRecord(z) /\ z.last = q.last /\ z.next = q.next /\ z.batches = B /\ z.runs = q.runs
      /\ z.unconfirmed = u /\ z.end = q.end
  BY <1>7, RecordFields, RecordIs
<1>9. Batches(z) = Batches(q) /\ Pending(z) = Pending(q)
  BY <1>5, <1>8, Zenon DEF Batches, Pending
<1>10. \A d \in Batches(q) : /\ All(z, d) = All(q, d) /\ Group(z, d) = Group(q, d)
                             /\ Open(z, d) = IF d = b THEN Open(q, d) \ M ELSE Open(q, d)
  BY <1>3, <1>5, <1>6, <1>8, Zenon DEF All, Group, Open
<1>11. IsFiniteSet(Pending(q)) /\ Pending(q) \ {} = Pending(q)
  BY NumbersFinite, Zenon DEF Pending
<1>12. u = Cardinality(Pending(q) \ M) /\ u \in Int
  <2>1. q.unconfirmed = Cardinality(Pending(q))
    BY <1>11, Zenon DEF Kept
  <2>2. /\ Cardinality(Pending(q) \ M) = Cardinality(Pending(q)) - Cardinality(M)
        /\ Cardinality(Pending(q) \ M) \in Nat
    BY <1>6, <1>11, CountLess, Zenon
  <2> QED BY <2>1, <2>2 DEF u
<1>13. Typed(z)
  BY <1>2, <1>4, <1>8, <1>9, <1>12, Zenon DEF Typed
<1>14. \A d \in Batches(z) : /\ Open(z, d) \subseteq All(z, d) /\ All(z, d) \subseteq 1 .. z.last
                             /\ Open(z, d) \subseteq Pending(z) /\ Open(z, d) \cap M = {}
  BY <1>6, <1>8, <1>9, <1>10 DEF Kept
<1>15. \A d, c \in Batches(z) : d # c => Open(z, d) \cap Open(z, c) = {}
  BY <1>9, <1>10 DEF Kept
<1>16. \A n \in Pending(z) : n \in M \/ \E d \in Batches(z) : n \in Open(z, d)
  BY <1>9, <1>10, Zenon DEF Kept
<1>17. Kept(z, M)
  BY <1>6, <1>8, <1>9, <1>12, <1>13, <1>14, <1>15, <1>16, Zenon DEF Kept
<1> QED BY <1>6, <1>8, <1>9, <1>10, <1>17, Zenon DEF SameBatches

Follows(q, z, P, F) ==
    /\ Sound(z, marks) /\ z.last = q.last /\ z.next \in Nat /\ q.next <= z.next
    /\ EndsOnly(q, z, P, F)

\* No batch of z is without open messages that was not in q.
EmptyBefore(q, z) == \A d \in Batches(z) : Open(z, d) = {} => d \in Batches(q) /\ Open(q, d) = {}

LEMMA SendAgainFollows ==
    ASSUME CountFacts, LengthCount, marks \subseteq Nat, NEW q, Sound(q, marks), NEW b, NEW S,
           NEW on \in Conns \cup {None}, NEW z, z = SendAgain(q, b, S, on)
    PROVE  Follows(q, z, {}, {}) /\ EmptyBefore(q, z)
<1>1. Kept(q, {}) /\ Found(q, 0) /\ Marked(q, marks) /\ Typed(q)
  BY Zenon DEF Sound, Kept
<1>2. q.next \in Nat \ {0} /\ q.next \notin Batches(q) /\ Batches(q) \subseteq 1 .. q.next - 1
  BY <1>1 DEF Typed
<1>3. CASE b \notin Batches(q)
  <2>1. z = q
    BY <1>3, Zenon DEF SendAgain
  <2> QED BY <1>2, <2>1 DEF Follows, EndsOnly, EmptyBefore
<1>4. CASE b \in Batches(q)
  <2> DEFINE moving == S \cap Open(q, b)
             group == Group(q, b)
  <2>1. PICK left, M :
          /\ Kept(left, M) /\ Batches(left) = Batches(q) /\ SameBatches(q, left, Batches(q))
          /\ left.last = q.last /\ left.next = q.next /\ left.runs = q.runs
          /\ \A d \in Batches(q) : Open(left, d) = IF d = b THEN Open(q, d) \ S ELSE Open(q, d)
          /\ EndsOnly(q, left, {}, {})
          /\ group \in passed => M = {}
          /\ group \notin passed => M = moving
          /\ z = IF moving = {} \/ group \in passed
                   THEN Forgotten(Rebuilt(left, b), {b})
                   ELSE Sent(Forgotten(Rebuilt(left, b), {b}), moving, group, on)
    <3>1. CASE group \in passed
      <4> DEFINE T == [d \in {b} |-> S]
                 y == Resolved(q, T, "lost")
      <4>1. DOMAIN T = {b} /\ T[b] = S /\ DOMAIN T \subseteq Batches(q)
        BY <1>4, Zenon
      <4>2. z = Forgotten(Rebuilt(y, b), {b})
        BY <1>4, <3>1, Zenon DEF SendAgain, Group
      <4> HIDE DEF T
      <4>3. Unresolved(q, T) = moving
        BY <4>1, Zenon DEF Unresolved, Open
      <4>4. /\ Kept(y, {}) /\ Batches(y) = Batches(q) /\ SameBatches(q, y, Batches(q))
            /\ y.last = q.last /\ y.next = q.next /\ y.runs = q.runs
            /\ y.end = [n \in Numbers |-> IF n \in moving THEN "lost" ELSE q.end[n]]
            /\ \A d \in Batches(q) :
                 Open(y, d) = IF d \in DOMAIN T THEN Open(q, d) \ T[d] ELSE Open(q, d)
        BY <1>1, <4>1, <4>3, ResolvedKept
      <4> HIDE DEF y
      <4>5. \A d \in Batches(q) : Open(y, d) = IF d = b THEN Open(q, d) \ S ELSE Open(q, d)
        BY <4>1, <4>4, Zenon
      <4>6. \A n \in moving : n \in Pending(q) /\ Late(n)
        BY <1>1, <1>4, <3>1, Zenon DEF Kept, Marked, Late
      <4>7. EndsOnly(q, y, {}, {})
        BY <4>4, <4>6, Zenon DEF EndsOnly
      <4> WITNESS y, {}
      <4> QED BY <3>1, <4>2, <4>4, <4>5, <4>7, Zenon
    <3>2. CASE group \notin passed
      <4> DEFINE y == Moved(q, b, S)
      <4>1. z = IF moving = {} THEN Forgotten(Rebuilt(y, b), {b})
                ELSE Sent(Forgotten(Rebuilt(y, b), {b}), moving, group, on)
        BY <1>4, <3>2, Zenon DEF SendAgain, Group, Open
      <4>2. /\ Kept(y, moving) /\ Batches(y) = Batches(q) /\ SameBatches(q, y, Batches(q))
            /\ y.last = q.last /\ y.next = q.next /\ y.runs = q.runs /\ y.end = q.end
            /\ \A d \in Batches(q) : Open(y, d) = IF d = b THEN Open(q, d) \ S ELSE Open(q, d)
        BY <1>1, <1>4, MovedIs
      <4> HIDE DEF y
      <4>3. EndsOnly(q, y, {}, {})
        BY <4>2, Zenon DEF EndsOnly
      <4> WITNESS y, moving
      <4> QED BY <3>2, <4>1, <4>2, <4>3, Zenon
    <3> QED BY <3>1, <3>2, Zenon
  <2> DEFINE built == Rebuilt(left, b)
             rest == Forgotten(built, {b})
  <2>2. Found(left, b)
    BY <1>1, <1>4, <2>1, FoundBut, Zenon
  <2>3. /\ Kept(built, M) /\ Found(built, 0) /\ built.batches = left.batches
        /\ built.last = left.last /\ built.next = left.next /\ built.end = left.end
        /\ \A r \in built.runs : (r \in left.runs /\ r.batch # b) \/ Span(r) \subseteq Open(left, b)
    BY <1>4, <2>1, <2>2, RebuiltIs, Zenon
  <2> HIDE DEF built
  <2>4. Batches(built) = Batches(q) /\ \A d : built.batches[d] = left.batches[d] /\ Open(built, d) = Open(left, d)
    BY <2>1, <2>3, Zenon DEF Batches, Open
  <2>41. /\ Kept(rest, M) /\ Found(rest, 0)
         /\ Batches(rest) = {d \in Batches(built) : d \notin {b} \/ Open(built, d) # {}}
         /\ \A d \in Batches(rest) : rest.batches[d] = built.batches[d]
         /\ rest.last = built.last /\ rest.next = built.next /\ rest.end = built.end
         /\ rest.runs \subseteq built.runs
    BY <2>3, ForgottenIs, Zenon
  <2> HIDE DEF rest
  <2>5. /\ Kept(rest, M) /\ Found(rest, 0)
        /\ Batches(rest) = {d \in Batches(q) : d \notin {b} \/ Open(left, d) # {}}
        /\ \A d \in Batches(rest) : rest.batches[d] = left.batches[d]
        /\ rest.last = q.last /\ rest.next = q.next /\ rest.end = left.end
        /\ rest.runs \subseteq built.runs
    BY <2>1, <2>3, <2>4, <2>41, Zenon
  <2>6. /\ Batches(rest) \subseteq Batches(q)
        /\ \A d \in Batches(rest) : Open(rest, d) = {} => Open(q, d) = {}
    BY <2>1, <2>5, Zenon DEF Open
  <2>7. SameBatches(q, rest, Batches(rest))
    BY <2>1, <2>5, Zenon DEF SameBatches, All, Group
  <2>8. Marked(rest, marks) /\ EndsOnly(q, rest, {}, {})
    BY <1>1, <2>1, <2>5, <2>6, <2>7, MarkedSame, Zenon DEF EndsOnly
  <2>9. CASE moving = {} \/ group \in passed
    <3>1. z = rest /\ M = {}
      BY <2>1, <2>9, Zenon DEF rest, built
    <3>2. Sound(z, marks)
      BY <2>5, <2>8, <3>1, Zenon DEF Sound
    <3> QED BY <1>2, <2>5, <2>6, <2>8, <3>1, <3>2 DEF Follows, EmptyBefore
  <2>10. CASE ~(moving = {} \/ group \in passed)
    <3>1. z = Sent(rest, moving, group, on) /\ M = moving
      BY <2>1, <2>10, Zenon DEF rest, built
    <3>2. group \in Nat /\ group \in marks
      BY <1>1, <1>4, Zenon DEF Marked
    <3>3. \A r \in rest.runs : Span(r) \cap moving = {}
      <4>1. \A n \in moving : \E s \in q.runs : s.batch = b /\ n \in Span(s)
        BY <1>1, <1>2, <1>4 DEF Found
      <4>2. \A r \in q.runs : r.batch # 0
        BY <1>1, Zenon DEF Typed, Run
      <4>3. \A r \in q.runs : r.batch # b => Span(r) \cap moving = {}
        BY <1>1, <1>2, <1>4, <4>1, <4>2 DEF Found
      <4>4. Open(left, b) \cap moving = {}
        BY <1>4, <2>1, Zenon
      <4> QED BY <2>1, <2>3, <2>5, <4>3, <4>4, Zenon
    <3>4. /\ Kept(z, {}) /\ Found(z, 0)
          /\ Batches(rest) \subseteq Batches(z) /\ Batches(z) \subseteq Batches(rest) \cup {rest.next}
          /\ \A d \in Batches(rest) : z.batches[d] = rest.batches[d]
          /\ rest.next \in Batches(z) => /\ Open(z, rest.next) = moving /\ All(z, rest.next) = moving
                                         /\ Group(z, rest.next) = group
          /\ z.last = rest.last /\ z.next = rest.next + 1 /\ TooLargeOnly(rest, z, moving)
      <4> HIDE DEF moving, group
      <4>1. Kept(rest, moving) /\ Found(rest, 0)
        BY <2>5, <3>1, Zenon
      <4>2. AfterSent(rest, moving, group, z)
        BY <3>1, <3>2, <3>3, <4>1, SentIs, Zenon
      <4> QED BY <4>2, Zenon DEF AfterSent
    <3>5. /\ Kept(z, {}) /\ Found(z, 0)
          /\ Batches(rest) \subseteq Batches(z) /\ Batches(z) \subseteq Batches(rest) \cup {q.next}
          /\ \A d \in Batches(rest) : z.batches[d] = rest.batches[d]
          /\ q.next \in Batches(z) => /\ Open(z, q.next) = moving /\ All(z, q.next) = moving
                                      /\ Group(z, q.next) = group
          /\ z.last = q.last /\ z.next = q.next + 1
      BY <2>5, <3>4, Zenon
    <3>6. \A n \in moving : n \in All(q, b)
      BY <1>1, <1>4, Zenon DEF Kept
    <3>7. \A d \in Batches(rest) : All(z, d) = All(rest, d) /\ Group(z, d) = Group(rest, d) /\ Open(z, d) = Open(rest, d)
      BY <3>5, Zenon DEF All, Group, Open
    <3>8. Marked(z, marks)
      BY <1>1, <1>4, <2>8, <3>5, <3>6, <3>7, Zenon DEF Marked
    <3>9. Sound(z, marks)
      BY <3>5, <3>8, Zenon DEF Sound
    <3>51. q.next \in Nat /\ z.next \in Nat /\ rest.next <= z.next /\ rest.next = q.next
      BY <1>2, <2>5, <3>5
    <3>52. \A n \in moving : n \in Pending(q)
      BY <1>1, <1>4, Zenon DEF Kept
    <3>10. EndsOnly(q, z, {}, {})
      <4>1. \A n : Over(n, rest.next) => Over(n, z.next)
        BY <3>51, OverOn, Zenon
      <4> QED BY <2>8, <3>4, <3>52, <4>1, Zenon DEF EndsOnly, TooLargeOnly
    <3>11. EmptyBefore(q, z)
      BY <2>6, <2>10, <3>5, <3>7, Zenon DEF EmptyBefore
    <3> QED BY <2>6, <3>5, <3>9, <3>10, <3>11, <3>51, Zenon DEF Follows
  <2> QED BY <2>9, <2>10, Zenon
<1> QED BY <1>3, <1>4, Zenon

-----------------------------------------------------------------------------
(* Finite sets in order, and one step after another.                       *)

ImageCount == \A S, f : IsFiniteSet(S) => IsFiniteSet({f[x] : x \in S})

\* A set whose subsets have a last element can be put in order.
LEMMA Enumeration ==
    ASSUME CountFacts, NEW P, IsFiniteSet(P), NEW R,
           \A T \in SUBSET P : T # {} => \E x \in T : \A y \in T : <<y, x>> \in R
    PROVE  \E s \in [1 .. Cardinality(P) -> P] :
              IsInjective(s) /\ \A i, j \in 1 .. Cardinality(P) : i < j => <<s[i], s[j]>> \in R
<1> DEFINE Put(s, n, T) == /\ s \in [1 .. n -> T] /\ IsInjective(s)
                           /\ \A i, j \in 1 .. n : i < j => <<s[i], s[j]>> \in R
           Bad == {n \in Nat : \E T \in SUBSET P : Cardinality(T) = n /\ ~ \E s : Put(s, n, T)}
<1>1. Bad = {}
  <2> SUFFICES ASSUME Bad # {} PROVE FALSE
    BY Zenon
  <2>1. PICK m \in Bad : \A k \in Bad : m <= k
    BY Zenon DEF CountFacts, LeastNumber
  <2>2. PICK T \in SUBSET P : Cardinality(T) = m /\ ~ \E s : Put(s, m, T)
    BY <2>1, Zenon
  <2>3. IsFiniteSet(T) /\ m \in Nat
    BY <2>1, Zenon DEF CountFacts, SubsetCount
  <2>4. CASE m = 0
    <3> DEFINE s == [i \in 1 .. 0 |-> i]
    <3>1. s \in [1 .. 0 -> T] /\ DOMAIN s = 1 .. 0 /\ \A i \in 1 .. 0 : FALSE
      OBVIOUS
    <3> HIDE DEF s
    <3>2. Put(s, 0, T)
      BY <3>1, Zenon DEF IsInjective
    <3> QED BY <2>2, <2>4, <3>2, Zenon
  <2>5. CASE m # 0
    <3>1. T # {}
      BY <2>2, <2>5, Zenon DEF CountFacts, EmptyCount
    <3>2. PICK x \in T : \A y \in T : <<y, x>> \in R
      BY <3>1, Zenon
    <3>3. Cardinality(T \ {x}) = m - 1 /\ m - 1 \in Nat /\ T \ {x} \in SUBSET P
      <4>1. Cardinality(T \ {x}) = Cardinality(T) - 1
        BY <2>3, Zenon DEF CountFacts, RemoveCount
      <4> QED BY <2>2, <2>3, <2>5, <4>1
    <3>4. PICK s : Put(s, m - 1, T \ {x})
      BY <2>1, <2>3, <3>3
    <3> DEFINE t == [i \in 1 .. m |-> IF i = m THEN x ELSE s[i]]
    <3>5. t \in [1 .. m -> T]
      BY <2>3, <3>4
    <3>6. ASSUME NEW i \in 1 .. m, NEW j \in 1 .. m, i < j
          PROVE  <<t[i], t[j]>> \in R /\ t[i] # t[j]
      <4>1. i \in 1 .. m - 1 /\ t[i] = s[i] /\ s[i] \in T \ {x}
        BY <2>3, <3>4, <3>6
      <4>2. CASE j = m
        <5>1. t[j] = x
          BY <4>2, Zenon
        <5> QED BY <3>2, <4>1, <5>1, Zenon
      <4>3. CASE j # m
        <5>1. j \in 1 .. m - 1 /\ t[j] = s[j]
          BY <2>3, <4>3
        <5>2. s[i] # s[j] /\ <<s[i], s[j]>> \in R
          BY <3>4, <3>6, <4>1, <5>1 DEF IsInjective
        <5> QED BY <4>1, <5>1, <5>2, Zenon
      <4> QED BY <4>2, <4>3, Zenon
    <3>7. DOMAIN t = 1 .. m
      BY Zenon
    <3> HIDE DEF t
    <3>8. IsInjective(t)
      <4>1. ASSUME NEW i \in 1 .. m, NEW j \in 1 .. m, t[i] = t[j]
            PROVE  i = j
        <5>1. i \in Int /\ j \in Int
          BY <2>3
        <5>2. CASE i < j
          BY <3>6, <4>1, <5>2, Zenon
        <5>3. CASE j < i
          BY <3>6, <4>1, <5>3, Zenon
        <5> QED BY <5>1, <5>2, <5>3
      <4> QED BY <3>7, <4>1, Zenon DEF IsInjective
    <3>9. Put(t, m, T)
      BY <3>5, <3>6, <3>8, Zenon
    <3> QED BY <2>2, <3>9, Zenon
  <2> QED BY <2>4, <2>5, Zenon
<1>2. Cardinality(P) \in Nat
  BY Zenon DEF CountFacts, NumberCount
<1>3. \E s : Put(s, Cardinality(P), P)
  BY <1>1, <1>2, Zenon
<1> QED BY <1>3, Zenon

LEMMA Greatest ==
    ASSUME CountFacts, NEW N \in Nat, NEW T, T \subseteq 0 .. N, T # {}
    PROVE  \E m \in T : \A k \in T : k <= m
<1> DEFINE D == {N - k : k \in T}
<1>1. D \subseteq Nat /\ D # {}
  <2>1. ASSUME NEW k \in T PROVE N - k \in Nat
    <3>1. k \in 0 .. N
      BY Zenon
    <3> QED BY <3>1
  <2> QED BY <2>1, Zenon
<1>2. PICK d \in D : \A k \in D : d <= k
  BY <1>1, Zenon DEF CountFacts, LeastNumber
<1>3. PICK m \in T : d = N - m
  BY <1>2, Zenon
<1>4. ASSUME NEW k \in T PROVE k <= m
  <2>1. N - k \in D /\ k \in 0 .. N /\ m \in 0 .. N
    BY Zenon
  <2>2. N - m <= N - k
    BY <1>2, <1>3, <2>1, Zenon
  <2> QED BY <2>1, <2>2
<1> QED BY <1>4, Zenon

LEMMA InOrderIs ==
    ASSUME CountFacts, NEW N \in Nat, NEW pieces, IsFiniteSet(pieces),
           \A x \in pieces : x.first \in 0 .. N /\ x.batch \in 0 .. N
    PROVE  InOrder(pieces) \in [1 .. Cardinality(pieces) -> pieces]
<1> DEFINE Before(x, y) == x.first < y.first \/ (x.first = y.first /\ x.batch <= y.batch)
           R == {w \in pieces \X pieces : Before(w[1], w[2])}
<1>1. ASSUME NEW T \in SUBSET pieces, T # {}
      PROVE  \E x \in T : \A y \in T : <<y, x>> \in R
  <2> DEFINE A == {x.first : x \in T}
  <2>1. A \subseteq 0 .. N /\ A # {}
    BY <1>1, Zenon
  <2>2. PICK m \in A : \A k \in A : k <= m
    BY <2>1, Greatest, Zenon
  <2> DEFINE B == {x.batch : x \in {y \in T : y.first = m}}
  <2>3. B \subseteq 0 .. N /\ B # {}
    BY <1>1, <2>2, Zenon
  <2>4. PICK d \in B : \A k \in B : k <= d
    BY <2>3, Greatest, Zenon
  <2>5. PICK x \in T : x.first = m /\ x.batch = d
    BY <2>4, Zenon
  <2>6. ASSUME NEW y \in T PROVE Before(y, x)
    <3>1. y.first <= m /\ y.first \in Int /\ m \in Int
      BY <1>1, <2>1, <2>2
    <3>2. y.first = m => y.batch <= d
      BY <2>4, Zenon
    <3> QED BY <2>5, <3>1, <3>2
  <2> QED BY <2>6, Zenon
<1>2. PICK s \in [1 .. Cardinality(pieces) -> pieces] :
         IsInjective(s) /\ \A i, j \in 1 .. Cardinality(pieces) : i < j => <<s[i], s[j]>> \in R
  BY <1>1, Enumeration, Zenon
<1>3. \A x, y : <<x, y>> \in R => Before(x, y)
  BY Zenon
<1> HIDE DEF R
<1>4. \A i, j \in DOMAIN s : i < j => Before(s[i], s[j])
  BY <1>2, <1>3, Zenon
<1> QED BY <1>2, <1>4, Zenon DEF InOrder
IsRun(f, q, list, n, on) ==
    f = [i \in 0 .. n |-> IF i = 0 THEN q ELSE SendAgain(f[i - 1], list[i].batch, list[i].what, on)]

LEMMA RunExists ==
    ASSUME CountFacts, NEW q, NEW list, NEW n \in Nat, NEW on
    PROVE  \E f : IsRun(f, q, list, n, on)
<1> DEFINE Bad == {m \in Nat : ~ \E f : IsRun(f, q, list, m, on)}
<1> SUFFICES ASSUME Bad # {} PROVE FALSE
  BY Zenon
<1>1. PICK m \in Bad : \A k \in Bad : m <= k
  BY Zenon DEF CountFacts, LeastNumber
<1>2. CASE m = 0
  <2> DEFINE f == [i \in 0 .. 0 |-> q]
  <2>1. IsRun(f, q, list, 0, on)
    BY DEF IsRun
  <2> QED BY <2>1, <1>1, <1>2, Zenon
<1>3. CASE m # 0
  <2>1. m - 1 \in Nat /\ m - 1 \notin Bad
    BY <1>1, <1>3
  <2>2. PICK f : IsRun(f, q, list, m - 1, on)
    BY <2>1, Zenon
  <2> DEFINE g == [i \in 0 .. m |->
                     IF i = m THEN SendAgain(f[m - 1], list[m].batch, list[m].what, on) ELSE f[i]]
  <2>3. IsRun(g, q, list, m, on)
    <3>1. ASSUME NEW i \in 0 .. m
          PROVE  g[i] = IF i = 0 THEN q ELSE SendAgain(g[i - 1], list[i].batch, list[i].what, on)
      BY <2>1, <2>2, <1>1, <1>3 DEF IsRun
    <3>2. g = [i \in 0 .. m |-> g[i]]
      BY Zenon
    <3> HIDE DEF g
    <3> QED BY <3>1, <3>2, Zenon DEF IsRun
  <2> QED BY <2>3, <1>1, Zenon
<1> QED BY <1>2, <1>3, Zenon

LEMMA AllAgainRuns ==
    ASSUME CountFacts, NEW q, NEW pieces, IsFiniteSet(pieces), NEW on
    PROVE  \E f : /\ IsRun(f, q, InOrder(pieces), Cardinality(pieces), on)
                  /\ AllAgain(q, pieces, on) = f[Cardinality(pieces)]
<1> DEFINE n == Cardinality(pieces)
           list == InOrder(pieces)
           run == CHOOSE f : f = [i \in 0 .. n |-> IF i = 0 THEN q
                                    ELSE SendAgain(f[i - 1], list[i].batch, list[i].what, on)]
<1>1. AllAgain(q, pieces, on) = run[n]
  BY Zenon DEF AllAgain
<1>2. n \in Nat
  BY Zenon DEF CountFacts, NumberCount
<1>3. \E f : IsRun(f, q, list, n, on)
  BY <1>2, RunExists, Zenon
<1>4. \E f : f = [i \in 0 .. n |-> IF i = 0 THEN q ELSE SendAgain(f[i - 1], list[i].batch, list[i].what, on)]
  BY <1>3, Zenon DEF IsRun
<1>5. IsRun(run, q, list, n, on)
  BY <1>4, Zenon DEF IsRun
<1> QED BY <1>1, <1>5, Zenon

LEMMA FollowsOn ==
    ASSUME NEW P, NEW F, NEW q, NEW z, NEW y, Follows(q, z, P, F), Follows(z, y, P, F), q.next \in Nat
    PROVE  Follows(q, y, P, F)
<1>1. /\ Sound(y, marks) /\ y.last = q.last /\ y.next \in Nat /\ q.next <= y.next
      /\ \A n : Over(n, z.next) => Over(n, y.next)
  <2>1. q.next <= y.next /\ z.next <= y.next /\ z.next \in Nat /\ y.next \in Nat
    BY DEF Follows
  <2> QED BY <2>1, OverOn, Zenon DEF Follows
<1>2. \A n \in Pending(z) : n \in Pending(q) \/ z.end[n] # q.end[n]
  BY Zenon DEF Follows, Pending
<1>3. \A n \in Numbers : n \in Pending(z) => z.end[n] = q.end[n]
  BY Zenon DEF Follows, EndsOnly, Pending
<1>4. EndsOnly(q, y, P, F)
  BY <1>1, <1>2, <1>3, Zenon DEF Follows, EndsOnly
<1> QED BY <1>1, <1>4, Zenon DEF Follows

LEMMA AllAgainFollows ==
    ASSUME CountFacts, LengthCount, marks \subseteq Nat, NEW q, Sound(q, marks),
           NEW pieces, IsFiniteSet(pieces),
           \A x \in pieces : x.first \in Numbers /\ x.batch \in Batches(q),
           NEW on \in Conns \cup {None}, NEW z, z = AllAgain(q, pieces, on)
    PROVE  Follows(q, z, {}, {}) /\ EmptyBefore(q, z)
<1> DEFINE n == Cardinality(pieces)
           list == InOrder(pieces)
<1>1. Typed(q) /\ q.next \in Nat \ {0} /\ Batches(q) \subseteq 1 .. q.next - 1
  BY Zenon DEF Sound, Kept, Typed
<1>2. n \in Nat
  BY Zenon DEF CountFacts, NumberCount
<1>3. list \in [1 .. n -> pieces]
  <2>1. PICK N \in Nat : MaxNumber <= N /\ q.next <= N
    <3>1. MaxNumber + q.next \in Nat /\ MaxNumber <= MaxNumber + q.next /\ q.next <= MaxNumber + q.next
      BY <1>1, ConfirmerAssumption
    <3> QED BY <3>1, Zenon
  <2>2. \A x \in pieces : x.first \in 0 .. N /\ x.batch \in 0 .. N
    BY <1>1, <2>1, ConfirmerAssumption DEF Numbers
  <2> QED BY <2>2, InOrderIs, Zenon
<1>4. PICK f : IsRun(f, q, list, n, on) /\ z = f[n]
  BY AllAgainRuns, Zenon
<1> HIDE DEF n, list
<1>5. f[0] = q
  BY <1>2, <1>4 DEF IsRun
<1>6. \A i \in 1 .. n : f[i] = SendAgain(f[i - 1], list[i].batch, list[i].what, on)
  BY <1>2, <1>4 DEF IsRun
<1> DEFINE Bad == {i \in Nat : i <= n /\ ~(Follows(q, f[i], {}, {}) /\ EmptyBefore(q, f[i]))}
<1>7. Bad = {}
  <2> SUFFICES ASSUME Bad # {} PROVE FALSE
    BY Zenon
  <2>1. PICK m \in Bad : \A k \in Bad : m <= k
    BY Zenon DEF CountFacts, LeastNumber
  <2>2. CASE m = 0
    <3>1. EndsOnly(q, q, {}, {}) /\ EmptyBefore(q, q)
      BY Zenon DEF EndsOnly, EmptyBefore
    <3>2. q.next <= q.next
      BY <1>1
    <3>3. Follows(q, q, {}, {})
      BY <1>1, <3>1, <3>2, Zenon DEF Follows
    <3> QED BY <1>5, <2>1, <2>2, <3>1, <3>3, Zenon
  <2>3. CASE m # 0
    <3>1. m - 1 \in Nat /\ m - 1 <= n /\ m - 1 \notin Bad /\ m \in 1 .. n
      BY <1>2, <2>1, <2>3
    <3>2. PICK y : y = f[m - 1]
      BY Zenon
    <3>3. Follows(q, y, {}, {}) /\ EmptyBefore(q, y)
      BY <3>1, <3>2, Zenon
    <3>4. PICK b, S : b \in Batches(q) /\ f[m] = SendAgain(y, b, S, on)
      BY <1>3, <1>6, <3>1, <3>2, Zenon
    <3>5. Follows(y, f[m], {}, {}) /\ EmptyBefore(y, f[m])
      <4>1. Sound(y, marks)
        BY <3>3, Zenon DEF Follows
      <4> QED BY <3>4, <4>1, SendAgainFollows, Zenon
    <3>7. Follows(q, f[m], {}, {})
      BY <1>1, <3>3, <3>5, FollowsOn, Zenon
    <3>8. EmptyBefore(q, f[m])
      BY <3>3, <3>5, Zenon DEF EmptyBefore
    <3> QED BY <2>1, <3>7, <3>8, Zenon
  <2> QED BY <2>2, <2>3, Zenon
<1> QED BY <1>2, <1>4, <1>7

-----------------------------------------------------------------------------
(* What the handlers that change more than one batch make of the books.    *)

LEMMA EndsMore ==
    ASSUME NEW q, NEW z, NEW P, NEW F, NEW A, NEW B, EndsOnly(q, z, A, B), A \subseteq P, B \subseteq F
    PROVE  EndsOnly(q, z, P, F)
BY Zenon DEF EndsOnly

LEMMA ListedFollows ==
    ASSUME CountFacts, NEW q, Sound(q, marks), NEW list, NEW e, NEW P, NEW F,
           (e = "processed" /\ list \subseteq P) \/ (e = "lost" /\ list \subseteq F),
           NEW z, z = Listed(q, list, e)
    PROVE  /\ Follows(q, z, P, F) /\ Batches(z) = Batches(q) /\ z.next = q.next
           /\ \A b \in Batches(q) : Open(z, b) \subseteq Open(q, b)
<1> DEFINE N == Named(q, list)
           y == Resolved(q, N, e)
           Told(r) == [r EXCEPT !.left = r.left - Cardinality(Span(r) \cap list \cap q.batches[r.batch].open)]
           R == {s \in {Told(r) : r \in q.runs} : s.left > 0}
<1>1. z = WithRuns(y, R)
  BY Zenon DEF Listed, WithRuns
<1>2. Kept(q, {}) /\ Found(q, 0) /\ Marked(q, marks) /\ Typed(q) /\ q.runs \subseteq Run
      /\ q.next \in Nat \ {0} /\ 0 \notin Batches(q) /\ e \in {"processed", "lost"}
      /\ \A r \in q.runs : r.batch # 0 /\ r.batch \in Batches(q)
  <2>1. Kept(q, {}) /\ Found(q, 0) /\ Marked(q, marks) /\ Typed(q)
    BY Zenon DEF Sound, Kept
  <2> QED BY <2>1, TypedFacts, FoundFacts, Zenon
<1>3. DOMAIN N = Batches(q) /\ \A b \in Batches(q) : N[b] = UNION {Span(r) \cap list : r \in {each \in q.runs : each.batch = b}}
  BY Zenon DEF Named
<1> HIDE DEF N
<1>4. \A b \in Batches(q) : /\ N[b] \subseteq list
                            /\ \A r \in q.runs : r.batch = b => Span(r) \cap list \subseteq N[b]
  BY <1>3
<1>5. /\ Kept(y, {}) /\ Batches(y) = Batches(q) /\ SameBatches(q, y, Batches(q))
      /\ y.last = q.last /\ y.next = q.next /\ y.runs = q.runs
      /\ Unresolved(q, N) \subseteq Pending(q)
      /\ y.end = [n \in Numbers |-> IF n \in Unresolved(q, N) THEN e ELSE q.end[n]]
      /\ \A b \in Batches(q) : Open(y, b) = IF b \in DOMAIN N THEN Open(q, b) \ N[b] ELSE Open(q, b)
  <2>1. DOMAIN N \subseteq Batches(q)
    BY <1>3, Zenon
  <2> QED BY <1>2, <2>1, ResolvedKept
<1> HIDE DEF y
<1>6. Unresolved(q, N) \subseteq list
  BY <1>3, <1>4, Zenon DEF Unresolved
<1>7. EndsOnly(q, y, P, F)
  BY <1>5, <1>6, Zenon DEF EndsOnly
<1>8. ASSUME NEW r \in q.runs
      PROVE  /\ Told(r) \in Run /\ Told(r).batch = r.batch /\ Span(Told(r)) = Span(r)
             /\ Told(r).left = Cardinality(Span(r) \cap Open(y, r.batch))
  <2> DEFINE A == Span(r) \cap Open(q, r.batch)
             B == Span(r) \cap list \cap q.batches[r.batch].open
  <2>1. r.batch \in Batches(q) /\ r \in Run /\ r.left = Cardinality(A)
    BY <1>2, Zenon DEF Found
  <2>2. B \subseteq A /\ A \subseteq Numbers /\ Span(r) \cap Open(y, r.batch) = A \ B
    BY <1>2, <1>3, <1>4, <1>5, <2>1, OpenTyped, Zenon DEF Open
  <2>3. /\ Cardinality(A \ B) = Cardinality(A) - Cardinality(B)
        /\ Cardinality(B) \in Nat /\ Cardinality(A) \in Nat
    BY <2>2, NumbersFinite, CountLess, Zenon
  <2> HIDE DEF A, B
  <2>4. PICK k \in Nat : k = Cardinality(B)
    BY <2>3, Zenon
  <2>5. Told(r) = [r EXCEPT !.left = r.left - k]
    BY <2>4, Zenon DEF B
  <2>6. /\ Told(r) \in Run /\ Told(r).batch = r.batch /\ Told(r).first = r.first /\ Told(r).count = r.count
        /\ Told(r).left = r.left - k
    BY <2>1, <2>5 DEF Run
  <2> HIDE DEF Told
  <2>7. Span(Told(r)) = Span(r)
    BY <2>6, Zenon DEF Span
  <2> QED BY <2>1, <2>2, <2>3, <2>4, <2>6, <2>7, Zenon
<1> HIDE DEF Told
<1>9. \A s \in R : \E r \in q.runs : s = Told(r)
  BY Zenon
<1>10. \A s \in R : s \in Run /\ s.left > 0
  BY <1>8, Zenon
<1>11. \A r \in q.runs : Told(r).left > 0 => Told(r) \in R
  BY Zenon
<1> HIDE DEF R
<1>12. Typed(y) /\ IsRecord(y)
  BY <1>5, Zenon DEF Kept, Typed
<1>13. z = Record(y.last, y.next, y.batches, R, y.unconfirmed, y.end)
  BY <1>1, <1>12, WithRunsIs, Zenon
<1>14. /\ IsRecord(z) /\ z.last = q.last /\ z.next = q.next /\ z.batches = y.batches /\ z.runs = R
       /\ z.unconfirmed = y.unconfirmed /\ z.end = y.end
  <2>1. /\ IsRecord(z) /\ z.last = y.last /\ z.next = y.next /\ z.batches = y.batches /\ z.runs = R
        /\ z.unconfirmed = y.unconfirmed /\ z.end = y.end
    BY <1>13, RecordFields, RecordIs
  <2> QED BY <1>5, <2>1, Zenon
<1>15. Batches(z) = Batches(q) /\ Pending(z) = Pending(y)
  BY <1>5, <1>14, Zenon DEF Batches, Pending
<1>16. \A d : Open(z, d) = Open(y, d) /\ All(z, d) = All(y, d) /\ Group(z, d) = Group(y, d)
  BY <1>14, Zenon DEF Open, All, Group
<1>17. Typed(z)
  BY <1>5, <1>10, <1>12, <1>14, <1>15, Zenon DEF Typed, Batches
<1>18. Kept(z, {})
  BY <1>5, <1>14, <1>15, <1>16, <1>17, Zenon DEF Kept
<1>19. Marked(z, marks)
  BY <1>2, <1>5, <1>15, <1>16, MarkedSame DEF SameBatches
<1>20. Found(z, 0)
  <2>1. ASSUME NEW d \in Batches(z), NEW n \in Open(z, d)
        PROVE  \E s \in z.runs : s.batch = d /\ n \in Span(s)
    <3>1. n \in Open(q, d) /\ d \in Batches(q) /\ d # 0 /\ n \in Open(y, d)
      BY <1>2, <1>5, <1>15, <1>16, Zenon
    <3>2. PICK r \in q.runs : r.batch = d /\ n \in Span(r)
      BY <1>2, <3>1, Zenon DEF Found
    <3>3. IsFiniteSet(Span(r) \cap Open(y, d)) /\ Span(r) \cap Open(y, d) # {}
      BY <1>5, <1>12, <3>1, <3>2, OpenTyped, NumbersFinite, Zenon
    <3>4. Cardinality(Span(r) \cap Open(y, d)) > 0
      BY <3>3 DEF CountFacts, EmptyCount, NumberCount
    <3> QED BY <1>8, <1>11, <1>14, <3>2, <3>4, Zenon
  <2>2. ASSUME NEW s \in z.runs
        PROVE  /\ s.batch \in Batches(z) /\ Span(s) \subseteq All(z, s.batch)
               /\ s.left = Cardinality(Span(s) \cap Open(z, s.batch)) /\ s.left > 0
    <3>1. PICK r \in q.runs : s = Told(r)
      BY <1>9, <1>14, Zenon
    <3>2. r.batch \in Batches(q) /\ Span(r) \subseteq All(q, r.batch)
      BY <1>2, Zenon DEF Found
    <3>3. All(z, r.batch) = All(q, r.batch)
      BY <1>5, <1>16, <3>2, Zenon DEF SameBatches
    <3> QED BY <1>8, <1>10, <1>14, <1>15, <1>16, <3>1, <3>2, <3>3, Zenon
  <2>3. ASSUME NEW s \in z.runs, NEW t \in z.runs, s # t
        PROVE  Span(s) \cap Span(t) = {}
    <3>1. PICK r \in q.runs : s = Told(r)
      BY <1>9, <1>14, Zenon
    <3>2. PICK o \in q.runs : t = Told(o)
      BY <1>9, <1>14, Zenon
    <3>3. r # o
      BY <2>3, <3>1, <3>2, Zenon
    <3>4. Span(r) \cap Span(o) = {}
      BY <1>2, <3>3, Zenon DEF Found
    <3> QED BY <1>8, <3>1, <3>2, <3>4, Zenon
  <2> QED BY <1>2, <1>15, <2>1, <2>2, <2>3, Zenon DEF Found
<1>21. EndsOnly(q, z, P, F)
  BY <1>5, <1>7, <1>14, Zenon DEF EndsOnly
<1>23. Sound(z, marks)
  BY <1>18, <1>19, <1>20, Zenon DEF Sound
<1>24. q.next <= z.next /\ z.next \in Nat
  BY <1>2, <1>14
<1>25. Follows(q, z, P, F)
  BY <1>14, <1>21, <1>23, <1>24, Zenon DEF Follows
<1>26. \A b \in Batches(q) : Open(z, b) \subseteq Open(q, b)
  BY <1>5, <1>16, Zenon
<1> QED BY <1>14, <1>15, <1>25, <1>26, Zenon

LEMMA MinIs ==
    ASSUME CountFacts, NEW S, S \subseteq Nat, S # {}
    PROVE  Min(S) \in S /\ \A k \in S : Min(S) <= k
<1>1. \E m \in S : \A k \in S : m <= k
  BY Zenon DEF CountFacts, LeastNumber
<1> QED BY <1>1, Zenon DEF Min

LEMMA RunsFinite ==
    ASSUME CountFacts, ImageCount, NEW q, Sound(q, marks)
    PROVE  /\ IsFiniteSet(q.runs)
           /\ \A r, s \in q.runs : r.first = s.first => r = s
<1>1. q.runs \subseteq Run /\ Found(q, 0) /\ \A r \in q.runs : r.batch # 0 /\ r.first \in Span(r) /\ r.first \in Numbers
  BY SpanIs, Zenon DEF Sound, Kept, Typed, Run
<1>2. \A r, s \in q.runs : r.first = s.first => r = s
  BY <1>1, Zenon DEF Found
<1> DEFINE K == {r.first : r \in q.runs}
           f == [k \in K |-> CHOOSE r \in q.runs : r.first = k]
<1>3. IsFiniteSet(K)
  BY <1>1, NumbersFinite, Zenon
<1>4. \A r \in q.runs : r.first \in K /\ f[r.first] = r
  BY <1>2, Zenon
<1>5. \A k \in K : f[k] \in q.runs
  BY Zenon
<1>6. q.runs = {f[k] : k \in K}
  <2> HIDE DEF f, K
  <2>1. \A r \in q.runs : r \in {f[k] : k \in K}
    BY <1>4, Zenon
  <2>2. \A r \in {f[k] : k \in K} : r \in q.runs
    BY <1>5, Zenon
  <2> QED BY <2>1, <2>2, Zenon
<1> HIDE DEF f, K
<1>7. IsFiniteSet({f[k] : k \in K})
  BY <1>3, Zenon DEF ImageCount
<1> QED BY <1>2, <1>6, <1>7, Zenon

LEMMA RefusedIs ==
    ASSUME CountFacts, ImageCount, NEW q, Sound(q, marks), NEW list
    PROVE  /\ IsFiniteSet(Refused(q, list))
           /\ \A x \in Refused(q, list) : x.first \in Numbers /\ x.batch \in Batches(q)
<1> DEFINE named == {r \in q.runs : Span(r) \cap list # {}}
           together(r, s) == \A t \in named : \/ t.batch = r.batch
                                              \/ t.first < r.first /\ t.first < s.first
                                              \/ r.first < t.first /\ s.first < t.first
           what(r) == UNION {Span(s) \cap list : s \in {t \in named : t.batch = r.batch /\ together(r, t)}}
           piece(r) == [first |-> Min(what(r)), batch |-> r.batch, what |-> what(r)]
<1>1. Refused(q, list) = {piece(r) : r \in named}
  BY Zenon DEF Refused
<1>2. IsFiniteSet(named)
  <2>1. IsFiniteSet(q.runs) /\ named \subseteq q.runs
    BY RunsFinite, Zenon
  <2> QED BY <2>1, Zenon DEF CountFacts, SubsetCount
<1>3. IsFiniteSet({piece(r) : r \in named})
  <2> DEFINE g == [r \in named |-> piece(r)]
  <2>1. {piece(r) : r \in named} = {g[r] : r \in named}
    BY Zenon
  <2> HIDE DEF g
  <2>2. IsFiniteSet({g[r] : r \in named})
    BY <1>2, Zenon DEF ImageCount
  <2> QED BY <2>1, <2>2, Zenon
<1>4. /\ q.runs \subseteq Run /\ Found(q, 0) /\ Typed(q)
      /\ \A r \in q.runs : r.batch # 0 /\ r.batch \in Batches(q) /\ r.first \in Nat
                           /\ Span(r) \subseteq All(q, r.batch)
  <2>1. Found(q, 0) /\ Typed(q)
    BY Zenon DEF Sound, Kept
  <2>2. \A r \in q.runs : r.first \in Nat
    BY <2>1, TypedFacts, ConfirmerAssumption DEF Run, Numbers
  <2> QED BY <2>1, <2>2, TypedFacts, FoundFacts, Zenon
<1>5. ASSUME NEW r \in named PROVE Min(what(r)) \in Numbers
  <2>1. together(r, r)
    <3>1. ASSUME NEW t \in named, t.batch # r.batch
          PROVE  t.first < r.first \/ r.first < t.first
      <4>1. t.first # r.first
        BY <3>1, RunsFinite, Zenon
      <4>2. t.first \in Nat /\ r.first \in Nat
        BY <1>4, Zenon
      <4> QED BY <4>1, <4>2
    <3> QED BY <3>1, Zenon
  <2>2. Span(r) \cap list \subseteq what(r)
    BY <2>1, Zenon
  <2>3. \A n \in what(r) : \E s \in q.runs : n \in Span(s)
    BY Zenon
  <2>4. what(r) \subseteq Numbers
    BY <1>4, <2>3, OpenTyped, Zenon
  <2>5. what(r) # {}
    BY <2>2, Zenon
  <2> HIDE DEF what
  <2>6. what(r) \subseteq Nat
    BY <2>4, ConfirmerAssumption DEF Numbers
  <2> QED BY <2>4, <2>5, <2>6, MinIs, Zenon
<1>6. \A r \in named : piece(r).first \in Numbers /\ piece(r).batch \in Batches(q)
  BY <1>4, <1>5, Zenon
<1> HIDE DEF piece
<1> QED BY <1>1, <1>3, <1>6, Zenon
\* Every batch has messages left to wait for.
Full(q) == \A b \in Batches(q) : Open(q, b) # {}

LEMMA ConfirmedFollows ==
    ASSUME CountFacts, LengthCount, ImageCount, marks \subseteq Nat, NEW q, Sound(q, marks), Full(q),
           NEW c, NEW on \in Conns \cup {None}, NEW z, z = Confirmed(q, c, on)
    PROVE  Follows(q, z, c.processed, c.failed) /\ Full(z)
<1> DEFINE P == c.processed
           F == c.failed
           first == Listed(q, P, "processed")
           told == Listed(first, F, "lost")
           again == AllAgain(told, Refused(told, c.refused), on)
           heard == {b \in Batches(q) : told.batches[b].open # q.batches[b].open}
<1>1. z = Forgotten(again, heard)
  BY Zenon DEF Confirmed
<1>2. q.next \in Nat \ {0} /\ Batches(q) \subseteq 1 .. q.next - 1
  BY Zenon DEF Sound, Kept, Typed
<1>3. /\ Follows(q, first, P, F) /\ Batches(first) = Batches(q) /\ first.next = q.next
      /\ \A b \in Batches(q) : Open(first, b) \subseteq Open(q, b)
  <2>1. PICK e : e = "processed"
    BY Zenon
  <2>2. (e = "processed" /\ P \subseteq P) \/ (e = "lost" /\ P \subseteq F)
    BY <2>1, Zenon
  <2>3. first = Listed(q, P, e)
    BY <2>1, Zenon
  <2> HIDE DEF first, P, F
  <2> QED BY <2>2, <2>3, ListedFollows, Zenon
<1> HIDE DEF first
<1>4. /\ Follows(first, told, P, F) /\ Batches(told) = Batches(first) /\ told.next = first.next
      /\ \A b \in Batches(first) : Open(told, b) \subseteq Open(first, b)
  <2>1. Sound(first, marks)
    BY <1>3, Zenon DEF Follows
  <2>2. PICK e : e = "lost"
    BY Zenon
  <2>3. (e = "processed" /\ F \subseteq P) \/ (e = "lost" /\ F \subseteq F)
    BY <2>2, Zenon
  <2>4. told = Listed(first, F, e)
    BY <2>2, Zenon
  <2> HIDE DEF told, P, F
  <2> QED BY <2>1, <2>3, <2>4, ListedFollows, Zenon
<1>5. heard = {b \in Batches(q) : Open(told, b) # Open(q, b)}
  BY Zenon DEF Open
<1> HIDE DEF told, heard
<1>6. Follows(q, told, P, F)
  BY <1>2, <1>3, <1>4, FollowsOn, Zenon
<1>7. Follows(told, again, {}, {}) /\ EmptyBefore(told, again)
  <2>1. Sound(told, marks)
    BY <1>6, Zenon DEF Follows
  <2>2. /\ IsFiniteSet(Refused(told, c.refused))
        /\ \A x \in Refused(told, c.refused) : x.first \in Numbers /\ x.batch \in Batches(told)
    BY <2>1, RefusedIs, Zenon
  <2> QED BY <2>1, <2>2, AllAgainFollows, Zenon
<1> HIDE DEF again
<1>8. Follows(q, again, P, F)
  <2>1. EndsOnly(told, again, P, F)
    <3>1. EndsOnly(told, again, {}, {})
      BY <1>7, Zenon DEF Follows
    <3> QED BY <3>1, EndsMore, Zenon
  <2>2. Follows(told, again, P, F)
    BY <1>7, <2>1, Zenon DEF Follows
  <2> QED BY <1>2, <1>6, <2>2, FollowsOn, Zenon
<1>9. Kept(again, {}) /\ Found(again, 0) /\ Marked(again, marks)
  BY <1>8, Zenon DEF Follows, Sound
<1>10. /\ Kept(z, {}) /\ Found(z, 0)
       /\ Batches(z) = {b \in Batches(again) : b \notin heard \/ Open(again, b) # {}}
       /\ \A b \in Batches(z) : z.batches[b] = again.batches[b]
       /\ z.last = again.last /\ z.next = again.next /\ z.end = again.end
  <2>1. PICK y, h, M, x : y = again /\ h = heard /\ M = {} /\ x = 0
    BY Zenon
  <2>2. Kept(y, M) /\ Found(y, x) /\ (x = 0 \/ (x \in h /\ x \in Batches(y) /\ Open(y, x) = {}))
    BY <1>9, <2>1, Zenon
  <2>3. z = Forgotten(y, h)
    BY <1>1, <2>1, Zenon
  <2>4. /\ Kept(z, M) /\ Found(z, 0)
        /\ Batches(z) = {b \in Batches(y) : b \notin h \/ Open(y, b) # {}}
        /\ \A b \in Batches(z) : z.batches[b] = y.batches[b]
        /\ z.last = y.last /\ z.next = y.next /\ z.end = y.end
    BY ONLY <2>2, <2>3, ForgottenIs
  <2> QED BY <2>1, <2>4, Zenon
<1>11. SameBatches(again, z, Batches(z)) /\ \A b \in Batches(z) : Open(z, b) = Open(again, b)
  BY <1>10, Zenon DEF SameBatches, All, Group, Open
<1>12. Sound(z, marks)
  BY <1>9, <1>10, <1>11, MarkedSame, Zenon DEF Sound
<1>14. EndsOnly(q, z, P, F)
  BY <1>8, <1>10, Zenon DEF Follows, EndsOnly
<1>15. Follows(q, z, P, F)
  BY <1>8, <1>10, <1>12, <1>14, Zenon DEF Follows
<1>16. Full(z)
  <2> SUFFICES ASSUME NEW d \in Batches(z), Open(z, d) = {} PROVE FALSE
    BY Zenon DEF Full
  <2>1. d \in Batches(again) /\ Open(again, d) = {} /\ d \notin heard
    BY <1>10, <1>11, Zenon
  <2>2. d \in Batches(q) /\ Open(told, d) = {}
    BY <1>3, <1>4, <1>7, <2>1, Zenon DEF EmptyBefore
  <2> QED BY <1>5, <2>1, <2>2, Zenon DEF Full
<1> QED BY <1>15, <1>16, Zenon

LEMMA GivenUpFollows ==
    ASSUME CountFacts, marks \subseteq Nat, NEW q, Sound(q, marks), Full(q),
           NEW b \in Batches(q), Group(q, b) \in passed, NEW z, z = GivenUp(q, b)
    PROVE  Follows(q, z, {}, {}) /\ Full(z) /\ z.next = q.next
<1> DEFINE S == [d \in {b} |-> q.batches[b].all]
           y == Resolved(q, S, "lost")
<1>1. z = Forgotten(y, {b})
  BY Zenon DEF GivenUp
<1>2. DOMAIN S = {b} /\ S[b] = All(q, b) /\ DOMAIN S \subseteq Batches(q)
  BY Zenon DEF All
<1>3. /\ Kept(q, {}) /\ Found(q, 0) /\ Marked(q, marks) /\ q.next \in Nat
      /\ Open(q, b) \subseteq All(q, b)
  BY DEF Sound, Kept, Typed
<1> HIDE DEF S
<1>4. /\ Kept(y, {}) /\ Batches(y) = Batches(q) /\ SameBatches(q, y, Batches(q))
      /\ y.last = q.last /\ y.next = q.next /\ y.runs = q.runs
      /\ Unresolved(q, S) \subseteq Pending(q)
      /\ y.end = [n \in Numbers |-> IF n \in Unresolved(q, S) THEN "lost" ELSE q.end[n]]
      /\ \A d \in Batches(q) : Open(y, d) = IF d \in DOMAIN S THEN Open(q, d) \ S[d] ELSE Open(q, d)
  BY <1>2, <1>3, ResolvedKept
<1> HIDE DEF y
<1>5. Open(y, b) = {} /\ \A d \in Batches(q) : d # b => Open(y, d) = Open(q, d)
  BY <1>2, <1>3, <1>4
<1>6. Found(y, b)
  BY <1>3, <1>4, <1>5, FoundBut, Zenon
<1>7. /\ Kept(z, {}) /\ Found(z, 0)
      /\ Batches(z) = {d \in Batches(y) : d \notin {b} \/ Open(y, d) # {}}
      /\ \A d \in Batches(z) : z.batches[d] = y.batches[d]
      /\ z.last = y.last /\ z.next = y.next /\ z.end = y.end
  BY <1>1, <1>4, <1>5, <1>6, ForgottenIs
<1>8. /\ Batches(z) \subseteq Batches(q) /\ b \notin Batches(z)
      /\ \A d \in Batches(z) : All(z, d) = All(y, d) /\ Group(z, d) = Group(y, d) /\ Open(z, d) = Open(y, d)
  BY <1>4, <1>5, <1>7, Zenon DEF All, Group, Open
<1>9. Sound(z, marks)
  <2>1. SameBatches(q, z, Batches(z))
    BY <1>4, <1>8, Zenon DEF SameBatches
  <2> QED BY <1>3, <1>7, <1>8, <2>1, MarkedSame, Zenon DEF Sound
<1>10. \A n \in Unresolved(q, S) : Late(n)
  <2>1. \A n \in Unresolved(q, S) : n \in All(q, b)
    BY <1>2 DEF Unresolved
  <2> QED BY <1>3, <2>1, Zenon DEF Marked, Late
<1>11. EndsOnly(q, z, {}, {})
  BY <1>4, <1>7, <1>10 DEF EndsOnly
<1>12. Full(z)
  BY <1>5, <1>8, Zenon DEF Full
<1> QED BY <1>3, <1>4, <1>7, <1>9, <1>11, <1>12 DEF Follows

\* Where a batch is and whether it was written is no part of the books.
LEMMA RelabelledSound ==
    ASSUME NEW q, NEW G, Sound(q, G), NEW B \in [Batches(q) -> Batch],
           \A d \in Batches(q) : /\ B[d].all = All(q, d) /\ B[d].open = Open(q, d)
                                 /\ B[d].group = Group(q, d),
           NEW z, z = WithBatches(q, B)
    PROVE  /\ Sound(z, G) /\ Batches(z) = Batches(q) /\ z.last = q.last /\ z.next = q.next /\ z.end = q.end
           /\ \A d \in Batches(q) : Open(z, d) = Open(q, d)
<1>1. Kept(q, {}) /\ Found(q, 0) /\ Marked(q, G) /\ Typed(q) /\ IsRecord(q)
  BY Zenon DEF Sound, Kept, Typed
<1>2. z = Record(q.last, q.next, B, q.runs, q.unconfirmed, q.end)
  BY <1>1, WithBatchesIs, Zenon
<1>3. /\ IsRecord(z) /\ z.last = q.last /\ z.next = q.next /\ z.batches = B /\ z.runs = q.runs
      /\ z.unconfirmed = q.unconfirmed /\ z.end = q.end
  BY <1>2, RecordFields, RecordIs
<1>4. Batches(z) = Batches(q) /\ Pending(z) = Pending(q)
  BY <1>3, Zenon DEF Batches, Pending
<1>5. \A d \in Batches(q) : Open(z, d) = Open(q, d) /\ All(z, d) = All(q, d) /\ Group(z, d) = Group(q, d)
  BY <1>3, Zenon DEF Open, All, Group
<1>6. Typed(z)
  BY <1>1, <1>3, <1>4, Zenon DEF Typed
<1>7. Kept(z, {})
  BY <1>1, <1>3, <1>4, <1>5, <1>6, Zenon DEF Kept
<1>8. Found(z, 0)
  <2>1. \A r \in q.runs : r.batch # 0 /\ r.batch \in Batches(q)
    BY <1>1, TypedFacts, FoundFacts, Zenon
  <2>2. 0 \notin Batches(q)
    BY <1>1, TypedFacts, Zenon
  <2> QED BY <1>1, <1>3, <1>4, <1>5, <2>1, <2>2, ZenonT(40) DEF Found
<1>9. Marked(z, G)
  BY <1>1, <1>4, <1>5 DEF Marked
<1> QED BY <1>3, <1>4, <1>5, <1>7, <1>8, <1>9, Zenon DEF Sound
LEMMA ClosedFollows ==
    ASSUME CountFacts, LengthCount, ImageCount, marks \subseteq Nat, NEW q, Sound(q, marks), Full(q),
           NEW c, NEW sent, NEW on \in Conns \cup {None}, NEW z, z = Closed(q, c, sent, on)
    PROVE  Follows(q, z, {}, {}) /\ Full(z)
<1> DEFINE there == {b \in Batches(q) : q.batches[b].on = c}
           B == [b \in Batches(q) |-> IF b \in there THEN Unplaced(q.batches[b]) ELSE q.batches[b]]
           y == WithBatches(q, B)
           gone == {d \in there : d \in sent \/ q.batches[d].written}
           piece(b) == [first |-> Min(q.batches[b].all), batch |-> b, what |-> q.batches[b].open]
           pieces == {piece(b) : b \in gone}
<1>1. z = AllAgain(y, pieces, on)
  BY Zenon DEF Closed, WithBatches
<1>2. Typed(q) /\ q.batches \in [Batches(q) -> Batch] /\ q.next \in Nat /\ Batches(q) \subseteq 1 .. q.next - 1
  BY Zenon DEF Sound, Kept, Typed
<1>3. \A d \in Batches(q) : /\ B[d] \in Batch /\ B[d].all = All(q, d) /\ B[d].open = Open(q, d)
                            /\ B[d].group = Group(q, d)
  <2> SUFFICES ASSUME NEW d \in Batches(q)
               PROVE  /\ B[d] \in Batch /\ B[d].all = All(q, d) /\ B[d].open = Open(q, d)
                      /\ B[d].group = Group(q, d)
    BY Zenon
  <2>1. q.batches[d] \in Batch
    BY <1>2, Zenon
  <2>2. /\ Unplaced(q.batches[d]) \in Batch /\ Unplaced(q.batches[d]).all = All(q, d)
        /\ Unplaced(q.batches[d]).open = Open(q, d) /\ Unplaced(q.batches[d]).group = Group(q, d)
    BY <2>1, Zenon DEF Unplaced, Batch, All, Open, Group
  <2> HIDE DEF there
  <2>3. B[d] = Unplaced(q.batches[d]) \/ B[d] = q.batches[d]
    BY Zenon
  <2> QED BY <2>1, <2>2, <2>3, Zenon DEF All, Open, Group
<1>4. B \in [Batches(q) -> Batch]
  BY <1>3, Zenon
<1> HIDE DEF B
<1>5. /\ Sound(y, marks) /\ Batches(y) = Batches(q) /\ y.last = q.last /\ y.next = q.next /\ y.end = q.end
      /\ \A d \in Batches(q) : Open(y, d) = Open(q, d)
  BY <1>3, <1>4, RelabelledSound, Zenon
<1> HIDE DEF y
<1>6. IsFiniteSet(pieces)
  <2>1. IsFiniteSet(gone)
    <3>1. gone \subseteq 1 .. q.next - 1
      BY <1>2, Zenon
    <3>0. 1 \in Int /\ q.next - 1 \in Int
      BY <1>2
    <3>2. IsFiniteSet(1 .. q.next - 1)
      BY <3>0, Zenon DEF CountFacts, IntervalCount
    <3> QED BY <3>1, <3>2, Zenon DEF CountFacts, SubsetCount
  <2> DEFINE f == [b \in gone |-> piece(b)]
  <2>2. pieces = {f[b] : b \in gone}
    BY Zenon
  <2> HIDE DEF f
  <2>3. IsFiniteSet({f[b] : b \in gone})
    BY <2>1, Zenon DEF ImageCount
  <2> QED BY <2>2, <2>3, Zenon
<1>7. \A x \in pieces : x.first \in Numbers /\ x.batch \in Batches(y)
  <2>1. ASSUME NEW b \in Batches(q) PROVE Min(All(q, b)) \in Numbers
    <3>1. All(q, b) \subseteq Numbers /\ Numbers \subseteq Nat
      BY <1>2, OpenTyped DEF Numbers
    <3>2. All(q, b) # {}
      BY Zenon DEF Sound, Kept, Full
    <3> QED BY <3>1, <3>2, MinIs, Zenon
  <2>2. \A b \in gone : piece(b).first = Min(All(q, b)) /\ piece(b).batch = b /\ b \in Batches(q)
    BY Zenon DEF All
  <2> HIDE DEF piece, gone
  <2> QED BY <1>5, <2>1, <2>2, Zenon
<1> HIDE DEF pieces
<1>8. Follows(y, z, {}, {}) /\ EmptyBefore(y, z)
  BY <1>1, <1>5, <1>6, <1>7, AllAgainFollows, Zenon
<1>9. EndsOnly(q, z, {}, {})
  BY <1>5, <1>8, Zenon DEF Follows, EndsOnly, Pending
<1>10. Follows(q, z, {}, {})
  BY <1>5, <1>8, <1>9, Zenon DEF Follows
<1>11. Full(z)
  BY <1>5, <1>8, Zenon DEF EmptyBefore, Full
<1> QED BY <1>10, <1>11, Zenon

LEMMA ShutdownFollows ==
    ASSUME CountFacts, NEW q, Sound(q, marks),
           NEW z, z = AllGivenUp(q)
    PROVE  Follows(q, z, {}, Numbers) /\ Full(z) /\ z.next = q.next
<1> DEFINE S == [b \in Batches(q) |-> q.batches[b].all]
           y == Resolved(q, S, "lost")
           empty == <<>>
           noRun == {}
<1>1. z = WithKept(y, empty, noRun)
  BY Zenon DEF AllGivenUp, WithKept
<1>2. Kept(q, {}) /\ q.next \in Nat
  BY DEF Sound, Kept, Typed
<1>3. DOMAIN S = Batches(q) /\ \A b \in Batches(q) : S[b] = All(q, b)
  BY Zenon DEF All
<1> HIDE DEF S
<1>4. /\ Kept(y, {}) /\ Batches(y) = Batches(q)
      /\ y.last = q.last /\ y.next = q.next
      /\ Unresolved(q, S) \subseteq Pending(q)
      /\ y.end = [n \in Numbers |-> IF n \in Unresolved(q, S) THEN "lost" ELSE q.end[n]]
      /\ \A b \in Batches(q) : Open(y, b) = IF b \in DOMAIN S THEN Open(q, b) \ S[b] ELSE Open(q, b)
  <2>1. DOMAIN S \subseteq Batches(q)
    BY <1>3, Zenon
  <2> QED BY <1>2, <2>1, ResolvedKept
<1> HIDE DEF y
<1>5. \A b \in Batches(q) : Open(y, b) = {}
  BY <1>2, <1>3, <1>4 DEF Kept
<1>6. Pending(y) = {}
  BY <1>4, <1>5, Zenon DEF Kept
<1>7. DOMAIN empty = {} /\ empty \in [{} -> Batch] /\ noRun = {}
  OBVIOUS
<1> HIDE DEF empty, noRun
<1>8. Typed(y) /\ IsRecord(y) /\ y.next \in Nat \ {0}
  BY <1>4, Zenon DEF Kept, Typed
<1>9. z = Record(y.last, y.next, empty, noRun, y.unconfirmed, y.end)
  BY <1>1, <1>8, WithKeptIs, Zenon
<1>10. /\ IsRecord(z) /\ z.last = y.last /\ z.next = y.next /\ z.batches = empty /\ z.runs = noRun
       /\ z.unconfirmed = y.unconfirmed /\ z.end = y.end
  BY <1>9, RecordFields, RecordIs
<1>11. Batches(z) = {} /\ Pending(z) = {}
  BY <1>6, <1>7, <1>10, Zenon DEF Batches, Pending
<1>12. Typed(z)
  BY <1>7, <1>8, <1>10, <1>11, Zenon DEF Typed
<1>13. z.unconfirmed = Cardinality(Pending(z) \ {})
  BY <1>4, <1>6, <1>10, <1>11, Zenon DEF Kept
<1>14. Kept(z, {})
  BY <1>4, <1>10, <1>11, <1>12, <1>13, Zenon DEF Kept
<1>15. Found(z, 0) /\ Marked(z, marks) /\ Full(z)
  BY <1>7, <1>10, <1>11, Zenon DEF Found, Marked, Full
<1>16. EndsOnly(q, z, {}, Numbers)
  BY <1>4, <1>10, Zenon DEF EndsOnly
<1>17. z.last = q.last /\ z.next = q.next /\ q.next <= z.next
  BY <1>2, <1>4, <1>10
<1> QED BY <1>2, <1>14, <1>15, <1>16, <1>17, Zenon DEF Follows, Sound

Within(G, l) == \A g \in G : g \in Nat \ {0} /\ g <= l

\* Only messages numbered from q to z end.
NewOnly(q, z, l) == TooLargeOnly(q, z, q.last + 1 .. l)

LEMMA SentSound ==
    ASSUME CountFacts, LengthCount, NEW q, Sound(q, marks), Full(q), Within(marks, q.last),
           NEW size \in Nat \ {0}, NEW l, l = q.last + size, l <= MaxNumber,
           NEW on \in Conns \cup {None}, NEW z, z = Numbered(q, size, on)
    PROVE  /\ Sound(z, marks \cup {l}) /\ Full(z) /\ z.last = l /\ z.next = q.next + 1
           /\ NewOnly(q, z, l)
<1> DEFINE y == WithLast(q, l)
           S == q.last + 1 .. l
<1>1. z = Sent(y, S, l, on)
  BY Zenon DEF Numbered, WithLast
<1>2. Kept(q, {}) /\ Found(q, 0) /\ Marked(q, marks) /\ Typed(q) /\ IsRecord(q)
  BY Zenon DEF Sound, Kept, Typed
<1>3. q.last \in Nat /\ l \in Nat /\ l \in 0 .. MaxNumber /\ q.last < l /\ S \subseteq Numbers /\ S # {}
      /\ \A n \in S : n \in Nat /\ n > q.last /\ n <= l
  <2>1. q.last \in Nat /\ MaxNumber \in Nat
    BY <1>2, ConfirmerAssumption DEF Typed
  <2>2. l \in Nat /\ q.last < l /\ l <= MaxNumber /\ q.last + 1 \in S
    BY <2>1
  <2>3. \A n \in S : n \in Nat /\ n > q.last /\ n <= l
    BY <2>1, <2>2
  <2>4. S \subseteq Numbers
    BY <2>1, <2>2 DEF Numbers
  <2> QED BY <2>1, <2>2, <2>3, <2>4
<1>4. y = Record(l, q.next, q.batches, q.runs, q.unconfirmed, q.end)
  BY <1>2, WithLastIs, Zenon
<1> HIDE DEF y
<1>5. /\ IsRecord(y) /\ y.last = l /\ y.next = q.next /\ y.batches = q.batches /\ y.runs = q.runs
      /\ y.unconfirmed = q.unconfirmed /\ y.end = q.end
  BY <1>4, RecordFields, RecordIs
<1>6. Batches(y) = Batches(q) /\ \A d : Open(y, d) = Open(q, d) /\ All(y, d) = All(q, d) /\ Group(y, d) = Group(q, d)
  BY <1>5, Zenon DEF Batches, Open, All, Group
<1>7. Pending(y) \ S = Pending(q) \ {} /\ S \subseteq Pending(y) /\ Pending(y) = Pending(q) \cup S
  <2>1. \A n \in Numbers : n <= l <=> n <= q.last \/ n \in S
    BY <1>3 DEF Numbers
  <2>2. \A n \in S : q.end[n] = "none" /\ ~(n <= q.last)
    BY <1>2, <1>3 DEF Kept, Numbers
  <2> HIDE DEF S
  <2> QED BY <1>3, <1>5, <2>1, <2>2, Zenon DEF Pending
<1>8. Typed(y)
  BY <1>2, <1>3, <1>5, <1>6, Zenon DEF Typed
<1>9. \A d \in Batches(y) : /\ Open(y, d) \subseteq All(y, d) /\ All(y, d) \subseteq 1 .. y.last
                            /\ Open(y, d) \subseteq Pending(y) /\ Open(y, d) \cap S = {}
                            /\ All(y, d) \cap S = {}
  <2>1. \A d \in Batches(q) : Open(q, d) \subseteq All(q, d) /\ All(q, d) \subseteq 1 .. q.last
                              /\ Open(q, d) \subseteq Pending(q)
    BY <1>2, Zenon DEF Kept
  <2>2. 1 .. q.last \subseteq 1 .. l /\ (1 .. q.last) \cap S = {}
    BY <1>3
  <2> HIDE DEF S
  <2> QED BY <1>5, <1>6, <1>7, <2>1, <2>2, Zenon
<1>10. \A d, b \in Batches(y) : d # b => Open(y, d) \cap Open(y, b) = {}
  BY <1>2, <1>6, Zenon DEF Kept
<1>11. \A n \in Pending(y) : n \in S \/ \E d \in Batches(y) : n \in Open(y, d)
  BY <1>2, <1>6, <1>7, Zenon DEF Kept
<1>12. y.unconfirmed = Cardinality(Pending(y) \ S)
  BY <1>2, <1>5, <1>7, Zenon DEF Kept
<1>13. \A n \in Numbers : n > y.last => y.end[n] = "none"
  BY <1>2, <1>3, <1>5 DEF Kept, Numbers
<1> HIDE DEF S
<1>14. Kept(y, S)
  BY <1>7, <1>8, <1>9, <1>10, <1>11, <1>12, <1>13, Zenon DEF Kept
<1>15. Found(y, 0)
  BY <1>2, <1>5, <1>6, Zenon DEF Found
<1>16. \A r \in y.runs : Span(r) \cap S = {}
  <2>1. \A r \in q.runs : r.batch \in Batches(q) /\ Span(r) \subseteq All(q, r.batch)
    BY <1>2, FoundFacts, Zenon
  <2> QED BY <1>5, <1>6, <1>9, <2>1, Zenon
<1>17. /\ Kept(z, {}) /\ Found(z, 0) /\ y.next \notin Batches(y)
       /\ Batches(y) \subseteq Batches(z) /\ Batches(z) \subseteq Batches(y) \cup {y.next}
       /\ \A b \in Batches(y) : z.batches[b] = y.batches[b]
       /\ y.next \in Batches(z) => /\ Open(z, y.next) = S /\ All(z, y.next) = S
                                   /\ Group(z, y.next) = l
       /\ z.last = y.last /\ z.next = y.next + 1 /\ TooLargeOnly(y, z, S)
  <2>1. AfterSent(y, S, l, z)
    BY <1>1, <1>3, <1>14, <1>15, <1>16, SentIs, Zenon
  <2> QED BY <2>1, Zenon DEF AfterSent
<1>18. \A b \in Batches(q) : Open(z, b) = Open(q, b) /\ All(z, b) = All(q, b) /\ Group(z, b) = Group(q, b)
  BY <1>5, <1>6, <1>17, Zenon DEF Open, All, Group
<1>19. Full(z)
  BY <1>3, <1>6, <1>17, <1>18, Zenon DEF Full
<1>20. Marked(z, marks \cup {l})
  <2>1. ASSUME NEW b \in Batches(q)
        PROVE  /\ Group(q, b) \in marks
               /\ \A n \in All(q, b) : n <= Group(q, b) /\ \A g \in marks \cup {l} : g < n \/ Group(q, b) <= g
    <3>1. Group(q, b) \in marks
      BY <1>2, Zenon DEF Marked
    <3>2. Group(q, b) <= l
      BY <1>3, <3>1 DEF Within
    <3> QED BY <1>2, <3>1, <3>2, Zenon DEF Marked
  <2>2. \A n \in S : n <= l /\ \A g \in marks \cup {l} : g < n \/ l <= g
    <3>1. \A g \in marks : g \in Nat /\ g <= q.last
      BY Zenon DEF Within
    <3> QED BY <1>3, <3>1
  <2>3. \A b \in Batches(z) : b \in Batches(q) \/ b = y.next
    BY <1>6, <1>17, Zenon
  <2> QED BY <1>17, <1>18, <2>1, <2>2, <2>3 DEF Marked
<1> QED BY <1>5, <1>17, <1>19, <1>20, Zenon DEF Sound, S, TooLargeOnly, NewOnly
=============================================================================
