------------------------------ MODULE Counting ------------------------------
(***************************************************************************)
(* What the proofs use of finite sets and their sizes.  All of it is in    *)
(* the library: a proof module states its lemmas under CountFacts and      *)
(* proves CountFacts at its end, where it takes the library in, so that    *)
(* the provers see each lemma with these facts alone.                      *)
(***************************************************************************)
EXTENDS Integers, FiniteSets

EmptyCount == /\ IsFiniteSet({}) /\ Cardinality({}) = 0
              /\ \A S : IsFiniteSet(S) => (Cardinality(S) = 0 <=> S = {})

NumberCount == \A S : IsFiniteSet(S) => Cardinality(S) \in Nat

AddCount ==
    \A S, x : IsFiniteSet(S) =>
        /\ IsFiniteSet(S \cup {x})
        /\ Cardinality(S \cup {x}) = IF x \in S THEN Cardinality(S) ELSE Cardinality(S) + 1

RemoveCount ==
    \A S, x : IsFiniteSet(S) =>
        /\ IsFiniteSet(S \ {x})
        /\ Cardinality(S \ {x}) = IF x \in S THEN Cardinality(S) - 1 ELSE Cardinality(S)

SubsetCount ==
    \A S : IsFiniteSet(S) => \A T \in SUBSET S : IsFiniteSet(T) /\ Cardinality(T) <= Cardinality(S)

UnionCount ==
    \A S, T : IsFiniteSet(S) /\ IsFiniteSet(T) =>
        /\ IsFiniteSet(S \cup T)
        /\ Cardinality(S \cup T) = Cardinality(S) + Cardinality(T) - Cardinality(S \cap T)

IntervalCount == \A m, n \in Int : IsFiniteSet(m .. n)

\* How many numbers an interval holds.
LengthCount == \A m, n \in Int : Cardinality(m .. n) = IF m > n THEN 0 ELSE n - m + 1

LeastNumber == \A S \in SUBSET Nat : S # {} => \E m \in S : \A k \in S : m <= k

CountFacts ==
    /\ EmptyCount /\ NumberCount /\ AddCount /\ RemoveCount
    /\ SubsetCount /\ UnionCount /\ IntervalCount /\ LeastNumber
=============================================================================
