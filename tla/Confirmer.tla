----------------------------- MODULE Confirmer -----------------------------
(***************************************************************************)
(* A producer's Confirmer (core/confirming/mod.rs, again.rs): what it      *)
(* keeps of the messages it sent until each is resolved, one record q, and *)
(* its handlers, functions on that record.                                 *)
(*                                                                         *)
(* A message is its number.  q.last is the last number given, q.next the   *)
(* id of the next envelope.  q.batches holds, by its envelope's id, each   *)
(* batch waited for: all its messages, those open (unresolved), its group, *)
(* whether it is written, and the connection it is placed on.  q.runs are  *)
(* the runs of consecutive numbers a batch is found by, q.unconfirmed the  *)
(* count of open messages, and q.end says how each message ended.          *)
(***************************************************************************)
EXTENDS Integers, FiniteSets, FiniteSetsExt, Sequences

CONSTANTS
    Conns, None, \* the producer's connections, and none of them
    MaxNumber,   \* bound: messages sent
    TooLarge     \* <<n, id>>: message n alone is past MAX_MESSAGE_SIZE in envelope id

ASSUME ConfirmerAssumption ==
    /\ MaxNumber \in Nat /\ None \notin Conns
    /\ TooLarge \subseteq Nat \X Nat

VARIABLES
    marks,       \* history: the groups, each the last number of a batch first sent
    passed       \* groups whose deadline passed

Numbers == 1 .. MaxNumber
Span(run) == run.first .. run.first + run.count - 1
Batches(q) == DOMAIN q.batches

\* The runs of consecutive numbers of S.
RunsOf(b, S) ==
    {[first |-> x[1], count |-> x[2], batch |-> b, left |-> x[2]] :
        x \in {y \in Numbers \X Numbers :
                /\ y[1] .. y[1] + y[2] - 1 \subseteq S
                /\ y[1] - 1 \notin S /\ y[1] + y[2] \notin S}}

\* rebuild_runs
Rebuilt(q, b) ==
    LET new == RunsOf(b, q.batches[b].open)
        taken == {r.first : r \in new}
    IN  [q EXCEPT !.runs = {r \in @ : r.batch # b /\ r.first \notin taken} \cup new]

Without(batch, S) == [batch EXCEPT !.open = @ \ S]

\* What of S is unresolved in the batches, S[b] of each b.
Unresolved(q, S) == UNION {S[b] \cap q.batches[b].open : b \in DOMAIN S}

\* resolve_in and confirmed_end, for each of S[b] that is unresolved in b.
Resolved(q, S, e) ==
    [q EXCEPT !.batches = [b \in Batches(q) |->
                  IF b \in DOMAIN S THEN Without(@[b], S[b]) ELSE @[b]],
              !.unconfirmed = @ - Cardinality(Unresolved(q, S)),
              !.end = [n \in Numbers |-> IF n \in Unresolved(q, S) THEN e ELSE @[n]]]

\* Mutant: the runs of the batches forgotten stay.
Forgotten_runs(q, B) ==
    LET over == {b \in B \cap Batches(q) : q.batches[b].open = {}}
    IN  [q EXCEPT !.batches = [d \in Batches(q) \ over |-> @[d]]]

\* forget_resolved, for the batches B
Forgotten(q, B) ==
    LET over == {b \in B \cap Batches(q) : q.batches[b].open = {}}
    IN  [q EXCEPT !.batches = [d \in Batches(q) \ over |-> @[d]],
                  !.runs = {r \in @ : r.batch \notin over}]

\* wait_for_confirmation: the messages S kept under a new envelope, placed on
\* a connection at once or (None) waiting for one.
Waits(q, S, group, on) ==
    LET b == q.next
        batch == [all |-> S, open |-> S, group |-> group, written |-> FALSE, on |-> on]
    IN  Rebuilt([q EXCEPT !.next = @ + 1,
                          !.batches = [d \in Batches(q) \cup {b} |-> IF d = b THEN batch ELSE @[d]],
                          !.unconfirmed = @ + Cardinality(S)], b)

\* cannot_confirm: the envelope's id is drawn, and the message, numbered and
\* in no batch, is given up on.
CannotConfirm(q, n) == [q EXCEPT !.next = @ + 1, !.end[n] = "lost"]

\* send_batch: the messages S in a new envelope, kept, unless it is one that
\* even alone the envelope cannot hold.
Sent(q, S, group, on) ==
    IF \E n \in S : S = {n} /\ <<n, q.next>> \in TooLarge
      THEN CannotConfirm(q, CHOOSE n \in S : TRUE)
      ELSE Waits(q, S, group, on)

\* The next `size` messages numbered and sent, a batch's or what one envelope
\* took of it.
Numbered(q, size, on) ==
    Sent([q EXCEPT !.last = @ + size], q.last + 1 .. q.last + size, q.last + size, on)

\* What is unresolved of S leaves b, to go again.
Moved(q, b, S) ==
    [q EXCEPT !.batches = [d \in Batches(q) |-> IF d = b THEN Without(@[d], S) ELSE @[d]],
              !.unconfirmed = @ - Cardinality(S \cap q.batches[b].open)]

\* Mutant: what is sent again after a CONFIRMATION named it is given up on.
SendAgain_lost(q, b, S, on) ==
    IF b \notin Batches(q) THEN q
    ELSE Forgotten(Rebuilt(Resolved(q, [d \in {b} |-> S], "lost"), b), {b})

\* Mutant: what goes again leaves its batch, and no other keeps it.
SendAgain_dropped(q, b, S, on) ==
    IF b \notin Batches(q) THEN q
    ELSE Forgotten(Rebuilt(Moved(q, b, S), b), {b})

\* send_again: what is unresolved of S moves to a batch of its own, its old
\* one forgotten once empty; past the deadline it is given up on instead.
\* The kept frame reads back, being what batch_frame made and nothing changes.
SendAgain(q, b, S, on) ==
    IF b \notin Batches(q) THEN q
    ELSE LET moving == S \cap q.batches[b].open
             group == q.batches[b].group
             left == IF group \in passed
                       THEN Resolved(q, [d \in {b} |-> S], "lost")
                       ELSE Moved(q, b, S)
             rest == Forgotten(Rebuilt(left, b), {b})
         IN  IF moving = {} \/ group \in passed THEN rest ELSE Sent(rest, moving, group, on)

\* Pieces of batches in the order of their first numbers.
InOrder(pieces) ==
    CHOOSE s \in [1 .. Cardinality(pieces) -> pieces] :
        /\ IsInjective(s)
        /\ \A i, j \in DOMAIN s : i < j =>
              s[i].first < s[j].first \/ (s[i].first = s[j].first /\ s[i].batch <= s[j].batch)

\* One piece after another sent again.
AllAgain(q, pieces, on) ==
    LET run[i \in 0 .. Cardinality(pieces)] ==
            IF i = 0 THEN q
            ELSE SendAgain(run[i - 1], InOrder(pieces)[i].batch, InOrder(pieces)[i].what, on)
    IN  run[Cardinality(pieces)]

\* What a list of a CONFIRMATION names of each batch (segments).
Named(q, list) ==
    [b \in Batches(q) |-> UNION {Span(r) \cap list : r \in {each \in q.runs : each.batch = b}}]

\* One list of a CONFIRMATION: each number resolved in the batch whose run
\* holds it, the run forgotten once none of it is left (resolved_at_once,
\* resolved_in_run).
Listed(q, list, e) ==
    LET told == {[r EXCEPT !.left = @ - Cardinality(Span(r) \cap list \cap q.batches[r.batch].open)] :
                    r \in q.runs}
    IN  [Resolved(q, Named(q, list), e) EXCEPT !.runs = {r \in told : r.left > 0}]

\* What is refused, the runs it names of one batch together unless one of
\* another batch is between them.
Refused(q, list) ==
    LET named == {r \in q.runs : Span(r) \cap list # {}}
        together(r, s) ==
            \A t \in named : \/ t.batch = r.batch
                             \/ t.first < r.first /\ t.first < s.first
                             \/ r.first < t.first /\ s.first < t.first
        what(r) == UNION {Span(s) \cap list : s \in {t \in named : t.batch = r.batch /\ together(r, t)}}
    IN  {[first |-> Min(what(r)), batch |-> r.batch, what |-> what(r)] : r \in named}

\* on_confirmation: processed, then failed, then what was refused sent again.
Confirmed(q, c, on) ==
    LET told == Listed(Listed(q, c.processed, "processed"), c.failed, "lost")
        heard == {b \in Batches(q) : told.batches[b].open # q.batches[b].open}
    IN  Forgotten(AllAgain(told, Refused(told, c.refused), on), heard)

\* Every message of b still unresolved given up on (confirming_written(0),
\* confirmed_frame_dropped, a deadline in confirm_timer_fired).
GivenUp(q, b) == Forgotten(Resolved(q, [d \in {b} |-> q.batches[b].all], "lost"), {b})

Unplaced(batch) == [batch EXCEPT !.on = None]

\* confirmations_on_closed: the batches placed on c have no connection; those
\* of them that left the queues go again.
Closed(q, c, sent, on) ==
    LET there == {b \in Batches(q) : q.batches[b].on = c}
        unknown == [q EXCEPT !.batches =
                      [b \in Batches(q) |-> IF b \in there THEN Unplaced(@[b]) ELSE @[b]]]
    IN  AllAgain(unknown,
                 {[first |-> Min(q.batches[b].all), batch |-> b, what |-> q.batches[b].open] :
                    b \in {d \in there : d \in sent \/ q.batches[d].written}},
                 on)

\* Every message still unresolved given up on (give_up_confirmations).
AllGivenUp(q) ==
    [Resolved(q, [b \in Batches(q) |-> q.batches[b].all], "lost")
        EXCEPT !.batches = <<>>, !.runs = {}]

\* first_unconfirmed, as a flush compares it with its mark.
FlushWaitsFor(q, mark) == q.runs # {} /\ Min({r.first : r \in q.runs}) <= mark
=============================================================================
