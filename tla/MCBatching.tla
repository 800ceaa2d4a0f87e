----------------------------- MODULE MCBatching -----------------------------
(* Batching for TLC: a type and a key of it apart, and deliveries that wait    *)
(* out a delay and that wait for a connection, with and without a deadline,    *)
(* the one limited by its bytes (two messages of four fit), the others by the  *)
(* count (three would fit).                                                    *)
EXTENDS Batching

CONSTANTS t, k

Keyed == {[type |-> t, key |-> NoKey], [type |-> t, key |-> k]}

Slow    == [batch |-> TRUE, delay |-> 2, timeout |-> {3}, records |-> 4, bytes |-> 12]
Patient == [Slow EXCEPT !.delay = 0, !.timeout = {}, !.records = 2, !.bytes = 20]
Hasty   == [Patient EXCEPT !.timeout = {1}]

Mixed == {Slow, Patient, Hasty}
=============================================================================
