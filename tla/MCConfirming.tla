---------------------------- MODULE MCConfirming ----------------------------
(* Confirming for TLC: a few messages, envelopes and losses.               *)
EXTENDS Confirming, TLC

\* The first message, sent again, is too large for the second envelope.
Tight == {<<1, 2>>}

\* The second message is too large for the second envelope and the third for
\* the third, first sent alone or, of a batch of three, sent again.
Loose == {<<2, 2>>, <<3, 3>>}

Symmetry == Permutations(Consumers)
=============================================================================
