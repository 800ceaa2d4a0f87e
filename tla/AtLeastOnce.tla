---------------------------- MODULE AtLeastOnce ----------------------------
(***************************************************************************)
(* What a confirmed send promises (docs/delivery.md, "Confirmed sends"):   *)
(* each message sent ends once, processed or given up on, and it ends      *)
(* processed only after a consumer's program was done with it.  One step   *)
(* may end several messages.                                               *)
(***************************************************************************)
CONSTANT Messages

VARIABLES
    sent,      \* messages sent
    done,      \* messages some program was done with
    end        \* what the sender heard of each

vars == <<sent, done, end>>

Init == sent = {} /\ done = {} /\ end = [m \in Messages |-> "none"]

\* Those of L can not be sent at all, and end at once.
Send(S, L) ==
    /\ sent' = sent \cup S
    /\ end' = [m \in Messages |-> IF m \in L THEN "lost" ELSE end[m]]
    /\ UNCHANGED done

\* A program may be done with a message more than once.
Process(m) ==
    /\ m \in sent /\ done' = done \cup {m}
    /\ UNCHANGED <<sent, end>>

End(P, L) ==
    /\ P \cap L = {} /\ \A m \in P \cup L : end[m] = "none"
    /\ end' = [m \in Messages |-> IF m \in P THEN "processed" ELSE IF m \in L THEN "lost" ELSE end[m]]
    /\ UNCHANGED <<sent, done>>

Next ==
    \/ \E S \in SUBSET (Messages \ sent) : \E L \in SUBSET S : Send(S, L)
    \/ \E m \in Messages : Process(m)
    \/ \E P \in SUBSET done, L \in SUBSET sent : End(P, L)

Spec == Init /\ [][Next]_vars
=============================================================================
