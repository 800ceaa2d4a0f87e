------------------------------- MODULE Turns -------------------------------
(***************************************************************************)
(* The turns of a plain server's client (servers/plain.rs, Shared): one    *)
(* mutex over the client, held by the serve loop while it waits in epoll,  *)
(* and taken by calls from any thread.  A call that finds it held counts   *)
(* itself in `asking`, wakes the wait and blocks; the loop lets go of the  *)
(* client and waits on the condition variable `turned`, under the mutex    *)
(* `turns`, until every call that asked had its turn.  Each step is one    *)
(* access to what the threads share.                                       *)
(*                                                                         *)
(* A handler runs on the loop's thread between two waits and makes calls   *)
(* too: Loop is a thread of its own here, calling while its loop is at     *)
(* "handler".                                                              *)
(***************************************************************************)
EXTENDS Integers, FiniteSets

CONSTANTS
    Callers,     \* the other threads
    Loop,        \* the serve loop's thread
    Nobody,
    MaxCalls     \* bound: calls made

ASSUME TurnsAssumption ==
    /\ IsFiniteSet(Callers) /\ Loop \notin Callers /\ Nobody \notin Callers \cup {Loop}
    /\ MaxCalls \in Nat

VARIABLES
    client,      \* who holds the mutex of the client
    turns,       \* who holds the mutex of the condition variable
    asking,
    waker,       \* the waker was woken and the wait has not seen it
    turned,      \* the condition variable was notified since the loop waits on it
    working,
    pc,          \* where each thread's call is
    asked,       \* Turn::asked
    lpc,         \* where the loop is
    spc,         \* where stop() is
    calls

turnsVars == <<client, turns, asking, waker, turned, working, pc, asked, lpc, spc, calls>>

Threads == Callers \cup {Loop}
Goes(t, there) == pc' = [pc EXCEPT ![t] = there]

-----------------------------------------------------------------------------
(* A call: Shared::client(), then the Turn dropped.                        *)

\* try_lock: the client taken when free.
TryLock(t) ==
    /\ pc[t] = "idle" /\ (t = Loop => lpc = "handler")
    /\ calls < MaxCalls /\ calls' = calls + 1
    /\ IF client = Nobody
         THEN client' = t /\ Goes(t, "turn") /\ asked' = [asked EXCEPT ![t] = FALSE]
         ELSE Goes(t, "ask") /\ UNCHANGED <<client, asked>>
    /\ UNCHANGED <<turns, asking, waker, turned, working, lpc, spc>>

Ask(t) ==
    /\ pc[t] = "ask" /\ Goes(t, "wake")
    /\ asking' = asking + 1
    /\ UNCHANGED <<client, turns, waker, turned, working, asked, lpc, spc, calls>>

\* Mutant: the call wakes the wait only when it is the first to ask.
Wake_first(t) ==
    /\ pc[t] = "wake" /\ Goes(t, "lock")
    /\ waker' = (waker \/ asking = 1)
    /\ UNCHANGED <<client, turns, asking, turned, working, asked, lpc, spc, calls>>

Wake(t) ==
    /\ pc[t] = "wake" /\ Goes(t, "lock")
    /\ waker' = TRUE
    /\ UNCHANGED <<client, turns, asking, turned, working, asked, lpc, spc, calls>>

Lock(t) ==
    /\ pc[t] = "lock" /\ Goes(t, "turn")
    /\ client = Nobody /\ client' = t
    /\ asked' = [asked EXCEPT ![t] = TRUE]
    /\ UNCHANGED <<turns, asking, waker, turned, working, lpc, spc, calls>>

\* Turn::drop: the client let go of first.
Release(t) ==
    /\ pc[t] = "turn" /\ Goes(t, IF asked[t] THEN "drop" ELSE "idle")
    /\ client' = Nobody
    /\ UNCHANGED <<turns, asking, waker, turned, working, asked, lpc, spc, calls>>

LockTurns(t) ==
    /\ pc[t] = "drop" /\ Goes(t, "count")
    /\ turns = Nobody /\ turns' = t
    /\ UNCHANGED <<client, asking, waker, turned, working, asked, lpc, spc, calls>>

CountOff(t) ==
    /\ pc[t] = "count" /\ Goes(t, "idle")
    /\ asking' = asking - 1
    /\ turned' = (turned \/ (asking = 1 /\ lpc = "turned"))
    /\ turns' = Nobody
    /\ UNCHANGED <<client, waker, working, asked, lpc, spc, calls>>

Call(t) ==
    \/ Ask(t) \/ Wake(t) \/ Lock(t) \/ Release(t) \/ LockTurns(t) \/ CountOff(t)

-----------------------------------------------------------------------------
(* stop(), once.                                                           *)

Stop ==
    /\ spc = "idle" /\ spc' = "wake"
    /\ working' = FALSE
    /\ UNCHANGED <<client, turns, asking, waker, turned, pc, asked, lpc, calls>>

\* Mutant: stop() wakes a wait only while someone asks.
StopWakes_asking ==
    /\ spc = "wake" /\ spc' = "done"
    /\ waker' = (waker \/ asking # 0)
    /\ UNCHANGED <<client, turns, asking, turned, working, pc, asked, lpc, calls>>

StopWakes ==
    /\ spc = "wake" /\ spc' = "done"
    /\ waker' = TRUE
    /\ UNCHANGED <<client, turns, asking, turned, working, pc, asked, lpc, calls>>

-----------------------------------------------------------------------------
(* The loop: wait(), and around it what runs on the loop's thread.         *)

\* yield_to_callers
YieldToCallers ==
    /\ lpc = "yield" /\ lpc' = IF asking = 0 THEN "work" ELSE "turns"
    /\ UNCHANGED <<client, turns, asking, waker, turned, working, pc, asked, spc, calls>>

YieldLocks ==
    /\ lpc = "turns" /\ lpc' = "check"
    /\ turns = Nobody /\ turns' = Loop
    /\ UNCHANGED <<client, asking, waker, turned, working, pc, asked, spc, calls>>

YieldChecks ==
    /\ lpc = "check"
    /\ IF asking = 0 THEN lpc' = "work" /\ turns' = Nobody
                     ELSE lpc' = "waits" /\ UNCHANGED turns
    /\ UNCHANGED <<client, asking, waker, turned, working, pc, asked, spc, calls>>

YieldWaits ==
    /\ lpc = "waits" /\ lpc' = "turned"
    /\ turns' = Nobody /\ turned' = FALSE
    /\ UNCHANGED <<client, asking, waker, working, pc, asked, spc, calls>>

YieldNotified ==
    /\ lpc = "turned" /\ turned /\ lpc' = "check"
    /\ turns = Nobody /\ turns' = Loop
    /\ UNCHANGED <<client, asking, waker, turned, working, pc, asked, spc, calls>>

\* A condition variable may wake without a notification.
YieldSpurious ==
    /\ lpc = "turned" /\ ~turned /\ lpc' = "check"
    /\ turns = Nobody /\ turns' = Loop
    /\ UNCHANGED <<client, asking, waker, turned, working, pc, asked, spc, calls>>

\* wait(): nothing more once stopped, else the client taken.
Working ==
    /\ lpc = "work" /\ lpc' = IF working THEN "take" ELSE "done"
    /\ UNCHANGED <<client, turns, asking, waker, turned, working, pc, asked, spc, calls>>

Take ==
    /\ lpc = "take" /\ lpc' = "look"
    /\ client = Nobody /\ client' = Loop
    /\ UNCHANGED <<turns, asking, waker, turned, working, pc, asked, spc, calls>>

\* wait_for_message: a message, or the wait's end.
Received ==
    /\ lpc = "look" /\ lpc' = "handler"
    /\ client' = Nobody
    /\ UNCHANGED <<turns, asking, waker, turned, working, pc, asked, spc, calls>>

\* asked(): the client let go of, else an event waited for.
Asked ==
    /\ lpc = "look"
    /\ IF asking # 0 \/ ~working
         THEN lpc' = "yield" /\ client' = Nobody
         ELSE lpc' = "sleep" /\ UNCHANGED client
    /\ UNCHANGED <<turns, asking, waker, turned, working, pc, asked, spc, calls>>

WokenUp ==
    /\ lpc = "sleep" /\ waker /\ lpc' = "look"
    /\ waker' = FALSE
    /\ UNCHANGED <<client, turns, asking, turned, working, pc, asked, spc, calls>>

\* Any other event of the client.
RunOne ==
    /\ lpc = "sleep" /\ lpc' = "look"
    /\ UNCHANGED <<client, turns, asking, waker, turned, working, pc, asked, spc, calls>>

\* The handler returned.  What the loop asks of the client between two
\* waits (drained(), a confirmation) takes the mutex as it is.
Handled ==
    /\ lpc = "handler" /\ pc[Loop] = "idle"
    /\ \/ lpc' = (IF working THEN "yield" ELSE "done") /\ UNCHANGED client
       \/ lpc' = "own" /\ client = Nobody /\ client' = Loop
    /\ UNCHANGED <<turns, asking, waker, turned, working, pc, asked, spc, calls>>

OwnCall ==
    /\ lpc = "own" /\ lpc' = IF working THEN "yield" ELSE "done"
    /\ client' = Nobody
    /\ UNCHANGED <<turns, asking, waker, turned, working, pc, asked, spc, calls>>

\* The steps the loop's thread takes by itself.
LoopStep ==
    \/ YieldToCallers \/ YieldLocks \/ YieldChecks \/ YieldWaits \/ YieldNotified
    \/ Working \/ Take \/ Asked \/ WokenUp \/ Handled \/ OwnCall

-----------------------------------------------------------------------------
TurnsInit ==
    /\ client = Nobody /\ turns = Nobody /\ asking = 0
    /\ waker = FALSE /\ turned = FALSE /\ working = TRUE
    /\ pc = [t \in Threads |-> "idle"] /\ asked = [t \in Threads |-> FALSE]
    /\ lpc = "yield" /\ spc = "idle" /\ calls = 0

TurnsNext ==
    \/ \E t \in Threads : TryLock(t) \/ Call(t)
    \/ Stop \/ StopWakes
    \/ LoopStep \/ Received \/ YieldSpurious \/ RunOne

TurnsSpec == TurnsInit /\ [][TurnsNext]_turnsVars

\* Every thread runs; a mutex let go of for good is taken, and `turns`, which
\* the loop lets go of and takes again if its condition variable wakes for
\* nothing, too.  No message comes and no event wakes the wait.
TurnsFairSpec ==
    /\ TurnsSpec
    /\ \A t \in Threads : WF_turnsVars(Call(t)) /\ SF_turnsVars(LockTurns(t))
    /\ WF_turnsVars(LoopStep) /\ WF_turnsVars(StopWakes)

-----------------------------------------------------------------------------
(* Properties.                                                             *)

\* Threads counted in asking: from the count up to the count down.
Asking == {t \in Threads : pc[t] \in {"wake", "lock"} \/ (pc[t] \in {"turn", "drop", "count"} /\ asked[t])}

TurnsTypeOK ==
    /\ client \in Threads \cup {Nobody} /\ turns \in Threads \cup {Nobody}
    /\ asking \in Nat /\ calls \in Nat
    /\ waker \in BOOLEAN /\ turned \in BOOLEAN /\ working \in BOOLEAN
    /\ pc \in [Threads -> {"idle", "ask", "wake", "lock", "turn", "drop", "count"}]
    /\ asked \in [Threads -> BOOLEAN]
    /\ lpc \in {"yield", "turns", "check", "waits", "turned", "work", "take", "look", "sleep",
                "handler", "own", "done"}
    /\ spc \in {"idle", "wake", "done"}

\* The loop takes the client again only when no call that asked is without
\* its turn: asking is exact, however the calls overlap (Shared::client,
\* Turn::drop).
AskingExact == asking = Cardinality(Asking)

\* The loop never sleeps in its wait on a call that waits for the client, or
\* on stop(), unless the wake is on its way: the check of asked() before the
\* wait and the wake after the count leave no gap.
NotSleptOn ==
    lpc = "sleep" /\ ((\E t \in Threads : pc[t] = "lock") \/ spc = "done") => waker

\* The loop never waits on the condition variable for calls that are all
\* done: the last one's notification is not lost between the loop's check and
\* its wait (the mutex `turns`).
NotForgotten == lpc = "turned" /\ ~turned => Asking # {}

\* A call gets its turn without waiting for a message or a poll.
TurnGiven == \A t \in Callers : pc[t] = "ask" ~> pc[t] = "turn"

\* The loop gets the client back after the turns, or ends.
LoopGoesOn == lpc = "turned" ~> lpc \in {"look", "done"}

\* stop() ends the loop without waiting for a message or a poll.
StopHeard == spc = "done" ~> lpc = "done"

\* No wake and no notification is lost between the loop and the calls: the
\* count of those asking is exact, and the loop sleeps on nobody, in its wait
\* or on the condition variable.
NoWakeLost == AskingExact /\ NotSleptOn /\ NotForgotten

\* With no message and no poll to help, every call gets its turn, the loop
\* the client back, and stop() is heard.
EveryTurnComes == TurnGiven /\ LoopGoesOn /\ StopHeard
=============================================================================
