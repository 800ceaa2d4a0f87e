------------------------------ MODULE Leaving ------------------------------
(***************************************************************************)
(* How a plain server leaves (servers/plain.rs): its one loop over a       *)
(* client whose routing is Routing's, from the request to drain to the     *)
(* close.  The loop holds the client while it waits, one event of the      *)
(* client at a time; the handler and periodic_task() run between two       *)
(* waits, and what they send runs the client's events too (a send polls).  *)
(* start_draining() and stop() come from another thread, at any moment the *)
(* client is free, or by waking the wait.                                  *)
(*                                                                         *)
(* Of what the server sends only the count held for a connection is kept   *)
(* (the drain waits for it); the flag acknowledged_wake is Routing's wake  *)
(* and heldWake together.  The program's drained() is the default one.     *)
(***************************************************************************)
EXTENDS Routing

CONSTANTS
    MaxSends,    \* bound: messages sent with no connection up
    Polls,       \* TRUE: serve_forever's poll ends a wait; FALSE: no deadline
    Caps         \* whether the drain has a cap

ASSUME LeavingAssumption == MaxSends \in Nat /\ Caps \subseteq BOOLEAN

VARIABLES
    pc,          \* "top", "wait", "blocked" (in run_one), "look" (the wait's last look),
                 \* "busy" (the program runs), "last", "closing"
    draining, stopped,
    cap,         \* the drain has a cap
    capped,      \* which has passed
    bounded,     \* the wait lasts to the cap at most: next_wait() saw the drain
    held,        \* held_for_a_connection
    sent,
    heldWake,
    refusing,
    refused      \* requests refused that a living connection brought

loop == <<pc, draining, stopped, cap, capped, bounded, held, sent, heldWake, refusing, refused>>
allVars == <<vars, loop>>

Free == pc \in {"top", "blocked", "busy", "last"}
Woken == IF pc = "blocked" THEN "wait" ELSE pc
Registered == {c \in Conns : conn[c] = "reg"}

-----------------------------------------------------------------------------
(* Calls from other threads.                                               *)

\* Mutant: the drain is published, its routing told to nobody.
StartDraining_untold ==
    /\ Free /\ ~draining
    /\ draining' = TRUE /\ pc' = Woken
    /\ UNCHANGED <<vars, stopped, cap, capped, bounded, held, sent, heldWake, refusing, refused>>

\* start_draining: the routing told, then the drain published.
StartDraining ==
    /\ Free /\ ~draining
    /\ SetRouting(FALSE, FALSE)
    /\ draining' = TRUE /\ pc' = Woken
    /\ UNCHANGED <<stopped, cap, capped, bounded, held, sent, heldWake, refusing, refused>>

\* stop(): the loop's wait woken, to end.
Stop ==
    /\ pc # "closing" /\ ~stopped
    /\ stopped' = TRUE
    /\ UNCHANGED <<vars, pc, draining, cap, capped, bounded, held, sent, heldWake, refusing, refused>>

\* Time: the drain's cap passes, which a wait that began in the drain lasts
\* to at most.
CapPasses ==
    /\ cap /\ draining /\ ~capped /\ pc # "closing"
    /\ capped' = TRUE
    /\ pc' = IF pc = "blocked" /\ bounded THEN "look" ELSE pc
    /\ UNCHANGED <<vars, draining, stopped, cap, bounded, held, sent, heldWake, refusing, refused>>

-----------------------------------------------------------------------------
(* The client's events, one at a time.                                     *)

\* Where an event leaves the loop: a wait looks again.
Runs == pc \in {"blocked", "look", "busy", "last", "closing"} /\ pc' = Woken

\* A connection registered: what was held goes to it, and the last of it
\* wakes the loop.
PlaceHeld(c) ==
    /\ Runs /\ AfterConnectionRegistration(c)
    /\ held' = 0 /\ heldWake' = (heldWake \/ held > 0)
    /\ UNCHANGED <<draining, stopped, cap, capped, bounded, sent, refusing, refused>>

\* A connection gone, which may leave unwritten messages with no other to
\* take them.
Lost(c) ==
    /\ Runs /\ (ConnectionDestroyed(c) \/ WriteFailed(c))
    /\ held' \in {held} \cup {n \in {held + 1} : Registered = {c}}
    /\ UNCHANGED <<draining, stopped, cap, capped, bounded, sent, heldWake, refusing, refused>>

\* A message: queued, or refused once the drain is over.
Received(c) ==
    /\ Runs /\ ~refusing /\ HandleMessage(c)
    /\ UNCHANGED <<draining, stopped, cap, capped, bounded, held, sent, heldWake, refusing, refused>>

Refuse(c) ==
    /\ Runs /\ refusing /\ Delivering(c) /\ Arrives(c, "message")
    /\ s2c' = Popped(s2c, c)
    /\ refused' = IF Living(c) THEN refused + 1 ELSE refused
    /\ UNCHANGED <<client, c2s, server, draining, stopped, cap, capped, bounded, held, sent, heldWake, refusing>>

Other(c) ==
    /\ Runs /\ (Open(c) \/ OnPeerStatus(c) \/ ReadToTheEnd(c))
    /\ UNCHANGED <<draining, stopped, cap, capped, bounded, held, sent, heldWake, refusing, refused>>

\* The outbox's expiry: a held message's time is up.
HeldExpires ==
    /\ Runs /\ held > 0
    /\ held' = held - 1 /\ heldWake' = (heldWake \/ held = 1)
    /\ UNCHANGED <<vars, draining, stopped, cap, capped, bounded, sent, refusing, refused>>

Event(c) == PlaceHeld(c) \/ Lost(c) \/ Received(c) \/ Refuse(c) \/ Other(c)

-----------------------------------------------------------------------------
(* The loop.                                                               *)

\* Mutant: a cap that passed ends no drain.
Drained_noCap == RoutingAcknowledged /\ held = 0

\* drained(), by default.
Drained == capped \/ (RoutingAcknowledged /\ held = 0)

\* serve(), its loop's head: on to the next wait, or the drain is over and
\* what arrives from now on is refused.  drained() and refuse_arrivals() take
\* the client's lock one after the other; here nothing arrives in between,
\* which only refuses more.
Top ==
    /\ pc = "top"
    /\ LET over == draining /\ Drained /\ ~stopped
       IN  /\ pc' = IF stopped THEN "closing" ELSE IF over THEN "last" ELSE "wait"
           /\ refusing' = (over \/ stopped)
    /\ bounded' = draining
    /\ UNCHANGED <<vars, draining, stopped, cap, capped, held, sent, heldWake, refused>>

\* wait_for_message: what is read is taken first; a change whose last
\* message was taken is told of; a wake ends the wait; else one event.
WaitMessage ==
    /\ pc = "wait" /\ NextIncomingMessage /\ pc' = "busy"
    /\ UNCHANGED <<draining, stopped, cap, capped, bounded, held, sent, heldWake, refusing, refused>>

ToTell == ackedVersion # version /\ RoutingAcknowledged

WaitTold == pc = "wait" /\ AcknowledgedByReceive /\ UNCHANGED loop

WaitWoken ==
    /\ pc = "wait" /\ incoming = <<>> /\ ~ToTell /\ (wake \/ heldWake)
    /\ wake' = FALSE /\ heldWake' = FALSE /\ pc' = "busy"
    /\ UNCHANGED <<version, takes, conn, welcomed, acked, request, confirmed, confirmedEnqueued, enqueued,
                   dequeued, incoming, ackedVersion, callbacks, c2s, s2c, server>>
    /\ UNCHANGED <<draining, stopped, cap, capped, bounded, held, sent, refusing, refused>>

WaitBlocks ==
    /\ pc = "wait" /\ incoming = <<>> /\ ~ToTell /\ ~wake /\ ~heldWake
    /\ pc' = IF bounded /\ capped THEN "look" ELSE IF stopped THEN "busy" ELSE "blocked"
    /\ UNCHANGED <<vars, draining, stopped, cap, capped, bounded, held, sent, heldWake, refusing, refused>>

\* The wait ends: at its poll, with a last look, or woken by stop().
WaitEnds ==
    /\ pc = "blocked" /\ (Polls \/ stopped)
    /\ pc' = IF stopped THEN "busy" ELSE "look"
    /\ UNCHANGED <<vars, draining, stopped, cap, capped, bounded, held, sent, heldWake, refusing, refused>>

LastLook ==
    /\ pc = "look" /\ pc' = "busy"
    /\ IF incoming = <<>> THEN UNCHANGED vars ELSE NextIncomingMessage
    /\ UNCHANGED <<draining, stopped, cap, capped, bounded, held, sent, heldWake, refusing, refused>>

\* The handler, or periodic_task(), sends: held when no connection is up.
Sends ==
    /\ pc \in {"busy", "last"} /\ Registered = {} /\ sent < MaxSends
    /\ held' = held + 1 /\ sent' = sent + 1
    /\ UNCHANGED <<vars, pc, draining, stopped, cap, capped, bounded, heldWake, refusing, refused>>

Returns ==
    /\ pc = "busy" /\ pc' = "top"
    /\ UNCHANGED <<vars, draining, stopped, cap, capped, bounded, held, sent, heldWake, refusing, refused>>

\* The end of serve(): what was read is handled; then close().
LastMessage ==
    /\ pc = "last" /\ ~stopped /\ NextIncomingMessage
    /\ UNCHANGED loop

Close ==
    /\ pc = "last" /\ (stopped \/ incoming = <<>>)
    /\ pc' = "closing" /\ refusing' = TRUE
    /\ UNCHANGED <<vars, draining, stopped, cap, capped, bounded, held, sent, heldWake, refused>>

Loop ==
    \/ Top \/ WaitMessage \/ WaitTold \/ WaitWoken \/ WaitBlocks \/ LastLook
    \/ Returns \/ LastMessage \/ Close

-----------------------------------------------------------------------------
LeavingInit ==
    /\ Init
    /\ pc = "top" /\ draining = FALSE /\ stopped = FALSE /\ cap \in Caps /\ capped = FALSE /\ bounded = FALSE
    /\ held = 0 /\ sent = 0 /\ heldWake = FALSE /\ refusing = FALSE /\ refused = 0

\* No key filters: what the drain tells a multiplexer is applied.
Answered(c) == HandlePeerControl(c) /\ inEffect'[c] = Head(c2s[c]).ver

Network(c) ==
    /\ MuxRegister(c) \/ Answered(c) \/ MuxRoute(c) \/ MuxGone(c)
    /\ UNCHANGED loop

LeavingNext ==
    \/ StartDraining \/ Stop \/ CapPasses
    \/ \E c \in Conns : Event(c) \/ Network(c)
    \/ HeldExpires \/ WaitEnds \/ Sends \/ Loop

LeavingSpec == LeavingInit /\ [][LeavingNext]_allVars

\* The loop goes on; the poll, a cap and the deadlines of what is held
\* pass; the client handles what is ready whenever it waits (run_one runs
\* one event, a poll every one), which is strong fairness, its waits coming
\* and going.  Nothing makes a connection fail, a message come or the
\* handler send.
LoopFairness ==
    /\ WF_allVars(Loop) /\ WF_allVars(WaitEnds) /\ WF_allVars(CapPasses) /\ SF_allVars(HeldExpires)
    /\ \A c \in Conns :
          /\ SF_allVars(PlaceHeld(c) \/ Received(c) \/ Refuse(c) \/ Other(c))
          /\ SF_allVars(Lost(c) /\ mux[c] = "gone")

\* The multiplexers answer.
MuxFairness == \A c \in Conns : WF_allVars((MuxRegister(c) \/ Answered(c)) /\ UNCHANGED loop)

\* Without a cap a drain needs multiplexers that answer.
FairSpec == LeavingSpec /\ LoopFairness /\ (cap \/ MuxFairness)

-----------------------------------------------------------------------------
(* Properties.                                                             *)

LeavingTypeOK ==
    /\ pc \in {"top", "wait", "blocked", "look", "busy", "last", "closing"}
    /\ {draining, stopped, cap, capped, bounded, heldWake, refusing} \subseteq BOOLEAN
    /\ sent \in 0 .. MaxSends /\ held \in Nat /\ refused \in Nat

\* A drain its confirmation ended, not its cap, refuses no request the
\* rules routed: what the multiplexers routed before the change came ahead
\* of their confirmations and is served (drained(), refuse_arrivals()); the
\* loop's state keeps its type.
NothingRefused == LeavingTypeOK /\ (draining /\ ~capped /\ ~stopped => refused = 0)

\* A drain ends: by its confirmation when the multiplexers answer, at its cap
\* whatever they do, the poll passing.
DrainEnds == draining ~> pc = "closing"
=============================================================================
