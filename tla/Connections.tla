---------------------------- MODULE Connections ----------------------------
(***************************************************************************)
(* A client's connections coming and going (core/client/connect.rs, the    *)
(* lifecycle of core/connection.rs): the targets it was given, each with a *)
(* connection on its way or up, or a reconnect armed; connecting to every  *)
(* address a name resolves to; the registration at the multiplexer's       *)
(* welcome, which may replace or be refused for another connection; and    *)
(* the ways a connection ends, a write still in flight on it or not.       *)
(*                                                                         *)
(* A connection is a slot, free again once nothing of the connection is    *)
(* left to happen.  What its queue holds, and the order connections are    *)
(* chosen in, are Outbox's; times are what they let happen.                *)
(***************************************************************************)
EXTENDS Integers, FiniteSets

CONSTANTS
    Targets, Names,   \* of which names, resolved first
    Slots, NoConn,
    Peers, Hosts,     \* multiplexers by id, and the addresses they are at
    MaxAddresses,     \* bound: addresses a name resolves to
    MaxArmed          \* bound: reconnects armed for one target

ASSUME NamesAssumption == Names \subseteq Targets
ASSUME NoConnAssumption == NoConn \notin Slots
ASSUME BoundsAssumption == MaxAddresses \in Nat /\ MaxArmed \in Nat

VARIABLES
    st,          \* where each connection is
    target, host, peer,
    left,        \* addresses it has not tried
    writing,     \* a write of it is in flight
    byTarget, byPeer,
    reconnects,  \* how many are armed, by target
    downs,       \* how often the client heard a connection is gone
    shut,        \* the client shut down
    wanted       \* the targets the program wants: given and not dropped

who == <<target, host, peer, left>>
vars == <<st, who, writing, byTarget, byPeer, reconnects, downs, shut, wanted>>

Coming == {"resolving", "connecting", "handshake"}
Up == Coming \cup {"registered"}   \* nobody was told it is gone
States == Coming \cup {"none", "registered", "ending", "gone"}

Init ==
    /\ st = [c \in Slots |-> "none"]
    /\ target \in [Slots -> Targets] /\ host \in [Slots -> Hosts] /\ peer \in [Slots -> Peers]
    /\ left = [c \in Slots |-> 0]
    /\ writing = [c \in Slots |-> FALSE]
    /\ byTarget = [t \in Targets |-> NoConn] /\ byPeer = [p \in Peers |-> NoConn]
    /\ reconnects = [t \in Targets |-> 0]
    /\ downs = [c \in Slots |-> 0]
    /\ shut = FALSE /\ wanted = {}

-----------------------------------------------------------------------------
(* How a connection ends.                                                  *)

\* Shut down, a connection is kept until its write ends (forget_if_finished).
After(c) == IF writing[c] THEN "gone" ELSE "none"

\* Mutant: an attempt that fails before it is registered arms no reconnect.
Destroyed_unregistered(c) ==
    /\ byTarget' = IF byTarget[target[c]] = c THEN [byTarget EXCEPT ![target[c]] = NoConn] ELSE byTarget
    /\ reconnects' = IF byTarget[target[c]] = c /\ ~shut /\ st[c] = "registered"
                       THEN [reconnects EXCEPT ![target[c]] = @ + 1] ELSE reconnects
    /\ downs' = [downs EXCEPT ![c] = @ + 1]

\* connection_destroyed: the target's reconnect is armed while the target is
\* the client's and this connection its own.
Destroyed(c) ==
    /\ byTarget' = IF byTarget[target[c]] = c THEN [byTarget EXCEPT ![target[c]] = NoConn] ELSE byTarget
    /\ reconnects' = IF byTarget[target[c]] = c /\ ~shut
                       THEN [reconnects EXCEPT ![target[c]] = @ + 1] ELSE reconnects
    /\ downs' = [downs EXCEPT ![c] = @ + 1]

\* unregister_connection, of a connection that was registered.
Unregistered(c) == IF st[c] = "registered" THEN [byPeer EXCEPT ![peer[c]] = NoConn] ELSE byPeer

\* shutdown_connection: told once (tell_client_gone), told before for one
\* that reads to its end.
ShutDown(c, after) ==
    /\ st' = [st EXCEPT ![c] = after]
    /\ IF st[c] = "ending" THEN UNCHANGED <<byTarget, reconnects, downs, byPeer>>
       ELSE Destroyed(c) /\ byPeer' = Unregistered(c)

-----------------------------------------------------------------------------
(* The program's calls.                                                    *)

\* A connection for t, resolving or connecting to its one address.
Opens(t) ==
    \E c \in Slots :
        /\ st[c] = "none"
        /\ st' = [st EXCEPT ![c] = IF t \in Names THEN "resolving" ELSE "connecting"]
        /\ target' = [target EXCEPT ![c] = t] /\ left' = [left EXCEPT ![c] = 0]
        /\ byTarget' = [byTarget EXCEPT ![t] = c]
        /\ downs' = [downs EXCEPT ![c] = 0]
        /\ UNCHANGED <<host, peer, writing, byPeer>>

\* async_connect: a target with a connection keeps it.
Connect(t) ==
    /\ ~shut /\ reconnects[t] < MaxArmed
    /\ wanted' = wanted \cup {t}
    /\ IF byTarget[t] = NoConn THEN Opens(t)
       ELSE UNCHANGED <<st, who, writing, byTarget, byPeer, downs>>
    /\ UNCHANGED <<reconnects, shut>>

\* close_gracefully: one registered reads to its end, another shuts down.
Closing(c) == IF st[c] = "registered" THEN "ending" ELSE After(c)

\* disconnect: the target forgotten first, so that its connection's end arms
\* no reconnect.
Disconnect(t) ==
    LET c == byTarget[t]
    IN  /\ ~shut /\ wanted' = wanted \ {t}
        /\ reconnects' = [reconnects EXCEPT ![t] = 0]
        /\ byTarget' = [byTarget EXCEPT ![t] = NoConn]
        /\ IF c = NoConn THEN UNCHANGED <<st, byPeer, downs>>
           ELSE /\ st' = [st EXCEPT ![c] = Closing(c)] /\ byPeer' = Unregistered(c)
                /\ downs' = [downs EXCEPT ![c] = @ + 1]
        /\ UNCHANGED <<who, writing, shut>>

\* shutdown_client: no reconnect stays armed, every target's connection closes.
ShutdownClient ==
    LET closing == {c \in Slots : byTarget[target[c]] = c}
    IN  /\ ~shut /\ shut' = TRUE
        /\ reconnects' = [t \in Targets |-> 0]
        /\ st' = [c \in Slots |-> IF c \in closing THEN Closing(c) ELSE st[c]]
        /\ downs' = [c \in Slots |-> IF c \in closing THEN downs[c] + 1 ELSE downs[c]]
        /\ byTarget' = [t \in Targets |-> NoConn]
        /\ byPeer' = [p \in Peers |-> IF byPeer[p] \in closing THEN NoConn ELSE byPeer[p]]
        /\ UNCHANGED <<who, writing, wanted>>

-----------------------------------------------------------------------------
(* What the driver, the timers and the multiplexers bring.                 *)

\* reconnect_after_timeout
ReconnectDue(t) ==
    /\ reconnects[t] > 0 /\ reconnects' = [reconnects EXCEPT ![t] = @ - 1]
    /\ IF byTarget[t] = NoConn THEN Opens(t)
       ELSE UNCHANGED <<st, who, writing, byTarget, byPeer, downs>>
    /\ UNCHANGED <<shut, wanted>>

\* on_resolved: to nothing, the attempt ends.
Resolved(c, addresses) ==
    /\ st[c] = "resolving"
    /\ IF addresses = 0 THEN ShutDown(c, After(c)) /\ UNCHANGED left
       ELSE /\ st' = [st EXCEPT ![c] = "connecting"] /\ left' = [left EXCEPT ![c] = addresses - 1]
            /\ UNCHANGED <<byTarget, byPeer, reconnects, downs>>
    /\ UNCHANGED <<target, host, peer, writing, shut, wanted>>

\* Mutant: the attempt ends at its last address, its client not told.
ConnectFails_untold(c) ==
    /\ st[c] = "connecting"
    /\ IF left[c] = 0 THEN st' = [st EXCEPT ![c] = "gone"] /\ UNCHANGED left
       ELSE left' = [left EXCEPT ![c] = @ - 1] /\ UNCHANGED st
    /\ UNCHANGED <<byTarget, byPeer, reconnects, downs, target, host, peer, writing, shut, wanted>>

\* A connect failed, or was cancelled at its deadline: the next address, or
\* the end of the attempt (connected, try_next_candidate).
ConnectFails(c) ==
    /\ st[c] = "connecting"
    /\ IF left[c] = 0 THEN ShutDown(c, After(c)) /\ UNCHANGED left
       ELSE /\ left' = [left EXCEPT ![c] = @ - 1]
            /\ UNCHANGED <<st, byTarget, byPeer, reconnects, downs>>
    /\ UNCHANGED <<target, host, peer, writing, shut, wanted>>

\* The TCP connect is done: the welcome is being written (start_connection).
Connected(c, h) ==
    /\ st[c] = "connecting" /\ st' = [st EXCEPT ![c] = "handshake"]
    /\ host' = [host EXCEPT ![c] = h] /\ writing' = [writing EXCEPT ![c] = TRUE]
    /\ UNCHANGED <<target, peer, left, byTarget, byPeer, reconnects, downs, shut, wanted>>

\* register_connection refuses a peer that is no multiplexer, or this client,
\* or another host's claim to the id of a live connection.
Refused(c) ==
    /\ st[c] = "handshake" /\ ShutDown(c, After(c))
    /\ UNCHANGED <<who, writing, shut, wanted>>

\* Mutant: the connection replaced stays up.
Welcome_both(c, p) ==
    /\ st[c] = "handshake" /\ st' = [st EXCEPT ![c] = "registered"]
    /\ peer' = [peer EXCEPT ![c] = p] /\ byPeer' = [byPeer EXCEPT ![p] = c]
    /\ UNCHANGED <<target, host, left, writing, byTarget, reconnects, downs, shut, wanted>>

\* Registered at the multiplexer's welcome; the connection the same host had
\* under that id is shut down first.
Welcome(c, p) ==
    LET previous == byPeer[p]
    IN  /\ st[c] = "handshake"
        /\ peer' = [peer EXCEPT ![c] = p] /\ byPeer' = [byPeer EXCEPT ![p] = c]
        /\ IF previous = NoConn
             THEN st' = [st EXCEPT ![c] = "registered"] /\ UNCHANGED <<byTarget, reconnects, downs>>
             ELSE /\ host[previous] = host[c]
                  /\ st' = [st EXCEPT ![previous] = After(previous), ![c] = "registered"]
                  /\ Destroyed(previous)
        /\ UNCHANGED <<target, host, left, writing, shut, wanted>>

\* The connection's reading ends, or what it read does not belong, or it was
\* silent for too long, or, reading to the end, its bound ran out.
ReadEnds(c) ==
    /\ st[c] \in {"handshake", "registered", "ending"}
    /\ ShutDown(c, After(c))
    /\ UNCHANGED <<who, writing, shut, wanted>>

WriteStarts(c) ==
    /\ st[c] = "registered" /\ ~writing[c] /\ writing' = [writing EXCEPT ![c] = TRUE]
    /\ UNCHANGED <<st, who, byTarget, byPeer, reconnects, downs, shut, wanted>>

\* A write ended: a connection kept for it is forgotten (settle_set_aside).
WriteDone(c) ==
    /\ writing[c] /\ writing' = [writing EXCEPT ![c] = FALSE]
    /\ st' = [st EXCEPT ![c] = IF @ = "gone" THEN "none" ELSE @]
    /\ UNCHANGED <<who, byTarget, byPeer, reconnects, downs, shut, wanted>>

\* A write failed: one registered reads to its end, its client told
\* (write_failed, read_to_the_end).
WriteFails(c) ==
    /\ writing[c] /\ writing' = [writing EXCEPT ![c] = FALSE]
    /\ st[c] \in {"handshake", "registered"}
    /\ ShutDown(c, IF st[c] = "registered" THEN "ending" ELSE "none")
    /\ UNCHANGED <<who, shut, wanted>>

Next ==
    \/ \E t \in Targets : Connect(t)
    \/ \E t \in Targets : Disconnect(t)
    \/ ShutdownClient
    \/ \E t \in Targets : ReconnectDue(t)
    \/ \E c \in Slots, n \in 0 .. MaxAddresses : Resolved(c, n)
    \/ \E c \in Slots : ConnectFails(c)
    \/ \E c \in Slots, h \in Hosts : Connected(c, h)
    \/ \E c \in Slots : Refused(c)
    \/ \E c \in Slots, p \in Peers : Welcome(c, p)
    \/ \E c \in Slots : ReadEnds(c)
    \/ \E c \in Slots : WriteStarts(c)
    \/ \E c \in Slots : WriteDone(c)
    \/ \E c \in Slots : WriteFails(c)

Spec == Init /\ [][Next]_vars

\* Timers come due (strongly, slots being short here alone), a connection
\* reading to its end reaches the end or the bound, and writes end.
Settles ==
    /\ \A t \in Targets : SF_vars(ReconnectDue(t))
    /\ \A c \in Slots : /\ WF_vars(st[c] = "ending" /\ ReadEnds(c))
                        /\ WF_vars(WriteDone(c) \/ WriteFails(c))

\* Each target's multiplexer is there, and reached in the end however often
\* it is not.
Reachable ==
    \A t \in Targets :
        /\ SF_vars(\E c \in Slots, n \in 1 .. MaxAddresses : target[c] = t /\ Resolved(c, n))
        /\ SF_vars(\E c \in Slots, h \in Hosts : target[c] = t /\ Connected(c, h))
        /\ SF_vars(\E c \in Slots, p \in Peers : target[c] = t /\ Welcome(c, p))

FairSpec == Spec /\ Settles /\ Reachable

-----------------------------------------------------------------------------
TypeOK ==
    /\ st \in [Slots -> States]
    /\ target \in [Slots -> Targets] /\ host \in [Slots -> Hosts] /\ peer \in [Slots -> Peers]
    /\ left \in [Slots -> Nat] /\ writing \in [Slots -> BOOLEAN]
    /\ byTarget \in [Targets -> Slots \cup {NoConn}] /\ byPeer \in [Peers -> Slots \cup {NoConn}]
    /\ reconnects \in [Targets -> Nat] /\ downs \in [Slots -> Nat]
    /\ shut \in BOOLEAN /\ wanted \subseteq Targets

\* A target the program wants is never forgotten: it has a connection, up or
\* on its way, or a reconnect armed, whatever its connections ran into.
WantedKept ==
    ~shut => \A t \in wanted : byTarget[t] # NoConn \/ reconnects[t] > 0

\* One the program dropped, and any once the client shut down, has neither,
\* and nothing on its way can come up for it: the connections there are are
\* those of the targets, one each.
DroppedLeft ==
    /\ \A t \in Targets : (shut \/ t \notin wanted) => byTarget[t] = NoConn /\ reconnects[t] = 0
    /\ \A t \in Targets : byTarget[t] # NoConn => st[byTarget[t]] \in Up /\ target[byTarget[t]] = t
    /\ \A c \in Slots : st[c] \in Up => byTarget[target[c]] = c

\* A multiplexer is reached through one connection, the one byPeer says, and
\* byPeer says none that is not up.
OnePerMultiplexer ==
    /\ \A p \in Peers : byPeer[p] # NoConn => st[byPeer[p]] = "registered" /\ peer[byPeer[p]] = p
    /\ \A c \in Slots : st[c] = "registered" => byPeer[peer[c]] = c

\* The client hears that a connection is gone once, as soon as it stops
\* being one, though it may be read to its end and shut down after.
ToldOnce ==
    \A c \in Slots : /\ st[c] \in Up => downs[c] = 0
                     /\ st[c] \in {"ending", "gone"} => downs[c] = 1

\* A target wanted for good is connected again and again, however its
\* connections end.
ConnectedAgain ==
    \A t \in Targets :
        <>[](t \in wanted /\ ~shut) => []<>(byTarget[t] # NoConn /\ st[byTarget[t]] = "registered")

\* Once the client shut down, nothing of any connection is left in the end.
ShutdownEnds == shut ~> (\A c \in Slots : st[c] = "none")

\* The client's tables say what the program wants: a wanted target is kept,
\* a dropped one left, and each connection is its target's.
AsWanted == WantedKept /\ DroppedLeft

\* A multiplexer has one connection, and the client hears the end of each
\* once.
OneEach == OnePerMultiplexer /\ ToldOnce

\* What should happen does: a wanted target is connected again, a client
\* that shut down is left with nothing.
SettlesInTheEnd == ConnectedAgain /\ ShutdownEnds
=============================================================================
