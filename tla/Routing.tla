------------------------------ MODULE Routing ------------------------------
(***************************************************************************)
(* A client's routing: which messages the rules may route to it, told to   *)
(* every multiplexer in the welcome and, when it changes, with             *)
(* PEER_CONTROL, and confirmed by the multiplexer's own welcome and by     *)
(* PEER_STATUS (client/routing.rs, client/connect.rs).  A change is        *)
(* acknowledged once every living connection confirmed it and everything   *)
(* read before the last confirmation has been handed out.                  *)
(*                                                                         *)
(* Each connection has a pair of FIFO channels and a multiplexer at the    *)
(* other end (server.cc), which applies what it is told in order, answers, *)
(* and routes messages as the routing in effect says.  A change is its     *)
(* version; a message is the version it was routed under.  One PEER_CONTROL *)
(* is sent per version and connection, so its version stands for its id.   *)
(* Channels are lost with their connection, at either end, at any moment;  *)
(* one whose write failed is gone for the client and still reads to its    *)
(* end what the multiplexer sent (connection.rs, read_to_the_end).         *)
(***************************************************************************)
EXTENDS Integers, Sequences

CONSTANTS
    Conns,       \* connections, never used again
    MaxVersion,  \* bound: changes of the routing
    MaxRouted,   \* bound: messages routed
    Room,        \* frames a connection's queue takes, forced ones included
    InMax,       \* incoming_max: messages queued for a receive
    Dispatch     \* TRUE: what arrives is handed out at once (a threaded client)

ASSUME RoutingAssumption ==
    /\ MaxVersion \in Nat /\ MaxRouted \in Nat
    /\ Room \in Nat /\ InMax \in Nat /\ Dispatch \in BOOLEAN

VARIABLES
    version,            \* routing_version
    takes,              \* what the routing of each version says of the rules
    conn,               \* "new", "open" (living, no welcome yet), "reg",
                        \* "ending" (gone, reading on), "dead"
    welcomed,           \* routing_in_welcome
    acked,              \* a connection's routing_acknowledged
    request,            \* routing_request_id
    confirmed,
    confirmedEnqueued,
    enqueued, dequeued, \* counts of the incoming queue
    incoming,           \* read, not received; late: from one reading on
    ackedVersion,       \* acknowledged_version
    callbacks,          \* acknowledged_callbacks, by the version they wait for
    wake                \* acknowledged_wake

VARIABLES
    c2s, s2c,           \* the channels
    mux,                \* the peer at the multiplexer: "none", "up", "gone"
    inEffect,           \* the version the multiplexer applied last
    routed

client == <<version, takes, conn, welcomed, acked, request, confirmed, confirmedEnqueued,
            enqueued, dequeued, incoming, ackedVersion, callbacks, wake>>
server == <<mux, inEffect, routed>>
vars == <<client, c2s, s2c, server>>

Versions == 0 .. MaxVersion
Frame(kind, v) == [kind |-> kind, ver |-> v]

Living(c) == conn[c] \in {"open", "reg"}
Delivering(c) == conn[c] \in {"reg", "ending"}

\* all_confirmed
AllConfirmed == \A c \in Conns : Living(c) => conn[c] = "reg" /\ acked[c] = version

\* Core::routing_acknowledged
RoutingAcknowledged == confirmed /\ dequeued >= confirmedEnqueued /\ AllConfirmed

\* update_confirmation, change_acknowledged and, for a client that hands out
\* what arrives, run_acknowledged_callbacks; `was` is `confirmed` before it,
\* `waiting` the callbacks.
UpdateConfirmation(was, waiting) ==
    LET mark == IF AllConfirmed' /\ ~was THEN enqueued' ELSE confirmedEnqueued
        told == AllConfirmed' /\ dequeued' >= mark /\ (ackedVersion # version' \/ waiting # {})
    IN  /\ confirmed' = AllConfirmed'
        /\ confirmedEnqueued' = mark
        /\ ackedVersion' = IF told THEN version' ELSE ackedVersion
        /\ wake' = (wake \/ told)
        /\ callbacks' = IF told /\ Dispatch THEN {} ELSE waiting

\* send_routing on each connection of S: forced, and given up on past the
\* forced frames' room.
SendRouting(S, v) ==
    /\ request' = [c \in Conns |-> IF c \in S THEN v ELSE request[c]]
    /\ c2s' = [c \in Conns |-> IF c \in S /\ Len(c2s[c]) < Room
                                 THEN Append(c2s[c], Frame("control", v)) ELSE c2s[c]]

Popped(channel, c) == [channel EXCEPT ![c] = Tail(@)]
Queued(c) == [ver |-> Head(s2c[c]).ver, late |-> conn[c] = "ending"]
Arrives(c, kind) == s2c[c] # <<>> /\ Head(s2c[c]).kind = kind

-----------------------------------------------------------------------------
(* The client.                                                             *)

\* set_routing, set_key_filters, routing_changed
SetRouting(on, callback) ==
    /\ version < MaxVersion
    /\ version' = version + 1
    /\ takes' = [takes EXCEPT ![version + 1] = on]
    /\ SendRouting({c \in Conns : conn[c] = "reg"}, version + 1)
    /\ UNCHANGED <<conn, welcomed, acked, enqueued, dequeued, incoming, s2c, server>>
    /\ UpdateConfirmation(FALSE, callbacks \cup {v \in {version + 1} : callback})

\* connected, start_connection: the welcome carries the routing of now.
Open(c) ==
    /\ conn[c] = "new"
    /\ conn' = [conn EXCEPT ![c] = "open"]
    /\ welcomed' = [welcomed EXCEPT ![c] = version]
    /\ c2s' = [c2s EXCEPT ![c] = <<Frame("welcome", version)>>]
    /\ UNCHANGED <<version, takes, acked, request, confirmed, confirmedEnqueued, enqueued, dequeued,
                   incoming, ackedVersion, callbacks, wake, s2c, server>>

\* after_connection_registration: the multiplexer's welcome confirms the
\* routing ours carried; a change made meanwhile goes out now.
AfterConnectionRegistration(c) ==
    /\ conn[c] = "open" /\ Arrives(c, "welcome")
    /\ conn' = [conn EXCEPT ![c] = "reg"]
    /\ acked' = [acked EXCEPT ![c] = welcomed[c]]
    /\ SendRouting({d \in {c} : welcomed[c] # version}, version)
    /\ s2c' = Popped(s2c, c)
    /\ UNCHANGED <<version, takes, welcomed, enqueued, dequeued, incoming, server>>
    /\ UpdateConfirmation(confirmed, callbacks)

\* Mutant: the answer to any PEER_CONTROL confirms the current routing.
OnPeerStatus_any(c) ==
    /\ Delivering(c) /\ (Arrives(c, "status") \/ Arrives(c, "refusal"))
    /\ s2c' = Popped(s2c, c)
    /\ acked' = [acked EXCEPT ![c] = version]
    /\ UNCHANGED <<version, takes, conn, welcomed, request, enqueued, dequeued, incoming, c2s, server>>
    /\ UpdateConfirmation(confirmed, callbacks)

\* on_peer_status: only the answer to the last PEER_CONTROL confirms, and a
\* refusal confirms nothing.
OnPeerStatus(c) ==
    /\ Delivering(c) /\ (Arrives(c, "status") \/ Arrives(c, "refusal"))
    /\ s2c' = Popped(s2c, c)
    /\ UNCHANGED <<version, takes, conn, welcomed, request, enqueued, dequeued, incoming, c2s, server>>
    /\ IF Arrives(c, "status") /\ Head(s2c[c]).ver = request[c]
         THEN /\ acked' = [acked EXCEPT ![c] = version]
              /\ UpdateConfirmation(confirmed, callbacks)
         ELSE UNCHANGED <<acked, confirmed, confirmedEnqueued, ackedVersion, wake, callbacks>>

\* handle_message: queued for a receive, dropped past the queue's limit, or
\* handed out at once.
HandleMessage(c) ==
    /\ Delivering(c) /\ Arrives(c, "message")
    /\ s2c' = Popped(s2c, c)
    /\ IF Dispatch \/ Len(incoming) >= InMax
         THEN UNCHANGED <<incoming, enqueued>>
         ELSE incoming' = Append(incoming, Queued(c)) /\ enqueued' = enqueued + 1
    /\ UNCHANGED <<version, takes, conn, welcomed, acked, request, confirmed, confirmedEnqueued,
                   dequeued, ackedVersion, callbacks, wake, c2s, server>>

\* connection_destroyed, whatever ended it.
ConnectionDestroyed(c) ==
    /\ Living(c)
    /\ conn' = [conn EXCEPT ![c] = "dead"]
    /\ UNCHANGED <<version, takes, welcomed, acked, request, enqueued, dequeued, incoming, c2s, s2c, server>>
    /\ UpdateConfirmation(confirmed, callbacks)

\* write_failed, read_to_the_end: gone for the client, which hears what is
\* still read.
WriteFailed(c) ==
    /\ conn[c] = "reg"
    /\ conn' = [conn EXCEPT ![c] = "ending"]
    /\ UNCHANGED <<version, takes, welcomed, acked, request, enqueued, dequeued, incoming, c2s, s2c, server>>
    /\ UpdateConfirmation(confirmed, callbacks)

\* on_read_end, read_to_the_end_bound: shut down, the client told before.
ReadToTheEnd(c) ==
    /\ conn[c] = "ending"
    /\ conn' = [conn EXCEPT ![c] = "dead"]
    /\ UNCHANGED <<version, takes, welcomed, acked, request, confirmed, confirmedEnqueued, enqueued, dequeued,
                   incoming, ackedVersion, callbacks, wake, c2s, s2c, server>>

\* next_incoming_message
NextIncomingMessage ==
    /\ incoming # <<>>
    /\ incoming' = Tail(incoming) /\ dequeued' = dequeued + 1
    /\ UNCHANGED <<version, takes, conn, welcomed, acked, request, confirmed, confirmedEnqueued,
                   enqueued, ackedVersion, callbacks, wake, c2s, s2c, server>>

\* acknowledged_by_receive, before a wait for a message.
AcknowledgedByReceive ==
    /\ incoming = <<>> /\ ~Dispatch
    /\ ackedVersion # version /\ RoutingAcknowledged
    /\ ackedVersion' = version /\ wake' = TRUE
    /\ UNCHANGED <<version, takes, conn, welcomed, acked, request, confirmed, confirmedEnqueued,
                   enqueued, dequeued, incoming, callbacks, c2s, s2c, server>>

\* run_acknowledged_callbacks, at the start of a receive.
RunAcknowledgedCallbacks ==
    /\ callbacks # {} /\ ~Dispatch /\ RoutingAcknowledged
    /\ callbacks' = {}
    /\ UNCHANGED <<version, takes, conn, welcomed, acked, request, confirmed, confirmedEnqueued,
                   enqueued, dequeued, incoming, ackedVersion, wake, c2s, s2c, server>>

\* take_acknowledged_wake, the serve loop's.
TakeAcknowledgedWake ==
    /\ wake /\ wake' = FALSE
    /\ UNCHANGED <<version, takes, conn, welcomed, acked, request, confirmed, confirmedEnqueued,
                   enqueued, dequeued, incoming, ackedVersion, callbacks, c2s, s2c, server>>

-----------------------------------------------------------------------------
(* The multiplexers.                                                       *)

\* register_connection at the peer's welcome, which its own answers.
MuxRegister(c) ==
    /\ mux[c] = "none" /\ c2s[c] # <<>>
    /\ mux' = [mux EXCEPT ![c] = "up"]
    /\ inEffect' = [inEffect EXCEPT ![c] = Head(c2s[c]).ver]
    /\ c2s' = Popped(c2s, c)
    /\ s2c' = [s2c EXCEPT ![c] = Append(@, Frame("welcome", Head(c2s[c]).ver))]
    /\ UNCHANGED <<client, routed>>

\* _handle_peer_control: applied and answered behind everything routed
\* before, or refused whole (key filters that do not compile); the answer is
\* lost past the forced frames' room.
HandlePeerControl(c) ==
    /\ mux[c] = "up" /\ c2s[c] # <<>>
    /\ c2s' = Popped(c2s, c)
    /\ LET answer(kind) ==
             s2c' = [s2c EXCEPT ![c] = IF Len(@) < Room THEN Append(@, Frame(kind, Head(c2s[c]).ver)) ELSE @]
       IN  \/ inEffect' = [inEffect EXCEPT ![c] = Head(c2s[c]).ver] /\ answer("status")
           \/ inEffect' = inEffect /\ answer("refusal")
    /\ UNCHANGED <<client, mux, routed>>

\* A message the rules route to this peer.
MuxRoute(c) ==
    /\ mux[c] = "up" /\ takes[inEffect[c]]
    /\ routed < MaxRouted /\ routed' = routed + 1
    /\ Len(s2c[c]) < Room
    /\ s2c' = [s2c EXCEPT ![c] = Append(@, Frame("message", inEffect[c]))]
    /\ UNCHANGED <<client, c2s, mux, inEffect>>

\* unregister_connection: the multiplexer's end of the connection is gone.
MuxGone(c) ==
    /\ mux[c] = "up"
    /\ mux' = [mux EXCEPT ![c] = "gone"]
    /\ UNCHANGED <<client, c2s, s2c, inEffect, routed>>

-----------------------------------------------------------------------------
Init ==
    /\ version = 0 /\ takes = [v \in Versions |-> TRUE]
    /\ conn = [c \in Conns |-> "new"]
    /\ welcomed = [c \in Conns |-> 0]
    /\ acked = [c \in Conns |-> 0]
    /\ request = [c \in Conns |-> 0]
    /\ confirmed = FALSE /\ confirmedEnqueued = 0
    /\ enqueued = 0 /\ dequeued = 0 /\ incoming = <<>>
    /\ ackedVersion = 0 /\ callbacks = {} /\ wake = FALSE
    /\ c2s = [c \in Conns |-> <<>>] /\ s2c = [c \in Conns |-> <<>>]
    /\ mux = [c \in Conns |-> "none"] /\ inEffect = [c \in Conns |-> 0] /\ routed = 0

Events(c) ==
    \/ Open(c) \/ AfterConnectionRegistration(c) \/ OnPeerStatus(c)
    \/ HandleMessage(c) \/ ConnectionDestroyed(c) \/ WriteFailed(c) \/ ReadToTheEnd(c)

Mux(c) == MuxRegister(c) \/ HandlePeerControl(c) \/ MuxRoute(c) \/ MuxGone(c)

Next ==
    \/ \E on, callback \in BOOLEAN : SetRouting(on, callback)
    \/ \E c \in Conns : Events(c) \/ Mux(c)
    \/ NextIncomingMessage \/ AcknowledgedByReceive
    \/ RunAcknowledgedCallbacks \/ TakeAcknowledgedWake

Spec == Init /\ [][Next]_vars

-----------------------------------------------------------------------------
(* Properties.                                                             *)

Arrivals == [ver : Versions, late : BOOLEAN]
Kinds == {"welcome", "control", "status", "refusal", "message"}

\* Every variable has its type, and the counts are those of the queue.
TypeOK ==
    /\ version \in Versions /\ takes \in [Versions -> BOOLEAN]
    /\ conn \in [Conns -> {"new", "open", "reg", "ending", "dead"}]
    /\ welcomed \in [Conns -> Versions] /\ acked \in [Conns -> Versions] /\ request \in [Conns -> Versions]
    /\ confirmed \in BOOLEAN /\ confirmedEnqueued \in Nat
    /\ enqueued \in Nat /\ dequeued \in Nat /\ incoming \in Seq(Arrivals)
    /\ Len(incoming) = enqueued - dequeued
    /\ ackedVersion \in Versions /\ callbacks \subseteq Versions /\ wake \in BOOLEAN
    /\ c2s \in [Conns -> Seq([kind : Kinds, ver : Versions])]
    /\ s2c \in [Conns -> Seq([kind : Kinds, ver : Versions])]
    /\ mux \in [Conns -> {"none", "up", "gone"}] /\ inEffect \in [Conns -> Versions]
    /\ routed \in Nat

\* Nothing routed under an older version is on its way or waits for a
\* receive, but what a connection read after the client counted it gone, and
\* every multiplexer has the current one in effect.
NothingOlder ==
    /\ \A i \in DOMAIN incoming : ~incoming[i].late => incoming[i].ver >= version
    /\ \A c \in Conns : Living(c) =>
          /\ inEffect[c] >= version
          /\ \A i \in DOMAIN s2c[c] : s2c[c][i].kind = "message" => s2c[c][i].ver >= version

\* When routing_acknowledged() says so, every multiplexer has the routing in
\* effect and everything it routed before has been handed out: what the
\* callbacks of a change, and the end of a drain, rest on.  (A connection
\* whose write failed is nobody's to wait for.)
AcknowledgedInEffect == RoutingAcknowledged => NothingOlder

\* A client that turned the rules off and had it acknowledged gets no more
\* messages by the rules: none waits, none is on its way, none can be routed.
AcknowledgedMeansStopped ==
    RoutingAcknowledged /\ ~takes[version] =>
        /\ \A i \in DOMAIN incoming : incoming[i].late
        /\ \A c \in Conns : Living(c) =>
              ~takes[inEffect[c]] /\ \A i \in DOMAIN s2c[c] : s2c[c][i].kind # "message"

\* A client that hands out what arrives runs the callbacks of a change in the
\* very step that makes it acknowledged: no later event would run them.
NoCallbackForgotten == Dispatch /\ RoutingAcknowledged => callbacks = {} /\ ackedVersion = version

\* Acknowledged means what the program is told it means: the change is in
\* effect at every multiplexer, nothing it stopped comes, and its callbacks
\* ran.
AcknowledgedHolds == AcknowledgedInEffect /\ AcknowledgedMeansStopped /\ NoCallbackForgotten
=============================================================================
