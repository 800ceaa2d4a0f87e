---------------------------- MODULE RoutingProofs ----------------------------
(***************************************************************************)
(* Once a change of the routing is acknowledged, everything the            *)
(* multiplexers routed under an older one has been handed out: proved for  *)
(* any number of connections, of changes and of messages.  The inductive   *)
(* invariant follows a change along its way: the versions in the channel   *)
(* to the multiplexer rise towards the client's, those in the channel back *)
(* never fall behind an answer, an answer to the last request therefore    *)
(* has nothing older behind it, and what came before it was counted when   *)
(* the last connection confirmed.  First the facts about channels it rests *)
(* on and the multiplexer's steps, then the client's.                      *)
(***************************************************************************)
EXTENDS Routing, TLAPS

\* The multiplexer hears of a connection only once it is open, and sends
\* nothing before it does.
Channels(c) ==
    /\ mux[c] = "none" => s2c[c] = <<>>
    /\ conn[c] = "new" => mux[c] = "none" /\ c2s[c] = <<>>
    /\ conn[c] \in {"reg", "ending"} => mux[c] # "none"

\* What is on its way to the multiplexer is in order, and ahead of what it
\* has in effect.
Rising(c) ==
    /\ \A i, j \in DOMAIN c2s[c] : i < j => c2s[c][i].ver <= c2s[c][j].ver
    /\ \A i \in DOMAIN c2s[c] : c2s[c][i].ver <= version
    /\ mux[c] # "none" => \A i \in DOMAIN c2s[c] : inEffect[c] <= c2s[c][i].ver

\* Nothing routed under a version older than an answer's is behind it.
Answers(c) ==
    \A i \in DOMAIN s2c[c] : s2c[c][i].kind \in {"status", "welcome"} =>
        /\ s2c[c][i].ver <= inEffect[c]
        /\ \A j \in DOMAIN s2c[c] :
              i < j /\ s2c[c][j].kind = "message" => s2c[c][i].ver <= s2c[c][j].ver

\* The welcome a connection waits for answers the one it sent.
Welcome(c) ==
    conn[c] = "open" =>
        /\ mux[c] = "none" => \A i \in DOMAIN c2s[c] : c2s[c][i].ver = welcomed[c]
        /\ \A i \in DOMAIN s2c[c] : s2c[c][i].kind = "welcome" => s2c[c][i].ver = welcomed[c]

\* No version is ahead of the client's, and a message was routed under one
\* that takes it.
Bounds(c) ==
    /\ inEffect[c] <= version /\ acked[c] <= version /\ welcomed[c] <= version
    /\ \A i \in DOMAIN s2c[c] : s2c[c][i].kind = "message" => s2c[c][i].ver <= version /\ takes[s2c[c][i].ver]

\* A registered connection confirmed the routing or was told of it.
Asked(c) == conn[c] = "reg" => acked[c] = version \/ request[c] = version

\* A connection that confirmed has nothing older behind it.
Clean(c) ==
    conn[c] = "reg" /\ acked[c] = version =>
        /\ inEffect[c] >= version
        /\ \A i \in DOMAIN s2c[c] : s2c[c][i].kind = "message" => s2c[c][i].ver >= version

\* While `confirmed` stands, connections that are new carry the routing.
Confirming(c) ==
    confirmed => /\ conn[c] = "reg" => acked[c] = version
                 /\ conn[c] = "open" => welcomed[c] = version

\* The older messages that wait were counted when the last one confirmed.
Counted ==
    /\ \A i \in DOMAIN incoming : incoming[i].ver <= version /\ takes[incoming[i].ver]
    /\ confirmed => \A i \in DOMAIN incoming :
                       ~incoming[i].late /\ incoming[i].ver < version => dequeued + i <= confirmedEnqueued

ConnInv(c) ==
    /\ Channels(c) /\ Rising(c) /\ Answers(c) /\ Welcome(c)
    /\ Bounds(c) /\ Asked(c) /\ Clean(c) /\ Confirming(c)

IInv == TypeOK /\ Counted /\ \A c \in Conns : ConnInv(c)

-----------------------------------------------------------------------------
(* Sequences.                                                              *)

\* What Append adds to a queue, and keeps of it.
LEMMA AppendFacts ==
    ASSUME NEW S, NEW s \in Seq(S), NEW e \in S
    PROVE  /\ Append(s, e) \in Seq(S)
           /\ Len(Append(s, e)) = Len(s) + 1
           /\ DOMAIN Append(s, e) = 1 .. Len(s) + 1
           /\ DOMAIN s = 1 .. Len(s)
           /\ Len(s) \in Nat
           /\ \A i \in 1 .. Len(s) : Append(s, e)[i] = s[i]
           /\ Append(s, e)[Len(s) + 1] = e
  OBVIOUS

\* What taking the head of a queue leaves of it.
LEMMA TailFacts ==
    ASSUME NEW S, NEW s \in Seq(S), s # <<>>
    PROVE  /\ Head(s) = s[1] /\ Head(s) \in S
           /\ Tail(s) \in Seq(S)
           /\ Len(s) \in Nat /\ Len(s) >= 1
           /\ Len(Tail(s)) = Len(s) - 1
           /\ DOMAIN Tail(s) = 1 .. Len(s) - 1
           /\ DOMAIN s = 1 .. Len(s)
           /\ \A i \in 1 .. Len(s) - 1 : Tail(s)[i] = s[i + 1]
  OBVIOUS

\* An element of a sequence over S is in S.
LEMMA Element == ASSUME NEW S, NEW s \in Seq(S) PROVE \A i \in DOMAIN s : s[i] \in S
  OBVIOUS

\* A function changed at one argument keeps its type.
LEMMA ChangedAt ==
    ASSUME NEW S, NEW f \in [Conns -> S], NEW c \in Conns, NEW x \in S
    PROVE  [f EXCEPT ![c] = x] \in [Conns -> S]
  BY Zenon

\* Versions are numbers, on the connections and in the channels too.
LEMMA Numbers ==
    ASSUME TypeOK, NEW c \in Conns
    PROVE  /\ version \in Nat /\ inEffect[c] \in Nat /\ acked[c] \in Nat
           /\ welcomed[c] \in Nat /\ request[c] \in Nat
           /\ \A i \in DOMAIN c2s[c] : c2s[c][i].ver \in Nat
           /\ \A i \in DOMAIN s2c[c] : s2c[c][i].ver \in Nat
<1> USE RoutingAssumption
<1>1. \A v \in Versions : v \in Nat BY DEF Versions
<1>2. c2s[c] \in Seq([kind : Kinds, ver : Versions]) /\ s2c[c] \in Seq([kind : Kinds, ver : Versions])
  BY Zenon DEF TypeOK
<1>3. \A i \in DOMAIN c2s[c] : c2s[c][i] \in [kind : Kinds, ver : Versions] BY <1>2, Element, Zenon
<1>4. \A i \in DOMAIN s2c[c] : s2c[c][i] \in [kind : Kinds, ver : Versions] BY <1>2, Element, Zenon
<1>5. (\A i \in DOMAIN c2s[c] : c2s[c][i].ver \in Versions) /\ (\A i \in DOMAIN s2c[c] : s2c[c][i].ver \in Versions)
  BY <1>3, <1>4, Zenon
<1>6. version \in Versions /\ inEffect[c] \in Versions /\ acked[c] \in Versions
      /\ welcomed[c] \in Versions /\ request[c] \in Versions
  BY Zenon DEF TypeOK
<1> QED BY <1>1, <1>5, <1>6, Zenon

-----------------------------------------------------------------------------
\* Nothing is on its way at the start.
LEMMA InitIInv == Init => IInv
<1> SUFFICES ASSUME Init PROVE IInv BY Zenon
<1> USE RoutingAssumption
<1>1. TypeOK BY DEF Init, TypeOK, Versions, Kinds
<1>2. Counted BY DEF Init, Counted
<1>3. ASSUME NEW c \in Conns PROVE ConnInv(c)
  BY <1>3 DEF Init, ConnInv, Channels, Rising, Answers, Welcome, Bounds, Asked, Clean, Confirming
<1> QED BY <1>1, <1>2, <1>3, Zenon DEF IInv

\* update_confirmation keeps the types and the count: what waits when the
\* last connection confirms was queued before.
LEMMA ConfirmationKeeps ==
    ASSUME TypeOK, Counted, NEW was \in BOOLEAN, NEW waiting \in SUBSET Versions,
           UpdateConfirmation(was, waiting),
           version' \in Versions, was => confirmed /\ version' = version,
           UNCHANGED <<enqueued, dequeued, incoming>>,
           \A i \in DOMAIN incoming : incoming[i].ver <= version' /\ takes'[incoming[i].ver]
    PROVE  /\ confirmed' = AllConfirmed'
           /\ confirmed' \in BOOLEAN /\ confirmedEnqueued' \in Nat /\ wake' \in BOOLEAN
           /\ ackedVersion' \in Versions /\ callbacks' \subseteq Versions
           /\ Counted'
<1>1. /\ confirmed' = AllConfirmed' /\ confirmed' \in BOOLEAN /\ wake' \in BOOLEAN
      /\ ackedVersion' \in Versions /\ callbacks' \subseteq Versions
      /\ confirmedEnqueued' \in Nat
  BY Zenon DEF UpdateConfirmation, TypeOK, AllConfirmed
<1>2. Counted'
  <2>1. CASE was
    <3>1. confirmedEnqueued' = confirmedEnqueued BY <2>1, Zenon DEF UpdateConfirmation
    <3> QED BY <2>1, <3>1, Zenon DEF Counted
  <2>2. CASE ~was
    <3>1. confirmed' => confirmedEnqueued' = enqueued BY <2>2, Zenon DEF UpdateConfirmation
    <3>2. \A i \in DOMAIN incoming : dequeued + i <= enqueued BY DEF TypeOK
    <3> QED BY <3>1, <3>2, Zenon DEF Counted
  <2> QED BY <2>1, <2>2, Zenon
<1> QED BY <1>1, <1>2, Zenon

\* A connection no step touches keeps its part of the invariant.
LEMMA OthersKeep ==
    ASSUME NEW d, ConnInv(d),
           conn'[d] = conn[d], c2s'[d] = c2s[d], s2c'[d] = s2c[d], mux'[d] = mux[d],
           inEffect'[d] = inEffect[d], acked'[d] = acked[d], welcomed'[d] = welcomed[d],
           request'[d] = request[d], UNCHANGED <<version, takes>>, Confirming(d)'
    PROVE  ConnInv(d)'
  BY DEF ConnInv, Channels, Rising, Answers, Welcome, Bounds, Asked, Clean

\* Where `confirmed` is what all_confirmed says, each connection agrees.
LEMMA AllConfirming ==
    ASSUME confirmed' = AllConfirmed', NEW d \in Conns
    PROVE  Confirming(d)'
  BY Zenon DEF AllConfirmed, Confirming, Living

-----------------------------------------------------------------------------
(* The multiplexer's steps change no part of the client.                   *)

LEMMA MuxRegisterStep == ASSUME IInv, NEW c \in Conns, MuxRegister(c) PROVE IInv'
<1> DEFINE S == [kind : Kinds, ver : Versions]
           h == Head(c2s[c])
           e == Frame("welcome", h.ver)
<1> USE RoutingAssumption
<1>0. TypeOK /\ Counted /\ ConnInv(c) /\ s2c[c] = <<>> BY Zenon DEF IInv, ConnInv, Channels, MuxRegister
<1>1. c2s[c] \in Seq(S) /\ c2s[c] # <<>> /\ s2c[c] \in Seq(S) BY <1>0, Zenon DEF TypeOK, MuxRegister
<1>2. h \in S /\ e \in S BY <1>1, TailFacts, Zenon DEF Frame, Kinds
<1>3. /\ c2s' = [c2s EXCEPT ![c] = Tail(c2s[c])] /\ c2s'[c] = Tail(c2s[c])
      /\ s2c' = [s2c EXCEPT ![c] = <<e>>] /\ s2c'[c] = <<e>>
      /\ inEffect' = [inEffect EXCEPT ![c] = h.ver] /\ inEffect'[c] = h.ver
      /\ mux' = [mux EXCEPT ![c] = "up"] /\ mux'[c] = "up"
      /\ UNCHANGED <<client, routed>>
  BY <1>0, <1>1 DEF MuxRegister, Popped, TypeOK
<1>4. TypeOK'
  <2>1. Tail(c2s[c]) \in Seq(S) /\ <<e>> \in Seq(S) /\ h.ver \in Versions BY <1>1, <1>2, TailFacts
  <2> QED BY <1>0, <1>3, <2>1, Zenon DEF TypeOK, client
<1>5. Counted' BY <1>0, <1>3, Zenon DEF Counted, client
<1>6. ASSUME NEW d \in Conns PROVE ConnInv(d)'
  <2>0. ConnInv(d) /\ Confirming(d)' BY <1>3, Zenon DEF IInv, ConnInv, Confirming, client
  <2>1. CASE d # c BY <1>0, <1>3, <2>0, <2>1, OthersKeep, Zenon DEF TypeOK, client
  <2>2. CASE d = c
    <3>0. UNCHANGED <<version, takes, conn, welcomed, acked, request>> BY <1>3, Zenon DEF client
    <3>1. Channels(c)' BY <1>0, <1>3, <3>0, Zenon DEF Channels, ConnInv, MuxRegister
    <3>2. Rising(c)'
      <4>0. h = c2s[c][1] /\ 1 \in DOMAIN c2s[c] /\ \A i \in DOMAIN c2s[c] : i \in Nat /\ i >= 1
        BY <1>1, TailFacts
      <4>1. ASSUME NEW i \in DOMAIN c2s[c] PROVE h.ver <= c2s[c][i].ver
        <5>1. c2s[c][1].ver \in Nat BY <1>0, <4>0, Numbers, Zenon
        <5>2. CASE i = 1 BY <4>0, <5>1, <5>2
        <5>3. CASE i # 1
          <6>1. 1 < i BY <4>0, <5>3
          <6> QED BY <1>0, <4>0, <6>1, Zenon DEF ConnInv, Rising
        <5> QED BY <5>2, <5>3, Zenon
      <4> QED BY <1>0, <1>1, <1>3, <3>0, <4>1, TailFacts DEF ConnInv, Rising
    <3>3. h.ver <= version BY <1>0, <1>1, TailFacts DEF ConnInv, Rising
    <3>4. conn[c] = "open" => h.ver = welcomed[c]
      BY <1>0, <1>1, TailFacts DEF ConnInv, Welcome, MuxRegister
    <3>5. e.kind = "welcome" /\ e.ver = h.ver BY Zenon DEF Frame
    <3>6. Len(<<e>>) = 1 /\ DOMAIN <<e>> = {1} /\ <<e>>[1] = e BY SMTT(20)
    <3>7. Answers(c)' /\ Welcome(c)'
      BY <1>2, <1>3, <3>0, <3>4, <3>5, <3>6 DEF Answers, Welcome, Versions
    <3>8. Bounds(c)' BY <1>0, <1>3, <3>0, <3>3, <3>5, <3>6, Zenon DEF Bounds, ConnInv
    <3>9. conn[c] # "reg" BY <1>0, Zenon DEF ConnInv, Channels, MuxRegister
    <3> QED BY <2>0, <2>2, <3>0, <3>1, <3>2, <3>7, <3>8, <3>9, Zenon DEF ConnInv, Asked, Clean
  <2> QED BY <2>1, <2>2, Zenon
<1> QED BY <1>4, <1>5, <1>6, Zenon DEF IInv

LEMMA HandlePeerControlStep == ASSUME IInv, NEW c \in Conns, HandlePeerControl(c) PROVE IInv'
<1> DEFINE S == [kind : Kinds, ver : Versions]
           h == Head(c2s[c])
<1> USE RoutingAssumption
<1>0. TypeOK /\ Counted /\ ConnInv(c) /\ mux[c] = "up" BY Zenon DEF IInv, HandlePeerControl
<1>1. c2s[c] \in Seq(S) /\ c2s[c] # <<>> /\ s2c[c] \in Seq(S) BY <1>0, Zenon DEF TypeOK, HandlePeerControl
<1>2. h \in S /\ h.ver \in Versions
  <2>1. h \in S BY <1>1, TailFacts, Zenon
  <2> QED BY <2>1, Zenon
<1>3. PICK kind \in {"status", "refusal"} :
        /\ c2s' = [c2s EXCEPT ![c] = Tail(c2s[c])]
        /\ s2c' = [s2c EXCEPT ![c] = IF Len(@) < Room THEN Append(@, Frame(kind, h.ver)) ELSE @]
        /\ inEffect' = IF kind = "status" THEN [inEffect EXCEPT ![c] = h.ver] ELSE inEffect
        /\ UNCHANGED <<client, mux, routed>>
  BY Zenon DEF HandlePeerControl, Popped
<1> DEFINE e == Frame(kind, h.ver)
<1>4. e \in S /\ e.kind = kind /\ e.ver = h.ver BY <1>2, Zenon DEF Frame, Kinds
<1>5. /\ c2s'[c] = Tail(c2s[c]) /\ (s2c'[c] = s2c[c] \/ s2c'[c] = Append(s2c[c], e))
      /\ inEffect'[c] = IF kind = "status" THEN h.ver ELSE inEffect[c]
      /\ inEffect' \in [Conns -> Versions]
      /\ UNCHANGED <<version, takes, conn, welcomed, acked, request, mux>>
  BY <1>0, <1>2, <1>3, Zenon DEF TypeOK, client
<1> HIDE DEF e
<1>6. TypeOK'
  <2>1. Tail(c2s[c]) \in Seq(S) /\ Append(s2c[c], e) \in Seq(S) BY <1>1, <1>4, TailFacts, AppendFacts, Zenon
  <2>2. c2s' \in [Conns -> Seq(S)] /\ s2c' \in [Conns -> Seq(S)] BY <1>0, <1>3, <2>1, Zenon DEF TypeOK, e
  <2> QED BY <1>0, <1>3, <1>5, <2>2, Zenon DEF TypeOK, client
<1>7. Counted' BY <1>0, <1>3, Zenon DEF Counted, client
<1>8. ASSUME NEW d \in Conns PROVE ConnInv(d)'
  <2>0. ConnInv(d) /\ Confirming(d)' BY <1>3, Zenon DEF IInv, ConnInv, Confirming, client
  <2>1. CASE d # c BY <1>0, <1>3, <2>0, <2>1, OthersKeep, Zenon DEF TypeOK, client
  <2>2. CASE d = c
    <3>1. Channels(c)' BY <1>0, <1>5, Zenon DEF Channels, ConnInv
    <3>2. \A i \in DOMAIN c2s[c] : h.ver <= c2s[c][i].ver
      BY <1>0, <1>1, TailFacts, Numbers DEF ConnInv, Rising
    <3>3. inEffect[c] <= h.ver /\ h.ver <= version
      BY <1>0, <1>1, TailFacts DEF ConnInv, Rising
    <3>4. inEffect[c] <= inEffect'[c] /\ inEffect'[c] <= h.ver /\ (kind = "status" => inEffect'[c] = h.ver)
      BY <1>0, <1>2, <1>5, <3>3, Numbers DEF Versions
    <3>N. inEffect'[c] \in Nat /\ h.ver \in Nat BY <1>0, <1>2, <1>5 DEF Versions
    <3>5. Rising(c)'
      <4>1. \A i \in DOMAIN c2s[c] : inEffect'[c] <= c2s[c][i].ver
        BY <1>0, <1>2, <3>2, <3>4, <3>N, Numbers
      <4>2. \A i \in DOMAIN c2s'[c] : i \in Int /\ i + 1 \in DOMAIN c2s[c] /\ c2s'[c][i] = c2s[c][i + 1]
        <5>1. /\ DOMAIN Tail(c2s[c]) = 1 .. Len(c2s[c]) - 1 /\ DOMAIN c2s[c] = 1 .. Len(c2s[c]) /\ Len(c2s[c]) \in Nat
              /\ \A i \in 1 .. Len(c2s[c]) - 1 : Tail(c2s[c])[i] = c2s[c][i + 1]
          BY <1>1, TailFacts, Zenon
        <5> QED BY <1>5, <5>1
      <4>3. Rising(c) /\ UNCHANGED <<version, mux>> BY <1>0, <1>5, Zenon DEF ConnInv
      <4> QED BY <4>1, <4>2, <4>3 DEF Rising
    <3>7. Answers(c)'
      <4>1. CASE s2c'[c] = s2c[c]
        BY <1>0, <1>5, <3>4, <3>N, <4>1, Numbers DEF ConnInv, Answers
      <4>2. CASE s2c'[c] = Append(s2c[c], e)
        <5> DEFINE n == Len(s2c[c])
        <5>1. \A i \in DOMAIN s2c'[c] : (i \in DOMAIN s2c[c] /\ s2c'[c][i] = s2c[c][i]) \/ s2c'[c][i] = e
          BY <1>1, <1>4, <4>2, AppendFacts
        <5>2. ASSUME NEW i \in DOMAIN s2c'[c], s2c'[c][i].kind \in {"status", "welcome"}
              PROVE  s2c'[c][i].ver <= inEffect'[c]
          BY <1>0, <1>3, <1>4, <3>4, <3>N, <5>1, <5>2, Numbers DEF ConnInv, Answers
        <5>3. ASSUME NEW i \in DOMAIN s2c'[c], NEW j \in DOMAIN s2c'[c], i < j,
                     s2c'[c][i].kind \in {"status", "welcome"}, s2c'[c][j].kind = "message"
              PROVE  s2c'[c][i].ver <= s2c'[c][j].ver
          <6>1. j \in DOMAIN s2c[c] /\ s2c'[c][j] = s2c[c][j] BY <1>4, <5>1, <5>3, Zenon
          <6>2. i \in DOMAIN s2c[c] /\ s2c'[c][i] = s2c[c][i] BY <1>1, <1>4, <4>2, <5>3, <6>1, AppendFacts
          <6> QED BY <1>0, <5>3, <6>1, <6>2, Zenon DEF ConnInv, Answers
        <5> QED BY <5>2, <5>3, Zenon DEF Answers
      <4> QED BY <1>5, <4>1, <4>2, Zenon
    <3>8. Welcome(c)'
      <4>1. CASE s2c'[c] = s2c[c] BY <1>0, <1>5, <4>1, Zenon DEF ConnInv, Welcome
      <4>2. CASE s2c'[c] = Append(s2c[c], e)
        BY <1>0, <1>1, <1>4, <1>5, <4>2, AppendFacts DEF ConnInv, Welcome
      <4> QED BY <1>5, <4>1, <4>2, Zenon
    <3>9. Bounds(c)' /\ Clean(c)'
      <4>0. inEffect'[c] <= version /\ (inEffect[c] >= version => inEffect'[c] >= version)
        BY <1>0, <3>3, <3>4, <3>N, Numbers
      <4>1. CASE s2c'[c] = s2c[c] BY <1>0, <1>5, <4>0, <4>1, Zenon DEF ConnInv, Bounds, Clean
      <4>2. CASE s2c'[c] = Append(s2c[c], e)
        <5>1. \A i \in DOMAIN s2c'[c] : s2c'[c][i].kind = "message" => i \in DOMAIN s2c[c] /\ s2c'[c][i] = s2c[c][i]
          BY <1>1, <1>4, <4>2, AppendFacts
        <5> QED BY <1>0, <1>5, <4>0, <5>1, Zenon DEF ConnInv, Bounds, Clean
      <4> QED BY <1>5, <4>1, <4>2, Zenon
    <3> QED BY <1>0, <1>5, <2>0, <2>2, <3>1, <3>5, <3>7, <3>8, <3>9, Zenon DEF ConnInv, Asked
  <2> QED BY <2>1, <2>2, Zenon
<1> QED BY <1>6, <1>7, <1>8, Zenon DEF IInv

LEMMA MuxRouteStep == ASSUME IInv, NEW c \in Conns, MuxRoute(c) PROVE IInv'
<1> DEFINE S == [kind : Kinds, ver : Versions]
           e == Frame("message", inEffect[c])
<1> USE RoutingAssumption
<1>0. TypeOK /\ Counted /\ ConnInv(c) /\ takes[inEffect[c]] BY Zenon DEF IInv, MuxRoute
<1>1. s2c[c] \in Seq(S) /\ e \in S /\ e.kind = "message" /\ e.ver = inEffect[c] /\ inEffect[c] \in Versions
  BY <1>0, Zenon DEF TypeOK, Frame, Kinds
<1>2. /\ s2c' = [s2c EXCEPT ![c] = Append(s2c[c], e)] /\ s2c'[c] = Append(s2c[c], e)
      /\ UNCHANGED <<client, c2s, mux, inEffect>> /\ routed' = routed + 1
  BY <1>0, Zenon DEF MuxRoute, TypeOK
<1> HIDE DEF e
<1>3. TypeOK'
  <2>1. Append(s2c[c], e) \in Seq(S) BY <1>1, AppendFacts, Zenon
  <2>2. s2c' \in [Conns -> Seq(S)]
    <3>1. s2c \in [Conns -> Seq(S)] BY <1>0, Zenon DEF TypeOK
    <3> HIDE DEF S
    <3> QED BY <1>2, <2>1, <3>1, ChangedAt, Zenon
  <2>3. routed' \in Nat BY <1>0, <1>2 DEF TypeOK
  <2> QED BY <1>0, <1>2, <2>2, <2>3, Zenon DEF TypeOK, client
<1>4. Counted' BY <1>0, <1>2, Zenon DEF Counted, client
<1>5. ASSUME NEW d \in Conns PROVE ConnInv(d)'
  <2>0. ConnInv(d) /\ Confirming(d)' BY <1>2, Zenon DEF IInv, ConnInv, Confirming, client
  <2>1. CASE d # c BY <1>0, <1>2, <2>0, <2>1, OthersKeep, Zenon DEF TypeOK, client
  <2>2. CASE d = c
    <3>0. UNCHANGED <<version, takes, conn, welcomed, acked, request>> BY <1>2, Zenon DEF client
    <3>1. Channels(c)' /\ Rising(c)' /\ Asked(c)'
      BY <1>0, <1>2, <3>0, Zenon DEF ConnInv, Channels, Rising, Asked, MuxRoute
    <3>2. Answers(c)'
      <4>1. \A i \in DOMAIN s2c'[c] :
               \/ i \in DOMAIN s2c[c] /\ s2c'[c][i] = s2c[c][i]
               \/ s2c'[c][i] = e /\ \A j \in DOMAIN s2c'[c] : ~(i < j)
        BY <1>1, <1>2, AppendFacts
      <4>2. Answers(c) /\ inEffect'[c] = inEffect[c] BY <1>0, <1>2, Zenon DEF ConnInv
      <4>3. e.kind = "message" /\ e.ver = inEffect[c] BY <1>1, Zenon
      <4> QED BY <4>1, <4>2, <4>3, Zenon DEF Answers
    <3>3. Welcome(c)' BY <1>0, <1>1, <1>2, <3>0, AppendFacts DEF ConnInv, Welcome
    <3>4. Bounds(c)' /\ Clean(c)' BY <1>0, <1>1, <1>2, <3>0, AppendFacts DEF ConnInv, Bounds, Clean
    <3> QED BY <2>0, <2>2, <3>1, <3>2, <3>3, <3>4, Zenon DEF ConnInv
  <2> QED BY <2>1, <2>2, Zenon
<1> QED BY <1>3, <1>4, <1>5, Zenon DEF IInv

LEMMA MuxGoneStep == ASSUME IInv, NEW c \in Conns, MuxGone(c) PROVE IInv'
<1> USE RoutingAssumption
<1>0. TypeOK /\ Counted BY Zenon DEF IInv
<1>1. mux' = [mux EXCEPT ![c] = "gone"] /\ mux[c] = "up" /\ UNCHANGED <<client, c2s, s2c, inEffect, routed>>
  BY Zenon DEF MuxGone
<1>2. TypeOK' /\ Counted' BY <1>0, <1>1, ZenonT(40) DEF TypeOK, Counted, client
<1>3. ASSUME NEW d \in Conns PROVE ConnInv(d)'
  <2>1. (mux'[d] = "none") = (mux[d] = "none") /\ ConnInv(d) BY <1>0, <1>1, Zenon DEF TypeOK, IInv
  <2> QED BY <1>0, <1>1, <2>1, Zenon
        DEF client, ConnInv, Channels, Rising, Answers, Welcome, Bounds, Asked, Clean, Confirming
<1> QED BY <1>2, <1>3, Zenon DEF IInv

-----------------------------------------------------------------------------
(* The client's steps.                                                     *)

\* Taking the head off the channel back keeps what is said of the rest.
LEMMA PoppedKeeps ==
    ASSUME NEW c \in Conns, TypeOK, ConnInv(c), s2c[c] # <<>>, s2c' = Popped(s2c, c),
           UNCHANGED <<version, takes, welcomed, inEffect, mux>>,
           conn'[c] = "open" => conn[c] = "open", c2s'[c] = c2s[c] \/ mux[c] # "none"
    PROVE  /\ s2c'[c] = Tail(s2c[c]) /\ s2c' \in [Conns -> Seq([kind : Kinds, ver : Versions])]
           /\ \A d \in Conns : d # c => s2c'[d] = s2c[d]
           /\ Answers(c)' /\ Welcome(c)'
           /\ \A i \in DOMAIN s2c'[c] : s2c'[c][i].kind = "message" => s2c'[c][i].ver <= version /\ takes[s2c'[c][i].ver]
           /\ \A i \in DOMAIN s2c'[c] : \E j \in DOMAIN s2c[c] : 1 < j /\ s2c'[c][i] = s2c[c][j]
<1> DEFINE S == [kind : Kinds, ver : Versions]
<1>1. s2c \in [Conns -> Seq(S)] BY Zenon DEF TypeOK
<1> HIDE DEF S
<1>2. s2c[c] \in Seq(S) BY <1>1, Zenon
<1>3. Tail(s2c[c]) \in Seq(S) BY <1>2, TailFacts, Zenon
<1>4. s2c' = [s2c EXCEPT ![c] = Tail(s2c[c])] BY Zenon DEF Popped
<1>5. s2c'[c] = Tail(s2c[c]) /\ s2c' \in [Conns -> Seq(S)] /\ \A d \in Conns : d # c => s2c'[d] = s2c[d]
  BY <1>1, <1>3, <1>4, ChangedAt, Zenon
<1>6. /\ DOMAIN s2c'[c] = 1 .. Len(s2c[c]) - 1 /\ DOMAIN s2c[c] = 1 .. Len(s2c[c]) /\ Len(s2c[c]) \in Nat
      /\ \A i \in 1 .. Len(s2c[c]) - 1 : s2c'[c][i] = s2c[c][i + 1]
  BY <1>2, <1>5, TailFacts
<1>7. \A i \in DOMAIN s2c'[c] : i + 1 \in DOMAIN s2c[c] /\ 1 < i + 1 /\ s2c'[c][i] = s2c[c][i + 1] /\ i \in Nat
  BY <1>6
<1>8. Answers(c)'
  <2>1. ASSUME NEW i \in DOMAIN s2c'[c], NEW j \in DOMAIN s2c'[c], i < j PROVE i + 1 < j + 1 BY <1>7, <2>1
  <2> QED BY <1>7, <2>1 DEF ConnInv, Answers
<1>9. mux[c] = "none" => s2c[c] = <<>> BY Zenon DEF ConnInv, Channels
<1>10. Welcome(c)' BY <1>7, <1>9, Zenon DEF ConnInv, Welcome
<1> QED BY <1>5, <1>7, <1>8, <1>10, ZenonT(40) DEF ConnInv, Bounds, S

\* What has nothing older behind it still has none once the head is taken.
LEMMA PoppedClean ==
    ASSUME NEW c \in Conns, Clean(c), UNCHANGED <<version, inEffect>>, acked'[c] = acked[c],
           conn'[c] = "reg" => conn[c] = "reg",
           \A i \in DOMAIN s2c'[c] : \E j \in DOMAIN s2c[c] : 1 < j /\ s2c'[c][i] = s2c[c][j]
    PROVE  Clean(c)'
<1> SUFFICES ASSUME conn[c] = "reg", acked[c] = version
             PROVE  /\ inEffect[c] >= version
                    /\ \A i \in DOMAIN s2c'[c] : s2c'[c][i].kind = "message" => s2c'[c][i].ver >= version
  BY Zenon DEF Clean
<1>1. /\ inEffect[c] >= version
      /\ \A j \in DOMAIN s2c[c] : s2c[c][j].kind = "message" => s2c[c][j].ver >= version
  BY Zenon DEF Clean
<1>2. ASSUME NEW i \in DOMAIN s2c'[c], s2c'[c][i].kind = "message" PROVE s2c'[c][i].ver >= version
  <2>1. PICK j \in DOMAIN s2c[c] : s2c'[c][i] = s2c[c][j] BY Zenon
  <2> QED BY <1>1, <1>2, <2>1, Zenon
<1> QED BY <1>1, <1>2, Zenon

\* What the head of the channel back says, when it is an answer.
LEMMA HeadAnswers ==
    ASSUME NEW c \in Conns, TypeOK, ConnInv(c), s2c[c] # <<>>, Head(s2c[c]).kind \in {"status", "welcome"}
    PROVE  /\ Head(s2c[c]).ver <= inEffect[c] /\ Head(s2c[c]).ver \in Nat
           /\ \A j \in DOMAIN s2c[c] :
                 1 < j /\ s2c[c][j].kind = "message" => Head(s2c[c]).ver <= s2c[c][j].ver
           /\ conn[c] = "open" /\ Head(s2c[c]).kind = "welcome" => Head(s2c[c]).ver = welcomed[c]
<1> DEFINE S == [kind : Kinds, ver : Versions]
<1>1. s2c[c] \in Seq(S) BY Zenon DEF TypeOK
<1>2. Head(s2c[c]) = s2c[c][1] /\ 1 \in DOMAIN s2c[c]
  <2> HIDE DEF S
  <2> QED BY <1>1, TailFacts
<1>3. Answers(c) /\ Welcome(c) BY Zenon DEF ConnInv
<1>4. s2c[c][1].ver \in Nat BY <1>2, Numbers, Zenon
<1>5. /\ s2c[c][1].ver <= inEffect[c]
      /\ \A j \in DOMAIN s2c[c] : 1 < j /\ s2c[c][j].kind = "message" => s2c[c][1].ver <= s2c[c][j].ver
  BY <1>2, <1>3, Zenon DEF Answers
<1>6. conn[c] = "open" /\ s2c[c][1].kind = "welcome" => s2c[c][1].ver = welcomed[c] BY <1>2, <1>3, Zenon DEF Welcome
<1> QED BY <1>2, <1>4, <1>5, <1>6

\* send_routing appends the change of now to the channel of each of S.
LEMMA SendRoutingKeeps ==
    ASSUME TypeOK, NEW T, NEW v \in Versions, SendRouting(T, v), NEW c \in Conns
    PROVE  /\ request' \in [Conns -> Versions]
           /\ request'[c] = IF c \in T THEN v ELSE request[c]
           /\ c2s' \in [Conns -> Seq([kind : Kinds, ver : Versions])]
           /\ c \notin T => c2s'[c] = c2s[c]
           /\ DOMAIN c2s[c] \in SUBSET Nat
           /\ \A i \in DOMAIN c2s'[c] :
                 \/ i \in DOMAIN c2s[c] /\ c2s'[c][i] = c2s[c][i]
                 \/ c2s'[c][i].ver = v /\ \A j \in DOMAIN c2s'[c] : i <= j => c2s'[c][j].ver = v
<1> DEFINE S == [kind : Kinds, ver : Versions]
           e == Frame("control", v)
<1>1. c2s \in [Conns -> Seq(S)] /\ request \in [Conns -> Versions] BY Zenon DEF TypeOK
<1>2. e \in S /\ e.ver = v BY Zenon DEF Frame, Kinds
<1>3. /\ request' = [d \in Conns |-> IF d \in T THEN v ELSE request[d]]
      /\ c2s' = [d \in Conns |-> IF d \in T /\ Len(c2s[d]) < Room THEN Append(c2s[d], e) ELSE c2s[d]]
  BY Zenon DEF SendRouting
<1> HIDE DEF S, e
<1>4. \A d \in Conns : c2s[d] \in Seq(S) /\ Append(c2s[d], e) \in Seq(S) BY <1>1, <1>2, AppendFacts, Zenon
<1>5. c2s' \in [Conns -> Seq(S)] BY <1>3, <1>4, Zenon
<1>6. c2s'[c] = c2s[c] \/ (c \in T /\ c2s'[c] = Append(c2s[c], e))
  <2>1. c2s'[c] = IF c \in T /\ Len(c2s[c]) < Room THEN Append(c2s[c], e) ELSE c2s[c] BY <1>3, Zenon
  <2> QED BY <2>1, Zenon
<1>7. /\ DOMAIN c2s[c] = 1 .. Len(c2s[c]) /\ Len(c2s[c]) \in Nat
      /\ DOMAIN Append(c2s[c], e) = 1 .. Len(c2s[c]) + 1
      /\ \A i \in 1 .. Len(c2s[c]) : Append(c2s[c], e)[i] = c2s[c][i]
      /\ Append(c2s[c], e)[Len(c2s[c]) + 1] = e
  BY <1>2, <1>4, AppendFacts
<1>8. \A i \in DOMAIN c2s'[c] :
         \/ i \in DOMAIN c2s[c] /\ c2s'[c][i] = c2s[c][i]
         \/ c2s'[c][i].ver = v /\ \A j \in DOMAIN c2s'[c] : i <= j => c2s'[c][j].ver = v
  <2>1. CASE c2s'[c] = c2s[c] BY <2>1, Zenon
  <2>2. CASE c2s'[c] = Append(c2s[c], e)
    <3>1. c2s'[c][Len(c2s[c]) + 1].ver = v /\ DOMAIN c2s'[c] = 1 .. Len(c2s[c]) + 1 BY <1>2, <1>7, <2>2, Zenon
    <3>2. \A i \in 1 .. Len(c2s[c]) : c2s'[c][i] = c2s[c][i] BY <1>7, <2>2, Zenon
    <3>3. ASSUME NEW i \in DOMAIN c2s'[c]
          PROVE  i \in 1 .. Len(c2s[c]) \/ (i = Len(c2s[c]) + 1 /\ \A j \in DOMAIN c2s'[c] : i <= j => j = i)
      BY <1>7, <3>1
    <3> QED BY <1>7, <3>1, <3>2, <3>3, Zenon
  <2> QED BY <1>6, <2>1, <2>2, Zenon
<1>9. request' \in [Conns -> Versions] /\ request'[c] = IF c \in T THEN v ELSE request[c] BY <1>1, <1>3, Zenon
<1>10. DOMAIN c2s[c] \in SUBSET Nat BY <1>7
<1>11. c \notin T => c2s'[c] = c2s[c] BY <1>6, Zenon
<1> QED BY <1>5, <1>8, <1>9, <1>10, <1>11, Zenon DEF S

\* A frame sent now is behind, and no older than, everything sent before.
LEMMA RisingKept ==
    ASSUME TypeOK, TypeOK', NEW c \in Conns, ConnInv(c), version <= version', UNCHANGED <<mux, inEffect>>,
           DOMAIN c2s[c] \in SUBSET Nat,
           \A i \in DOMAIN c2s'[c] :
              \/ i \in DOMAIN c2s[c] /\ c2s'[c][i] = c2s[c][i]
              \/ c2s'[c][i].ver = version' /\ \A j \in DOMAIN c2s'[c] : i <= j => c2s'[c][j].ver = version'
    PROVE  Rising(c)'
<1>1. DOMAIN c2s'[c] \in SUBSET Nat
  <2> DEFINE S == [kind : Kinds, ver : Versions]
  <2>1. c2s'[c] \in Seq(S) BY ZenonT(40) DEF TypeOK
  <2> HIDE DEF S
  <2> QED BY <2>1
<1>2. version \in Nat /\ version' \in Nat /\ inEffect[c] \in Nat /\ inEffect[c] <= version
      /\ (\A i \in DOMAIN c2s[c] : c2s[c][i].ver \in Nat)
  <2>1. version' \in Versions BY Zenon DEF TypeOK
  <2>2. version' \in Nat BY <2>1, RoutingAssumption DEF Versions
  <2>3. inEffect[c] <= version BY Zenon DEF ConnInv, Bounds
  <2> QED BY <2>2, <2>3, Numbers, Zenon
<1>3. \A i \in DOMAIN c2s'[c] : c2s'[c][i].ver <= version' BY <1>2 DEF ConnInv, Rising
<1>4. mux[c] # "none" => \A i \in DOMAIN c2s'[c] : inEffect[c] <= c2s'[c][i].ver BY <1>2 DEF ConnInv, Rising
<1>5. ASSUME NEW i \in DOMAIN c2s'[c], NEW j \in DOMAIN c2s'[c], i < j PROVE c2s'[c][i].ver <= c2s'[c][j].ver
  <2>1. CASE c2s'[c][j].ver = version' BY <1>3, <2>1, Zenon
  <2>2. CASE c2s'[c][j].ver # version'
    <3>1. j \in DOMAIN c2s[c] /\ c2s'[c][j] = c2s[c][j] BY <2>2, Zenon
    <3>2. i \in DOMAIN c2s[c] /\ c2s'[c][i] = c2s[c][i] BY <1>1, <1>5, <2>2
    <3> QED BY <1>5, <3>1, <3>2, Zenon DEF ConnInv, Rising
  <2> QED BY <2>1, <2>2, Zenon
<1> QED BY <1>3, <1>4, <1>5, Zenon DEF Rising

-----------------------------------------------------------------------------
\* What waits is of versions up to now.
LEMMA Waiting == ASSUME TypeOK PROVE \A i \in DOMAIN incoming : incoming[i].ver \in Versions /\ incoming[i].ver \in Nat
<1>1. incoming \in Seq(Arrivals) BY Zenon DEF TypeOK
<1>2. \A i \in DOMAIN incoming : incoming[i] \in Arrivals BY <1>1, Element, Zenon
<1>3. \A i \in DOMAIN incoming : incoming[i].ver \in Versions BY <1>2, Zenon DEF Arrivals
<1> QED BY <1>3, RoutingAssumption DEF Versions

LEMMA SetRoutingStep ==
    ASSUME IInv, NEW on \in BOOLEAN, NEW callback \in BOOLEAN, SetRouting(on, callback) PROVE IInv'
<1> DEFINE T == {c \in Conns : conn[c] = "reg"}
           waiting == callbacks \cup {v \in {version + 1} : callback}
<1> USE RoutingAssumption
<1>0. TypeOK /\ Counted BY Zenon DEF IInv
<1>1. /\ version < MaxVersion /\ version' = version + 1 /\ takes' = [takes EXCEPT ![version + 1] = on]
      /\ SendRouting(T, version + 1) /\ UpdateConfirmation(FALSE, waiting)
      /\ UNCHANGED <<conn, welcomed, acked, enqueued, dequeued, incoming, s2c, mux, inEffect, routed>>
  BY Zenon DEF SetRouting, server
<1>2. version \in Nat /\ version' \in Versions /\ waiting \in SUBSET Versions /\ version \in Versions
  <2>1. version \in Versions /\ callbacks \in SUBSET Versions BY <1>0, Zenon DEF TypeOK
  <2>2. version \in Nat /\ version + 1 \in Versions BY <1>1, <2>1 DEF Versions
  <2> QED BY <1>1, <2>1, <2>2, Zenon
<1> HIDE DEF T, waiting
<1>3. \A v \in Versions : v <= version => takes'[v] = takes[v] BY <1>0, <1>1, <1>2 DEF TypeOK, Versions
<1>4. \A i \in DOMAIN incoming : incoming[i].ver \in Versions /\ incoming[i].ver \in Nat BY <1>0, Waiting, Zenon
<1>5. \A i \in DOMAIN incoming : incoming[i].ver <= version' /\ takes'[incoming[i].ver]
  BY <1>0, <1>1, <1>2, <1>3, <1>4 DEF Counted
<1>6. /\ confirmed' = AllConfirmed'
      /\ confirmed' \in BOOLEAN /\ confirmedEnqueued' \in Nat /\ wake' \in BOOLEAN
      /\ ackedVersion' \in Versions /\ callbacks' \subseteq Versions /\ Counted'
  BY <1>0, <1>1, <1>2, <1>5, ConfirmationKeeps, Zenon
<1>7. TypeOK'
  <2>1. version' \in Versions /\ version + 1 \in Versions BY <1>1, <1>2, Zenon
  <2>2. takes' \in [Versions -> BOOLEAN] BY <1>0, <1>1, <2>1, Zenon DEF TypeOK
  <2>3. CASE Conns = {} BY <1>0, <1>1, <1>6, <2>1, <2>2, <2>3, Zenon DEF TypeOK, SendRouting
  <2>4. CASE Conns # {}
    <3>1. request' \in [Conns -> Versions] /\ c2s' \in [Conns -> Seq([kind : Kinds, ver : Versions])]
      BY <1>0, <1>1, <2>1, <2>4, SendRoutingKeeps, Zenon
    <3> QED BY <1>0, <1>1, <1>6, <2>1, <2>2, <3>1, Zenon DEF TypeOK
  <2> QED BY <2>3, <2>4, Zenon
<1>8. ASSUME NEW c \in Conns PROVE ConnInv(c)'
  <2>0. ConnInv(c) /\ Confirming(c)' BY <1>6, AllConfirming, Zenon DEF IInv
  <2>1. version + 1 \in Versions BY <1>1, <1>2, Zenon
  <2>2. /\ request'[c] = IF c \in T THEN version + 1 ELSE request[c]
        /\ c \notin T => c2s'[c] = c2s[c] /\ DOMAIN c2s[c] \in SUBSET Nat
        /\ DOMAIN c2s[c] \in SUBSET Nat
        /\ \A i \in DOMAIN c2s'[c] :
              \/ i \in DOMAIN c2s[c] /\ c2s'[c][i] = c2s[c][i]
              \/ c2s'[c][i].ver = version + 1 /\ \A j \in DOMAIN c2s'[c] : i <= j => c2s'[c][j].ver = version + 1
    BY <1>0, <1>1, <2>1, SendRoutingKeeps
  <2>3. version <= version' BY <1>1, <1>2
  <2>4. Rising(c)' BY <1>0, <1>1, <1>7, <2>0, <2>2, <2>3, RisingKept, Zenon
  <2>5. (c \in T) = (conn[c] = "reg") BY DEF T
  <2>6. Channels(c)' BY <1>1, <2>0, <2>2, <2>5, ZenonT(40) DEF ConnInv, Channels
  <2>7. Answers(c)' BY <1>1, <2>0, ZenonT(40) DEF ConnInv, Answers
  <2>8. Welcome(c)' BY <1>1, <2>0, <2>2, <2>5, ZenonT(40) DEF ConnInv, Welcome
  <2>9. Bounds(c)'
    <3>1. \A i \in DOMAIN s2c[c] : s2c[c][i].ver \in Versions
      <4>1. s2c[c] \in Seq([kind : Kinds, ver : Versions]) BY <1>0, Zenon DEF TypeOK
      <4>2. \A i \in DOMAIN s2c[c] : s2c[c][i] \in [kind : Kinds, ver : Versions] BY <4>1, Element, Zenon
      <4> QED BY <4>2, Zenon
    <3>2. \A i \in DOMAIN s2c[c] : s2c[c][i].kind = "message" => s2c[c][i].ver <= version' /\ takes'[s2c[c][i].ver]
      BY <1>0, <1>1, <1>2, <1>3, <2>0, <3>1, Numbers DEF ConnInv, Bounds
    <3>3. inEffect[c] <= version' /\ acked[c] <= version' /\ welcomed[c] <= version'
      BY <1>0, <1>1, <1>2, <2>0, Numbers DEF ConnInv, Bounds
    <3> QED BY <1>1, <3>2, <3>3, Zenon DEF Bounds
  <2>10. Asked(c)' BY <1>1, <2>2, <2>5, ZenonT(40) DEF Asked
  <2>11. acked[c] # version' BY <1>0, <1>1, <1>2, <2>0, Numbers DEF ConnInv, Bounds
  <2>12. Clean(c)' BY <1>1, <2>11, Zenon DEF Clean
  <2> QED BY <2>0, <2>4, <2>6, <2>7, <2>8, <2>9, <2>10, <2>12, Zenon DEF ConnInv
<1> QED BY <1>6, <1>7, <1>8, Zenon DEF IInv

LEMMA OpenStep == ASSUME IInv, NEW c \in Conns, Open(c) PROVE IInv'
<1> DEFINE S == [kind : Kinds, ver : Versions]
           e == Frame("welcome", version)
<1> USE RoutingAssumption
<1>0. TypeOK /\ Counted /\ ConnInv(c) /\ mux[c] = "none" /\ s2c[c] = <<>>
  BY Zenon DEF IInv, ConnInv, Channels, Open
<1>1. e \in S /\ e.ver = version /\ version \in Versions BY <1>0, Zenon DEF TypeOK, Frame, Kinds
<1>2. /\ conn' = [conn EXCEPT ![c] = "open"] /\ conn'[c] = "open"
      /\ welcomed' = [welcomed EXCEPT ![c] = version] /\ welcomed'[c] = version
      /\ c2s' = [c2s EXCEPT ![c] = <<e>>] /\ c2s'[c] = <<e>>
      /\ UNCHANGED <<version, takes, acked, request, confirmed, confirmedEnqueued, enqueued, dequeued,
                     incoming, ackedVersion, callbacks, wake, s2c, mux, inEffect, routed>>
  BY <1>0, Zenon DEF Open, TypeOK, server
<1> HIDE DEF e
<1>3. <<e>> \in Seq(S) /\ DOMAIN <<e>> = {1} /\ <<e>>[1] = e BY <1>1
<1>4. TypeOK'
  <2>1. c2s' \in [Conns -> Seq(S)]
    <3>1. c2s \in [Conns -> Seq(S)] BY <1>0, Zenon DEF TypeOK
    <3> HIDE DEF S
    <3> QED BY <1>2, <1>3, <3>1, ChangedAt, Zenon
  <2> QED BY <1>0, <1>1, <1>2, <2>1, Zenon DEF TypeOK
<1>5. Counted' BY <1>0, <1>2, Zenon DEF Counted
<1>6. ASSUME NEW d \in Conns PROVE ConnInv(d)'
  <2>0. ConnInv(d) BY Zenon DEF IInv
  <2>1. CASE d # c
    <3>1. Confirming(d)' BY <1>0, <1>2, <2>0, <2>1, Zenon DEF ConnInv, Confirming, TypeOK
    <3> QED BY <1>0, <1>2, <2>0, <2>1, <3>1, OthersKeep, Zenon DEF TypeOK
  <2>2. CASE d = c
    <3>0. /\ conn'[c] = "open" /\ welcomed'[c] = version /\ c2s'[c] = <<e>>
          /\ UNCHANGED <<version, takes, acked, request, confirmed, s2c, mux, inEffect>>
      BY <1>2, Zenon
    <3>1. Channels(c)' /\ Answers(c)' /\ Asked(c)' /\ Clean(c)' /\ Confirming(c)'
      BY <1>0, <3>0 DEF Channels, Answers, Asked, Clean, Confirming
    <3>2. version <= version BY <1>1 DEF Versions
    <3>3. \A i \in DOMAIN c2s'[c] : c2s'[c][i].ver = version /\ i = 1 BY <1>1, <1>3, <3>0, Zenon
    <3>4. Welcome(c)' BY <1>0, <3>0, <3>3 DEF Welcome
    <3>5. Bounds(c)' BY <1>0, <3>0, <3>2, Zenon DEF ConnInv, Bounds
    <3>6. Rising(c)'
      <4>1. \A i, j \in DOMAIN c2s'[c] : ~(i < j) BY <3>3
      <4> QED BY <1>0, <3>0, <3>2, <3>3, <4>1, Zenon DEF Rising
    <3> QED BY <2>2, <3>1, <3>4, <3>5, <3>6, Zenon DEF ConnInv
  <2> QED BY <2>1, <2>2, Zenon
<1> QED BY <1>4, <1>5, <1>6, Zenon DEF IInv

LEMMA AfterConnectionRegistrationStep ==
    ASSUME IInv, NEW c \in Conns, AfterConnectionRegistration(c) PROVE IInv'
<1> DEFINE T == {d \in {c} : welcomed[c] # version}
<1> USE RoutingAssumption
<1>0. TypeOK /\ Counted /\ ConnInv(c) /\ version \in Versions BY Zenon DEF IInv, TypeOK
<1>1. /\ conn[c] = "open" /\ s2c[c] # <<>> /\ Head(s2c[c]).kind = "welcome"
      /\ conn' = [conn EXCEPT ![c] = "reg"] /\ acked' = [acked EXCEPT ![c] = welcomed[c]]
      /\ s2c' = Popped(s2c, c) /\ SendRouting(T, version) /\ UpdateConfirmation(confirmed, callbacks)
      /\ UNCHANGED <<version, takes, welcomed, enqueued, dequeued, incoming, mux, inEffect, routed>>
  BY Zenon DEF AfterConnectionRegistration, Arrives, server
<1>2. conn'[c] = "reg" /\ acked'[c] = welcomed[c] /\ acked' \in [Conns -> Versions]
      /\ conn' \in [Conns -> {"new", "open", "reg", "ending", "dead"}]
  BY <1>0, <1>1, Zenon DEF TypeOK
<1>3. mux[c] # "none" BY <1>0, <1>1, Zenon DEF ConnInv, Channels
<1> HIDE DEF T
<1>4. \A i \in DOMAIN incoming : incoming[i].ver <= version' /\ takes'[incoming[i].ver] BY <1>0, <1>1, Zenon DEF Counted
<1>5. /\ confirmed' = AllConfirmed'
      /\ confirmed' \in BOOLEAN /\ confirmedEnqueued' \in Nat /\ wake' \in BOOLEAN
      /\ ackedVersion' \in Versions /\ callbacks' \subseteq Versions /\ Counted'
  <2>1. confirmed \in BOOLEAN /\ callbacks \in SUBSET Versions BY <1>0, Zenon DEF TypeOK
  <2> QED BY <1>0, <1>1, <1>4, <2>1, ConfirmationKeeps, Zenon
<1>6. /\ s2c' \in [Conns -> Seq([kind : Kinds, ver : Versions])]
      /\ \A d \in Conns : d # c => s2c'[d] = s2c[d]
      /\ Answers(c)' /\ Welcome(c)'
      /\ \A i \in DOMAIN s2c'[c] : s2c'[c][i].kind = "message" => s2c'[c][i].ver <= version /\ takes[s2c'[c][i].ver]
      /\ \A i \in DOMAIN s2c'[c] : \E j \in DOMAIN s2c[c] : 1 < j /\ s2c'[c][i] = s2c[c][j]
  BY <1>0, <1>1, <1>3, PoppedKeeps, ZenonT(40)
<1>7. TypeOK'
  <2>1. request' \in [Conns -> Versions] /\ c2s' \in [Conns -> Seq([kind : Kinds, ver : Versions])]
    BY <1>0, <1>1, SendRoutingKeeps, Zenon
  <2> QED BY <1>0, <1>1, <1>2, <1>5, <1>6, <2>1, ZenonT(40) DEF TypeOK
<1>8. ASSUME NEW d \in Conns PROVE ConnInv(d)'
  <2>0. ConnInv(d) /\ Confirming(d)' BY <1>5, AllConfirming, Zenon DEF IInv
  <2>1. CASE d # c
    <3>1. d \notin T BY <2>1, Zenon DEF T
    <3>2. request'[d] = request[d] /\ c2s'[d] = c2s[d] BY <1>0, <1>1, <3>1, SendRoutingKeeps, ZenonT(40)
    <3> QED BY <1>0, <1>1, <1>6, <2>0, <2>1, <3>2, OthersKeep, ZenonT(40) DEF TypeOK
  <2>2. CASE d = c
    <3>1. /\ request'[c] = IF c \in T THEN version ELSE request[c]
          /\ DOMAIN c2s[c] \in SUBSET Nat
          /\ \A i \in DOMAIN c2s'[c] :
                \/ i \in DOMAIN c2s[c] /\ c2s'[c][i] = c2s[c][i]
                \/ c2s'[c][i].ver = version /\ \A j \in DOMAIN c2s'[c] : i <= j => c2s'[c][j].ver = version
      BY <1>0, <1>1, SendRoutingKeeps, ZenonT(40)
    <3>2. version <= version BY <1>0, Numbers
    <3>3. Rising(c)' BY <1>0, <1>1, <1>7, <3>1, <3>2, RisingKept, Zenon
    <3>4. Channels(c)' BY <1>0, <1>1, <1>2, <1>3, Zenon DEF Channels
    <3>5. Bounds(c)' BY <1>0, <1>1, <1>2, <1>6, Zenon DEF ConnInv, Bounds
    <3>6. (c \in T) = (welcomed[c] # version) BY DEF T
    <3>7. Asked(c)' BY <1>1, <1>2, <3>1, <3>6, ZenonT(40) DEF Asked
    <3>8. Clean(c)'
      <4>1. Head(s2c[c]).ver = welcomed[c] BY <1>0, <1>1, HeadAnswers, Zenon
      <4>2. welcomed[c] <= inEffect[c]
            /\ \A j \in DOMAIN s2c[c] : 1 < j /\ s2c[c][j].kind = "message" => welcomed[c] <= s2c[c][j].ver
        BY <1>0, <1>1, <4>1, HeadAnswers, Zenon
      <4>3. \A i \in DOMAIN s2c'[c] : s2c'[c][i].kind = "message" => welcomed[c] <= s2c'[c][i].ver
        BY <1>6, <4>2
      <4> QED BY <1>0, <1>1, <1>2, <4>2, <4>3, Numbers, ZenonT(40) DEF Clean
    <3> QED BY <1>6, <2>0, <2>2, <3>3, <3>4, <3>5, <3>7, <3>8, Zenon DEF ConnInv
  <2> QED BY <2>1, <2>2, Zenon
<1> QED BY <1>5, <1>7, <1>8, Zenon DEF IInv

LEMMA OnPeerStatusStep == ASSUME IInv, NEW c \in Conns, OnPeerStatus(c) PROVE IInv'
<1> USE RoutingAssumption
<1>0. TypeOK /\ Counted /\ ConnInv(c) BY Zenon DEF IInv
<1>1. /\ conn[c] \in {"reg", "ending"} /\ s2c[c] # <<>> /\ s2c' = Popped(s2c, c)
      /\ UNCHANGED <<version, takes, conn, welcomed, request, enqueued, dequeued, incoming, c2s, mux, inEffect, routed>>
  BY ZenonT(40) DEF OnPeerStatus, Arrives, Delivering, server
<1>2. /\ s2c' \in [Conns -> Seq([kind : Kinds, ver : Versions])]
      /\ \A d \in Conns : d # c => s2c'[d] = s2c[d]
      /\ Answers(c)' /\ Welcome(c)'
      /\ \A i \in DOMAIN s2c'[c] : s2c'[c][i].kind = "message" => s2c'[c][i].ver <= version /\ takes[s2c'[c][i].ver]
      /\ \A i \in DOMAIN s2c'[c] : \E j \in DOMAIN s2c[c] : 1 < j /\ s2c'[c][i] = s2c[c][j]
  BY <1>0, <1>1, PoppedKeeps, ZenonT(40)
<1>3. Channels(c)' /\ Rising(c)'
  <2>1. mux[c] # "none" BY <1>0, <1>1, ZenonT(40) DEF ConnInv, Channels
  <2> QED BY <1>0, <1>1, <2>1, ZenonT(40) DEF ConnInv, Channels, Rising
<1>4. CASE Head(s2c[c]).kind = "status" /\ Head(s2c[c]).ver = request[c]
  <2>1. acked' = [acked EXCEPT ![c] = version] /\ UpdateConfirmation(confirmed, callbacks)
    BY <1>1, <1>4, Zenon DEF OnPeerStatus, Arrives
  <2>2. acked'[c] = version /\ acked' \in [Conns -> Versions] BY <1>0, <2>1, Zenon DEF TypeOK
  <2>3. /\ confirmed' = AllConfirmed'
        /\ confirmed' \in BOOLEAN /\ confirmedEnqueued' \in Nat /\ wake' \in BOOLEAN
        /\ ackedVersion' \in Versions /\ callbacks' \subseteq Versions /\ Counted'
    <3>1. confirmed \in BOOLEAN /\ callbacks \in SUBSET Versions /\ version \in Versions BY <1>0, Zenon DEF TypeOK
    <3>2. \A i \in DOMAIN incoming : incoming[i].ver <= version' /\ takes'[incoming[i].ver] BY <1>0, <1>1, Zenon DEF Counted
    <3> QED BY <1>0, <1>1, <2>1, <3>1, <3>2, ConfirmationKeeps, Zenon
  <2>4. TypeOK' BY <1>0, <1>1, <1>2, <2>2, <2>3, ZenonT(40) DEF TypeOK
  <2>5. ASSUME NEW d \in Conns PROVE ConnInv(d)'
    <3>0. ConnInv(d) /\ Confirming(d)' BY <2>3, AllConfirming, Zenon DEF IInv
    <3>1. CASE d # c BY <1>0, <1>1, <1>2, <2>1, <3>0, <3>1, OthersKeep, ZenonT(40) DEF TypeOK
    <3>2. CASE d = c
      <4>1. Bounds(c)'
        <5>1. version <= version BY <1>0, Numbers
        <5>2. inEffect[c] <= version /\ welcomed[c] <= version BY <1>0, Zenon DEF ConnInv, Bounds
        <5> QED BY <1>1, <1>2, <2>2, <5>1, <5>2, Zenon DEF Bounds
      <4>2. Asked(c)' BY <1>1, <2>2, Zenon DEF Asked
      <4>3. Clean(c)'
        <5>1. CASE acked[c] = version
          <6>1. Clean(c) BY <1>0, Zenon DEF ConnInv
          <6> QED BY <1>1, <1>2, <2>2, <5>1, <6>1, PoppedClean, Zenon
        <5>0. CASE conn[c] # "reg" BY <1>1, <5>0, Zenon DEF Clean
        <5>2. CASE acked[c] # version /\ conn[c] = "reg"
          <6>1. Head(s2c[c]).ver = version BY <1>0, <1>1, <1>4, <5>2, ZenonT(40) DEF ConnInv, Asked
          <6>2. version <= inEffect[c]
                /\ \A j \in DOMAIN s2c[c] : 1 < j /\ s2c[c][j].kind = "message" => version <= s2c[c][j].ver
            BY <1>0, <1>1, <1>4, <6>1, HeadAnswers, ZenonT(40)
          <6>3. \A i \in DOMAIN s2c'[c] : s2c'[c][i].kind = "message" => version <= s2c'[c][i].ver BY <1>2, <6>2, ZenonT(20)
          <6> QED BY <1>1, <6>2, <6>3, Zenon DEF Clean
        <5> QED BY <5>0, <5>1, <5>2, Zenon
      <4> QED BY <1>2, <1>3, <3>0, <3>2, <4>1, <4>2, <4>3, ZenonT(40) DEF ConnInv
    <3> QED BY <3>1, <3>2
  <2> QED BY <2>3, <2>4, <2>5, Zenon DEF IInv
<1>5. CASE ~(Head(s2c[c]).kind = "status" /\ Head(s2c[c]).ver = request[c])
  <2>1. UNCHANGED <<acked, confirmed, confirmedEnqueued, ackedVersion, wake, callbacks>>
    BY <1>1, <1>5, Zenon DEF OnPeerStatus, Arrives
  <2>2. TypeOK' BY <1>0, <1>1, <1>2, <2>1, ZenonT(40) DEF TypeOK
  <2>3. Counted' BY <1>0, <1>1, <2>1, ZenonT(40) DEF Counted
  <2>4. ASSUME NEW d \in Conns PROVE ConnInv(d)'
    <3>0. ConnInv(d) BY Zenon DEF IInv
    <3>1. Confirming(d)' BY <1>1, <2>1, <3>0, ZenonT(40) DEF ConnInv, Confirming
    <3>2. CASE d # c BY <1>0, <1>1, <1>2, <2>1, <3>0, <3>1, <3>2, OthersKeep, ZenonT(40) DEF TypeOK
    <3>3. CASE d = c
      <4>1. Bounds(c)' BY <1>0, <1>1, <1>2, <2>1, ZenonT(40) DEF ConnInv, Bounds
      <4>2. Asked(c)' BY <1>0, <1>1, <2>1, ZenonT(40) DEF ConnInv, Asked
      <4>3. Clean(c) BY <1>0, Zenon DEF ConnInv
      <4>4. Clean(c)' BY <1>1, <1>2, <2>1, <4>3, PoppedClean, ZenonT(40)
      <4> QED BY <1>2, <1>3, <3>1, <3>3, <4>1, <4>2, <4>4, ZenonT(40) DEF ConnInv
    <3> QED BY <3>2, <3>3, Zenon
  <2> QED BY <2>2, <2>3, <2>4, Zenon DEF IInv
<1> QED BY <1>4, <1>5, Zenon

\* A message read and not queued, whatever became of it.
Dropped(c) ==
    /\ Delivering(c) /\ Arrives(c, "message") /\ s2c' = Popped(s2c, c)
    /\ UNCHANGED <<client, c2s, server>>

LEMMA HandleMessageStep == ASSUME IInv, NEW c \in Conns, HandleMessage(c) \/ Dropped(c) PROVE IInv'
<1> DEFINE h == Head(s2c[c])
           q == [ver |-> h.ver, late |-> conn[c] = "ending"]
<1> USE RoutingAssumption
<1>0. TypeOK /\ Counted /\ ConnInv(c) BY Zenon DEF IInv
<1>1. /\ conn[c] \in {"reg", "ending"} /\ s2c[c] # <<>> /\ h.kind = "message" /\ s2c' = Popped(s2c, c)
      /\ \/ UNCHANGED <<incoming, enqueued>>
         \/ incoming' = Append(incoming, q) /\ enqueued' = enqueued + 1
      /\ UNCHANGED <<version, takes, conn, welcomed, acked, request, confirmed, confirmedEnqueued,
                     dequeued, ackedVersion, callbacks, wake, c2s, mux, inEffect, routed>>
  <2>1. CASE HandleMessage(c) BY <2>1, ZenonT(40) DEF HandleMessage, Arrives, Delivering, Queued, server
  <2>2. CASE Dropped(c) BY <2>2, ZenonT(40) DEF Dropped, Arrives, Delivering, client, server
  <2> QED BY <2>1, <2>2, Zenon
<1>2. /\ s2c' \in [Conns -> Seq([kind : Kinds, ver : Versions])]
      /\ \A d \in Conns : d # c => s2c'[d] = s2c[d]
      /\ Answers(c)' /\ Welcome(c)'
      /\ \A i \in DOMAIN s2c'[c] : s2c'[c][i].kind = "message" => s2c'[c][i].ver <= version /\ takes[s2c'[c][i].ver]
      /\ \A i \in DOMAIN s2c'[c] : \E j \in DOMAIN s2c[c] : 1 < j /\ s2c'[c][i] = s2c[c][j]
  BY <1>0, <1>1, PoppedKeeps, Zenon
<1>3. h = s2c[c][1] /\ 1 \in DOMAIN s2c[c] /\ h.ver \in Versions
  <2>1. s2c[c] \in Seq([kind : Kinds, ver : Versions]) BY <1>0, Zenon DEF TypeOK
  <2>2. h = s2c[c][1] /\ h \in [kind : Kinds, ver : Versions] /\ DOMAIN s2c[c] = 1 .. Len(s2c[c])
        /\ Len(s2c[c]) \in Nat /\ Len(s2c[c]) >= 1
    BY <1>1, <2>1, TailFacts, ZenonT(40)
  <2>3. 1 \in DOMAIN s2c[c] BY <2>2
  <2> QED BY <2>2, <2>3, Zenon
<1>4. h.ver <= version /\ takes[h.ver] BY <1>0, <1>1, <1>3, Zenon DEF ConnInv, Bounds
<1>5. confirmed /\ conn[c] = "reg" => h.ver >= version BY <1>0, <1>1, <1>3, ZenonT(40) DEF ConnInv, Confirming, Clean
<1> HIDE DEF h
<1>Q. q \in Arrivals /\ q.ver = h.ver /\ (~q.late => conn[c] = "reg") BY <1>1, <1>3, Zenon DEF Arrivals
<1> HIDE DEF q
<1>6. incoming \in Seq(Arrivals) /\ Len(incoming) = enqueued - dequeued /\ enqueued \in Nat /\ dequeued \in Nat
  BY <1>0, Zenon DEF TypeOK
<1>7. TypeOK'
  <2>1. incoming' \in Seq(Arrivals) /\ enqueued' \in Nat /\ Len(incoming') = enqueued' - dequeued
    <3>1. CASE UNCHANGED <<incoming, enqueued>> BY <1>6, <3>1, Zenon
    <3>2. CASE incoming' = Append(incoming, q) /\ enqueued' = enqueued + 1
      <4>1. incoming' \in Seq(Arrivals) /\ Len(incoming') = Len(incoming) + 1 BY <1>6, <1>Q, <3>2, AppendFacts, ZenonT(20)
      <4> QED BY <1>6, <3>2, <4>1
    <3> QED BY <1>1, <3>1, <3>2, Zenon
  <2> QED BY <1>0, <1>1, <1>2, <2>1, ZenonT(40) DEF TypeOK
<1>8. Counted'
  <2>1. CASE UNCHANGED <<incoming, enqueued>> BY <1>0, <1>1, <2>1, Zenon DEF Counted
  <2>2. CASE incoming' = Append(incoming, q)
    <3>1. \A i \in DOMAIN incoming' : (i \in DOMAIN incoming /\ incoming'[i] = incoming[i]) \/ incoming'[i] = q
      BY <1>6, <1>Q, <2>2, AppendFacts
    <3>2. confirmed /\ ~q.late => ~(q.ver < version) BY <1>0, <1>3, <1>5, <1>Q DEF TypeOK, Versions
    <3>3. q.ver <= version /\ takes[q.ver] BY <1>4, <1>Q, Zenon
    <3> QED BY <1>0, <1>1, <3>1, <3>2, <3>3, Zenon DEF Counted
  <2> QED BY <1>1, <2>1, <2>2, Zenon
<1>9. ASSUME NEW d \in Conns PROVE ConnInv(d)'
  <2>0. ConnInv(d) BY Zenon DEF IInv
  <2>1. Confirming(d)' BY <1>1, <2>0, Zenon DEF ConnInv, Confirming
  <2>2. CASE d # c BY <1>0, <1>1, <1>2, <2>0, <2>1, <2>2, OthersKeep, ZenonT(40)
  <2>3. CASE d = c
    <3>1. mux[c] # "none" BY <1>0, <1>1, Zenon DEF ConnInv, Channels
    <3>2. Channels(c)' /\ Rising(c)' /\ Asked(c)' BY <1>0, <1>1, <3>1, ZenonT(40) DEF ConnInv, Channels, Rising, Asked
    <3>3. Bounds(c)' BY <1>0, <1>1, <1>2, ZenonT(40) DEF ConnInv, Bounds
    <3>4. Clean(c) BY <1>0, Zenon DEF ConnInv
    <3>5. Clean(c)' BY <1>1, <1>2, <3>4, PoppedClean, ZenonT(40)
    <3> QED BY <1>2, <2>1, <2>3, <3>2, <3>3, <3>5, ZenonT(40) DEF ConnInv
  <2> QED BY <2>2, <2>3, Zenon
<1> QED BY <1>7, <1>8, <1>9, Zenon DEF IInv

\* A connection that is gone keeps its part: little of it is about one.
LEMMA GoneKeeps ==
    ASSUME NEW c, ConnInv(c), conn'[c] \in {"ending", "dead"}, conn'[c] = "ending" => conn[c] = "reg",
           UNCHANGED <<version, takes, welcomed, acked, request, c2s, s2c, mux, inEffect>>, Confirming(c)'
    PROVE  ConnInv(c)'
<1>1. Channels(c)' BY ZenonT(40) DEF ConnInv, Channels
<1>2. Rising(c)' BY ZenonT(40) DEF ConnInv, Rising
<1>3. Answers(c)' BY Zenon DEF ConnInv, Answers
<1>4. Bounds(c)' BY Zenon DEF ConnInv, Bounds
<1>5. Welcome(c)' /\ Asked(c)' /\ Clean(c)' BY Zenon DEF Welcome, Asked, Clean
<1> QED BY <1>1, <1>2, <1>3, <1>4, <1>5, ZenonT(40) DEF ConnInv

\* A connection gone, whether it reads on or not.
LEMMA GoneStep == ASSUME IInv, NEW c \in Conns, ConnectionDestroyed(c) \/ WriteFailed(c) PROVE IInv'
<1> USE RoutingAssumption
<1>0. TypeOK /\ Counted /\ ConnInv(c) BY Zenon DEF IInv
<1>1. PICK to \in {"ending", "dead"} :
      /\ conn' = [conn EXCEPT ![c] = to] /\ (to = "ending" => conn[c] = "reg") /\ conn[c] # "new"
      /\ UpdateConfirmation(confirmed, callbacks)
      /\ UNCHANGED <<version, takes, welcomed, acked, request, enqueued, dequeued, incoming, c2s, s2c,
                     mux, inEffect, routed>>
  BY Zenon DEF ConnectionDestroyed, WriteFailed, Living, server
<1>2. conn'[c] = to /\ conn' \in [Conns -> {"new", "open", "reg", "ending", "dead"}] BY <1>0, <1>1, Zenon DEF TypeOK
<1>3. /\ confirmed' = AllConfirmed'
      /\ confirmed' \in BOOLEAN /\ confirmedEnqueued' \in Nat /\ wake' \in BOOLEAN
      /\ ackedVersion' \in Versions /\ callbacks' \subseteq Versions /\ Counted'
  <2>1. confirmed \in BOOLEAN /\ callbacks \in SUBSET Versions /\ version \in Versions BY <1>0, Zenon DEF TypeOK
  <2>2. \A i \in DOMAIN incoming : incoming[i].ver <= version' /\ takes'[incoming[i].ver] BY <1>0, <1>1, ZenonT(40) DEF Counted
  <2> QED BY <1>0, <1>1, <2>1, <2>2, ConfirmationKeeps, Zenon
<1>4. TypeOK' BY <1>0, <1>1, <1>2, <1>3, Zenon DEF TypeOK
<1>5. ASSUME NEW d \in Conns PROVE ConnInv(d)'
  <2>0. ConnInv(d) /\ Confirming(d)' BY <1>3, AllConfirming, Zenon DEF IInv
  <2>1. CASE d # c BY <1>0, <1>1, <2>0, <2>1, OthersKeep, Zenon DEF TypeOK
  <2>2. CASE d = c
    <3>1. conn[c] \in {"new", "open", "reg", "ending", "dead"} BY <1>0, Zenon DEF TypeOK
    <3> QED BY <1>1, <1>2, <2>0, <2>2, <3>1, GoneKeeps, Zenon
  <2> QED BY <2>1, <2>2, Zenon
<1> QED BY <1>3, <1>4, <1>5, Zenon DEF IInv

LEMMA ReadToTheEndStep == ASSUME IInv, NEW c \in Conns, ReadToTheEnd(c) PROVE IInv'
<1>0. TypeOK /\ Counted /\ ConnInv(c) BY Zenon DEF IInv
<1>1. /\ conn' = [conn EXCEPT ![c] = "dead"] /\ conn[c] = "ending"
      /\ UNCHANGED <<version, takes, welcomed, acked, request, confirmed, confirmedEnqueued, enqueued, dequeued,
                     incoming, ackedVersion, callbacks, wake, c2s, s2c, mux, inEffect, routed>>
  BY Zenon DEF ReadToTheEnd, server
<1>2. conn'[c] = "dead" /\ TypeOK' BY <1>0, <1>1, Zenon DEF TypeOK
<1>3. Counted' BY <1>0, <1>1, Zenon DEF Counted
<1>4. ASSUME NEW d \in Conns PROVE ConnInv(d)'
  <2>0. ConnInv(d) BY Zenon DEF IInv
  <2>1. CASE d # c
    <3>1. Confirming(d)' BY <1>0, <1>1, <2>0, <2>1, Zenon DEF ConnInv, Confirming, TypeOK
    <3> QED BY <1>0, <1>1, <2>0, <2>1, <3>1, OthersKeep, Zenon DEF TypeOK
  <2>2. CASE d = c
    <3>1. Confirming(c)' BY <1>2, Zenon DEF Confirming
    <3> QED BY <1>1, <1>2, <2>0, <2>2, <3>1, GoneKeeps, Zenon
  <2> QED BY <2>1, <2>2, Zenon
<1> QED BY <1>2, <1>3, <1>4, Zenon DEF IInv

LEMMA NextIncomingMessageStep == ASSUME IInv, NextIncomingMessage PROVE IInv'
<1> USE RoutingAssumption
<1>0. TypeOK /\ Counted BY Zenon DEF IInv
<1>1. /\ incoming # <<>> /\ incoming' = Tail(incoming) /\ dequeued' = dequeued + 1
      /\ UNCHANGED <<version, takes, conn, welcomed, acked, request, confirmed, confirmedEnqueued,
                     enqueued, ackedVersion, callbacks, wake, c2s, s2c, mux, inEffect, routed>>
  BY Zenon DEF NextIncomingMessage, server
<1>2. /\ incoming \in Seq(Arrivals) /\ Len(incoming) = enqueued - dequeued /\ enqueued \in Nat /\ dequeued \in Nat
      /\ confirmedEnqueued \in Nat
  BY <1>0, Zenon DEF TypeOK
<1>3. TypeOK'
  <2>1. incoming' \in Seq(Arrivals) /\ dequeued' \in Nat /\ Len(incoming') = enqueued - dequeued'
    BY <1>1, <1>2, TailFacts
  <2> QED BY <1>0, <1>1, <2>1, Zenon DEF TypeOK
<1>4. Counted'
  <2>1. \A i \in DOMAIN incoming' : i \in Nat /\ i + 1 \in DOMAIN incoming /\ incoming'[i] = incoming[i + 1]
    BY <1>1, <1>2, TailFacts
  <2>2. \A i \in DOMAIN incoming' : dequeued' + i = dequeued + (i + 1) BY <1>1, <1>2, <2>1
  <2> QED BY <1>0, <1>1, <2>1, <2>2, Zenon DEF Counted
<1>5. ASSUME NEW d \in Conns PROVE ConnInv(d)'
  <2>0. ConnInv(d) BY Zenon DEF IInv
  <2>1. Confirming(d)' BY <1>1, <2>0, Zenon DEF ConnInv, Confirming
  <2> QED BY <1>1, <2>0, <2>1, OthersKeep, Zenon
<1> QED BY <1>3, <1>4, <1>5, Zenon DEF IInv

\* Hearing of an acknowledged change alters none of what the rest is about.
LEMMA TellingStep ==
    ASSUME IInv, AcknowledgedByReceive \/ RunAcknowledgedCallbacks \/ TakeAcknowledgedWake \/ UNCHANGED vars
    PROVE  IInv'
<1>0. TypeOK /\ Counted BY Zenon DEF IInv
<1>1. /\ UNCHANGED <<version, takes, conn, welcomed, acked, request, confirmed, confirmedEnqueued,
                     enqueued, dequeued, incoming, c2s, s2c, mux, inEffect, routed>>
      /\ ackedVersion' \in {ackedVersion, version} /\ callbacks' \in {callbacks, {}} /\ wake' \in {wake, TRUE, FALSE}
  BY Zenon DEF AcknowledgedByReceive, RunAcknowledgedCallbacks, TakeAcknowledgedWake, vars, client, server
<1>2. TypeOK'
  <2>1. ackedVersion' \in Versions /\ callbacks' \subseteq Versions /\ wake' \in BOOLEAN
    BY <1>0, <1>1, Zenon DEF TypeOK
  <2> QED BY <1>0, <1>1, <2>1, Zenon DEF TypeOK
<1>3. Counted' BY <1>0, <1>1, Zenon DEF Counted
<1>4. ASSUME NEW d \in Conns PROVE ConnInv(d)'
  <2>0. ConnInv(d) BY Zenon DEF IInv
  <2>1. Confirming(d)' BY <1>1, <2>0, Zenon DEF ConnInv, Confirming
  <2> QED BY <1>1, <2>0, <2>1, OthersKeep, Zenon
<1> QED BY <1>2, <1>3, <1>4, Zenon DEF IInv

-----------------------------------------------------------------------------
LEMMA NextIInv == IInv /\ [Next]_vars => IInv'
<1> SUFFICES ASSUME IInv, [Next]_vars PROVE IInv' BY Zenon
<1>1. CASE \E on, callback \in BOOLEAN : SetRouting(on, callback) BY <1>1, SetRoutingStep, Zenon
<1>2. ASSUME NEW c \in Conns, Events(c) PROVE IInv'
  BY <1>2, OpenStep, AfterConnectionRegistrationStep, OnPeerStatusStep, HandleMessageStep,
     GoneStep, ReadToTheEndStep, Zenon DEF Events
<1>3. ASSUME NEW c \in Conns, Mux(c) PROVE IInv'
  BY <1>3, MuxRegisterStep, HandlePeerControlStep, MuxRouteStep, MuxGoneStep, Zenon DEF Mux
<1>4. CASE NextIncomingMessage BY <1>4, NextIncomingMessageStep, Zenon
<1>5. CASE AcknowledgedByReceive \/ RunAcknowledgedCallbacks \/ TakeAcknowledgedWake \/ UNCHANGED vars
  BY <1>5, TellingStep, Zenon
<1> QED BY <1>1, <1>2, <1>3, <1>4, <1>5, Zenon DEF Next

LEMMA RoutingIInv == Spec => []IInv
<1> QED BY InitIInv, NextIInv, PTL DEF Spec

\* The types of Routing hold for every number of connections, changes and
\* messages, and the counts of the incoming queue are those of its entries.
THEOREM RoutingTypeOK == Spec => []TypeOK
<1>1. IInv => TypeOK BY Zenon DEF IInv
<1> QED BY RoutingIInv, <1>1, PTL

LEMMA InEffect == ASSUME IInv PROVE AcknowledgedInEffect
<1> SUFFICES ASSUME RoutingAcknowledged PROVE NothingOlder BY Zenon DEF AcknowledgedInEffect
<1>0. TypeOK /\ Counted /\ confirmed /\ dequeued >= confirmedEnqueued
  BY Zenon DEF IInv, RoutingAcknowledged
<1>1. ASSUME NEW i \in DOMAIN incoming, ~incoming[i].late PROVE incoming[i].ver >= version
  <2>1. i \in Nat \ {0} /\ dequeued \in Nat /\ confirmedEnqueued \in Nat
    <3>1. incoming \in Seq(Arrivals) /\ dequeued \in Nat /\ confirmedEnqueued \in Nat BY <1>0, Zenon DEF TypeOK
    <3> QED BY <3>1
  <2>2. ~(dequeued + i <= confirmedEnqueued) BY <1>0, <2>1
  <2>3. ~(incoming[i].ver < version) BY <1>0, <1>1, <2>2, Zenon DEF Counted
  <2>4. version \in Nat /\ incoming[i].ver \in Nat
    <3>1. version \in Versions BY <1>0, Zenon DEF TypeOK
    <3>2. version \in Nat BY <3>1, RoutingAssumption DEF Versions
    <3> QED BY <1>0, <3>2, Waiting, Zenon
  <2> QED BY <2>3, <2>4
<1>2. ASSUME NEW c \in Conns, Living(c)
      PROVE  /\ inEffect[c] >= version
             /\ \A i \in DOMAIN s2c[c] : s2c[c][i].kind = "message" => s2c[c][i].ver >= version
  <2>1. conn[c] = "reg" /\ acked[c] = version BY <1>2, Zenon DEF RoutingAcknowledged, AllConfirmed
  <2> QED BY <2>1, Zenon DEF IInv, ConnInv, Clean
<1> QED BY <1>1, <1>2, Zenon DEF NothingOlder

\* routing_acknowledged() is right to say so: every multiplexer has the
\* routing in effect, and nothing routed under an older one waits for a
\* receive or is on its way.
THEOREM RoutingAcknowledgedInEffect == Spec => []AcknowledgedInEffect
<1>1. IInv => AcknowledgedInEffect BY InEffect, Zenon
<1> QED BY RoutingIInv, <1>1, PTL

LEMMA MeansStopped == ASSUME IInv PROVE AcknowledgedMeansStopped
<1> SUFFICES ASSUME RoutingAcknowledged, ~takes[version]
             PROVE  /\ \A i \in DOMAIN incoming : incoming[i].late
                    /\ \A c \in Conns : Living(c) =>
                          ~takes[inEffect[c]] /\ \A i \in DOMAIN s2c[c] : s2c[c][i].kind # "message"
  BY Zenon DEF AcknowledgedMeansStopped
<1>0. TypeOK /\ Counted /\ NothingOlder /\ version \in Nat
  <2>1. TypeOK /\ Counted /\ NothingOlder /\ version \in Versions BY InEffect, Zenon DEF IInv, AcknowledgedInEffect, TypeOK
  <2> QED BY <2>1, RoutingAssumption DEF Versions
<1>2. ASSUME NEW i \in DOMAIN incoming, ~incoming[i].late PROVE FALSE
  <2>0. incoming[i].ver <= version BY <1>0, Zenon DEF Counted
  <2>2. incoming[i].ver >= version BY <1>0, <1>2, Zenon DEF NothingOlder
  <2>3. incoming[i].ver \in Nat BY <1>0, Waiting, Zenon
  <2>1. incoming[i].ver = version BY <1>0, <2>0, <2>2, <2>3
  <2> QED BY <1>0, <2>1, Zenon DEF Counted
<1>3. ASSUME NEW c \in Conns, Living(c)
      PROVE  ~takes[inEffect[c]] /\ \A i \in DOMAIN s2c[c] : s2c[c][i].kind # "message"
  <2>1. Bounds(c) BY Zenon DEF IInv, ConnInv
  <2>2. inEffect[c] = version BY <1>0, <1>3, <2>1, Numbers DEF NothingOlder, Bounds
  <2>3. \A i \in DOMAIN s2c[c] : s2c[c][i].kind = "message" => s2c[c][i].ver = version /\ takes[s2c[c][i].ver]
    BY <1>0, <1>3, <2>1, Numbers DEF NothingOlder, Bounds
  <2> QED BY <2>2, <2>3, Zenon
<1> QED BY <1>2, <1>3, Zenon

\* A client that turned the rules off and had it acknowledged gets no more
\* messages by them: what docs/leaving.md rests the end of a drain on.
THEOREM RoutingAcknowledgedMeansStopped == Spec => []AcknowledgedMeansStopped
<1>1. IInv => AcknowledgedMeansStopped BY MeansStopped, Zenon
<1> QED BY RoutingIInv, <1>1, PTL

-----------------------------------------------------------------------------
(* The callbacks of a client that hands out what arrives.                  *)

\* Such a client queues nothing, so that no receive makes a change
\* acknowledged behind update_confirmation's back.
Handed == Dispatch => incoming = <<>>
CallbackInv == Handed /\ NoCallbackForgotten

\* Whatever update_confirmation finds, it leaves no acknowledged change with
\* a callback to run.
LEMMA ConfirmationTells ==
    ASSUME NEW was, NEW waiting, UpdateConfirmation(was, waiting)
    PROVE  NoCallbackForgotten'
<1> SUFFICES ASSUME Dispatch, RoutingAcknowledged' PROVE callbacks' = {} /\ ackedVersion' = version'
  BY Zenon DEF NoCallbackForgotten
<1>1. AllConfirmed' /\ dequeued' >= confirmedEnqueued' BY Zenon DEF RoutingAcknowledged
<1> DEFINE told == AllConfirmed' /\ dequeued' >= confirmedEnqueued' /\ (ackedVersion # version' \/ waiting # {})
<1>2. /\ ackedVersion' = IF told THEN version' ELSE ackedVersion
      /\ callbacks' = IF told /\ Dispatch THEN {} ELSE waiting
  BY Zenon DEF UpdateConfirmation
<1> QED BY <1>1, <1>2, Zenon

LEMMA NextCallbackInv == IInv /\ CallbackInv /\ [Next]_vars => CallbackInv'
<1> SUFFICES ASSUME IInv, CallbackInv, [Next]_vars PROVE CallbackInv' BY Zenon
<1>0. Handed /\ NoCallbackForgotten BY Zenon DEF CallbackInv
<1>1. ASSUME NEW on \in BOOLEAN, NEW callback \in BOOLEAN, SetRouting(on, callback) PROVE CallbackInv'
  <2>1. Handed' BY <1>0, <1>1, Zenon DEF Handed, SetRouting
  <2> QED BY <1>1, <2>1, ConfirmationTells, ZenonT(40) DEF SetRouting, CallbackInv
<1>2. ASSUME NEW c \in Conns, AfterConnectionRegistration(c) \/ ConnectionDestroyed(c) \/ WriteFailed(c)
      PROVE  CallbackInv'
  <2>1. Handed' BY <1>0, <1>2, Zenon DEF Handed, AfterConnectionRegistration, ConnectionDestroyed, WriteFailed
  <2>2. UpdateConfirmation(confirmed, callbacks)
    BY <1>2, Zenon DEF AfterConnectionRegistration, ConnectionDestroyed, WriteFailed
  <2> QED BY <2>1, <2>2, ConfirmationTells, Zenon DEF CallbackInv
<1>3. ASSUME NEW c \in Conns, OnPeerStatus(c) PROVE CallbackInv'
  <2>1. Handed' BY <1>0, <1>3, Zenon DEF Handed, OnPeerStatus
  <2>2. CASE Arrives(c, "status") /\ Head(s2c[c]).ver = request[c]
    <3>1. UpdateConfirmation(confirmed, callbacks) BY <1>3, <2>2, Zenon DEF OnPeerStatus
    <3> QED BY <2>1, <3>1, ConfirmationTells, Zenon DEF CallbackInv
  <2>3. CASE ~(Arrives(c, "status") /\ Head(s2c[c]).ver = request[c])
    <3>1. UNCHANGED <<version, conn, acked, confirmed, confirmedEnqueued, dequeued, ackedVersion, callbacks>>
      BY <1>3, <2>3, Zenon DEF OnPeerStatus
    <3>2. NoCallbackForgotten'
      BY <1>0, <3>1, Zenon DEF NoCallbackForgotten, RoutingAcknowledged, AllConfirmed, Living
    <3> QED BY <2>1, <3>2, Zenon DEF CallbackInv
  <2> QED BY <2>2, <2>3, Zenon
<1>4. ASSUME NEW c \in Conns, Open(c) PROVE CallbackInv'
  <2>1. Handed' BY <1>0, <1>4, Zenon DEF Handed, Open
  <2>2. conn \in [Conns -> {"new", "open", "reg", "ending", "dead"}] BY Zenon DEF IInv, TypeOK
  <2>3. conn'[c] = "open" BY <1>4, <2>2, Zenon DEF Open
  <2>4. ~AllConfirmed' BY <2>3, Zenon DEF AllConfirmed, Living
  <2> QED BY <2>1, <2>4, Zenon DEF CallbackInv, NoCallbackForgotten, RoutingAcknowledged
<1>5. ASSUME NEW c \in Conns, ReadToTheEnd(c) PROVE CallbackInv'
  <2>1. Handed' BY <1>0, <1>5, Zenon DEF Handed, ReadToTheEnd
  <2>2. /\ UNCHANGED <<version, acked, confirmed, confirmedEnqueued, dequeued, ackedVersion, callbacks>>
        /\ conn[c] = "ending" /\ conn' = [conn EXCEPT ![c] = "dead"]
    BY <1>5, Zenon DEF ReadToTheEnd
  <2>3. \A d \in Conns : Living(d) => Living(d)' /\ conn'[d] = conn[d] BY <2>2 DEF Living
  <2>4. AllConfirmed' => AllConfirmed BY <2>2, <2>3, Zenon DEF AllConfirmed
  <2>5. NoCallbackForgotten' BY <1>0, <2>2, <2>4, Zenon DEF NoCallbackForgotten, RoutingAcknowledged
  <2> QED BY <2>1, <2>5, Zenon DEF CallbackInv
<1>6. CASE NextIncomingMessage
  <2>1. ~Dispatch BY <1>0, <1>6, Zenon DEF Handed, NextIncomingMessage
  <2> QED BY <2>1, Zenon DEF CallbackInv, Handed, NoCallbackForgotten
<1>7. CASE AcknowledgedByReceive \/ RunAcknowledgedCallbacks
  <2>1. ~Dispatch BY <1>7, Zenon DEF AcknowledgedByReceive, RunAcknowledgedCallbacks
  <2> QED BY <2>1, Zenon DEF CallbackInv, Handed, NoCallbackForgotten
<1>8. ASSUME NEW c \in Conns, HandleMessage(c) PROVE CallbackInv'
  <2>1. Handed' BY <1>0, <1>8, Zenon DEF Handed, HandleMessage
  <2>2. UNCHANGED <<version, conn, acked, confirmed, confirmedEnqueued, dequeued, ackedVersion, callbacks>>
    BY <1>8, Zenon DEF HandleMessage
  <2>3. NoCallbackForgotten'
    BY <1>0, <2>2, Zenon DEF NoCallbackForgotten, RoutingAcknowledged, AllConfirmed, Living
  <2> QED BY <2>1, <2>3, Zenon DEF CallbackInv
<1>9. CASE TakeAcknowledgedWake \/ (\E c \in Conns : Mux(c)) \/ UNCHANGED vars
  <2>1. UNCHANGED <<version, conn, acked, confirmed, confirmedEnqueued, dequeued, incoming, ackedVersion, callbacks>>
    BY <1>9, ZenonT(40) DEF TakeAcknowledgedWake, Mux, MuxRegister, HandlePeerControl, MuxRoute, MuxGone, vars, client, server
  <2>2. NoCallbackForgotten'
    BY <1>0, <2>1, Zenon DEF NoCallbackForgotten, RoutingAcknowledged, AllConfirmed, Living
  <2> QED BY <1>0, <2>1, <2>2, Zenon DEF CallbackInv, Handed
<1> QED BY <1>1, <1>2, <1>3, <1>4, <1>5, <1>6, <1>7, <1>8, <1>9, Zenon DEF Next, Events

\* What acknowledged promises, all of it, for any number of connections,
\* changes and messages: in effect, nothing older to come, and no callback
\* left for a client that hands out what arrives.
THEOREM RoutingAcknowledgedHolds == Spec => []AcknowledgedHolds
<1>1. Init => CallbackInv BY Zenon DEF Init, CallbackInv, Handed, NoCallbackForgotten
<1>2. Spec => []CallbackInv BY <1>1, NextCallbackInv, RoutingIInv, PTL DEF Spec
<1>3. CallbackInv => NoCallbackForgotten BY Zenon DEF CallbackInv
<1> QED BY RoutingAcknowledgedInEffect, RoutingAcknowledgedMeansStopped, <1>2, <1>3, PTL DEF AcknowledgedHolds

-----------------------------------------------------------------------------
(* A client that takes nothing any more.                                   *)

\* Nothing by the rules is on its way on connection c, nor will be once its
\* multiplexer applied what it is being told.
Hushed(c) ==
    /\ \A i \in DOMAIN s2c[c] : s2c[c][i].kind # "message"
    /\ mux[c] # "none" => ~takes[inEffect[c]]
    /\ \A i \in DOMAIN c2s[c] : ~takes[c2s[c][i].ver]

Quiet == ~takes[version] /\ \A c \in Conns : Living(c) => Hushed(c)

\* An acknowledged change that turned the rules off leaves the client quiet.
LEMMA AcknowledgedQuiet == ASSUME IInv, RoutingAcknowledged, ~takes[version], AcknowledgedMeansStopped PROVE Quiet
<1> SUFFICES ASSUME NEW c \in Conns, Living(c) PROVE Hushed(c) BY Zenon DEF Quiet
<1>1. conn[c] = "reg" /\ acked[c] = version /\ ConnInv(c) BY Zenon DEF RoutingAcknowledged, AllConfirmed, IInv
<1>2. ~takes[inEffect[c]] /\ \A i \in DOMAIN s2c[c] : s2c[c][i].kind # "message" BY Zenon DEF AcknowledgedMeansStopped
<1>3. inEffect[c] >= version /\ mux[c] # "none" BY <1>1, Zenon DEF ConnInv, Clean, Channels
<1>4. \A i \in DOMAIN c2s[c] : inEffect[c] <= c2s[c][i].ver /\ c2s[c][i].ver <= version BY <1>1, <1>3, Zenon DEF ConnInv, Rising
<1>5. \A i \in DOMAIN c2s[c] : c2s[c][i].ver \in Nat
  <2>1. c2s[c] \in Seq([kind : Kinds, ver : Versions]) BY Zenon DEF IInv, TypeOK
  <2>2. \A i \in DOMAIN c2s[c] : c2s[c][i] \in [kind : Kinds, ver : Versions] BY <2>1, Element, Zenon
  <2> QED BY <2>2, RoutingAssumption DEF Versions
<1>6. inEffect[c] \in Nat /\ version \in Nat BY RoutingAssumption DEF IInv, TypeOK, Versions
<1>7. \A i \in DOMAIN c2s[c] : c2s[c][i].ver = version BY <1>3, <1>4, <1>5, <1>6
<1> QED BY <1>2, <1>7, Zenon DEF Hushed

\* What a step must do to keep a connection so.
LEMMA HushedKept ==
    ASSUME NEW c \in Conns, Hushed(c), ~takes'[version'],
           \A i \in DOMAIN s2c'[c] : s2c'[c][i].kind # "message" \/ \E j \in DOMAIN s2c[c] : s2c'[c][i] = s2c[c][j],
           \A i \in DOMAIN c2s'[c] : c2s'[c][i].ver = version' \/ \E j \in DOMAIN c2s[c] : c2s'[c][i] = c2s[c][j],
           mux'[c] # "none" => \/ mux[c] # "none" /\ inEffect'[c] = inEffect[c]
                               \/ \E j \in DOMAIN c2s[c] : inEffect'[c] = c2s[c][j].ver,
           ~takes[inEffect[c]] => ~takes'[inEffect[c]],
           \A j \in DOMAIN c2s[c] : ~takes[c2s[c][j].ver] => ~takes'[c2s[c][j].ver]
    PROVE  Hushed(c)'
<1>1. \A i \in DOMAIN s2c'[c] : s2c'[c][i].kind # "message" BY Zenon DEF Hushed
<1>2. \A i \in DOMAIN c2s'[c] : ~takes'[c2s'[c][i].ver] BY Zenon DEF Hushed
<1>3. mux'[c] # "none" => ~takes'[inEffect'[c]] BY Zenon DEF Hushed
<1> QED BY <1>1, <1>2, <1>3, Zenon DEF Hushed

LEMMA TailFrom ==
    ASSUME NEW S, NEW q \in Seq(S), q # <<>>
    PROVE  \A i \in DOMAIN Tail(q) : \E j \in DOMAIN q : Tail(q)[i] = q[j]
<1>1. /\ DOMAIN Tail(q) = 1 .. Len(q) - 1 /\ DOMAIN q = 1 .. Len(q) /\ Len(q) \in Nat
      /\ \A i \in 1 .. Len(q) - 1 : Tail(q)[i] = q[i + 1]
  BY TailFacts, Zenon
<1>2. \A i \in DOMAIN Tail(q) : i + 1 \in DOMAIN q /\ Tail(q)[i] = q[i + 1] BY <1>1
<1> QED BY <1>2, Zenon

LEMMA AddedTo ==
    ASSUME NEW S, NEW q \in Seq(S), NEW e \in S
    PROVE  \A i \in DOMAIN Append(q, e) : Append(q, e)[i] = e \/ \E j \in DOMAIN q : Append(q, e)[i] = q[j]
<1>1. /\ DOMAIN Append(q, e) = 1 .. Len(q) + 1 /\ DOMAIN q = 1 .. Len(q) /\ Len(q) \in Nat
      /\ \A i \in 1 .. Len(q) : Append(q, e)[i] = q[i]
      /\ Append(q, e)[Len(q) + 1] = e
  BY AppendFacts
<1> SUFFICES ASSUME NEW i \in DOMAIN Append(q, e) PROVE Append(q, e)[i] = e \/ \E j \in DOMAIN q : Append(q, e)[i] = q[j]
  BY Zenon
<1>2. CASE i = Len(q) + 1 BY <1>1, <1>2, Zenon
<1>3. CASE i \in 1 .. Len(q) BY <1>1, <1>3, Zenon
<1> QED BY <1>1, <1>2, <1>3

\* The client stays quiet as long as it does not turn the rules on again,
\* whatever connects, fails or is answered.
LEMMA QuietNext == ASSUME IInv, Quiet, [Next]_vars, ~takes'[version'] PROVE Quiet'
<1> DEFINE S == [kind : Kinds, ver : Versions]
<1>0. /\ s2c \in [Conns -> Seq(S)] /\ c2s \in [Conns -> Seq(S)] /\ TypeOK /\ ~takes[version]
      /\ takes \in [Versions -> BOOLEAN] /\ version \in Versions /\ inEffect \in [Conns -> Versions]
      /\ conn \in [Conns -> {"new", "open", "reg", "ending", "dead"}] /\ mux \in [Conns -> {"none", "up", "gone"}]
  BY Zenon DEF IInv, TypeOK, Quiet
<1> SUFFICES ASSUME NEW d \in Conns, Living(d)' PROVE Hushed(d)' BY Zenon DEF Quiet
<1>1. ConnInv(d) BY Zenon DEF IInv
<1>2. Living(d) => Hushed(d) BY Zenon DEF Quiet
<1>3. s2c[d] \in Seq(S) /\ c2s[d] \in Seq(S) BY <1>0, Zenon
<1>4. \A i \in DOMAIN s2c'[d] : s2c'[d] = s2c[d] => \E j \in DOMAIN s2c[d] : s2c'[d][i] = s2c[d][j] BY Zenon
<1>5. \A i \in DOMAIN c2s'[d] : c2s'[d] = c2s[d] => \E j \in DOMAIN c2s[d] : c2s'[d][i] = c2s[d][j] BY Zenon
<1> HIDE DEF S
<1>6. ASSUME NEW on \in BOOLEAN, NEW callback \in BOOLEAN, SetRouting(on, callback) PROVE Hushed(d)'
  <2>1. /\ version < MaxVersion /\ version' = version + 1 /\ takes' = [takes EXCEPT ![version + 1] = on]
        /\ SendRouting({c \in Conns : conn[c] = "reg"}, version + 1) /\ UNCHANGED <<conn, s2c, mux, inEffect>>
    BY <1>6, Zenon DEF SetRouting, server
  <2>2. version' \in Versions BY <2>1, <1>0, RoutingAssumption DEF Versions
  <2>3. \A v \in Versions : ~takes[v] => ~takes'[v] BY <2>1, <2>2, <1>0, Zenon
  <2>4. \A i \in DOMAIN c2s'[d] : c2s'[d][i].ver = version' \/ \E j \in DOMAIN c2s[d] : c2s'[d][i] = c2s[d][j]
    <3>1. SendRouting({c \in Conns : conn[c] = "reg"}, version') BY <2>1, Zenon
    <3> QED BY <3>1, <2>2, <1>0, SendRoutingKeeps
  <2>5. Living(d) BY <2>1, Zenon DEF Living
  <2>6. \A j \in DOMAIN c2s[d] : c2s[d][j].ver \in Versions
    <3>1. \A j \in DOMAIN c2s[d] : c2s[d][j] \in S BY <1>3, Element, Zenon
    <3> QED BY <3>1, Zenon DEF S
  <2> QED BY <2>1, <2>3, <2>4, <2>5, <2>6, <1>0, <1>2, <1>4, HushedKept, Zenon
<1>7. ASSUME NEW c \in Conns, Open(c) PROVE Hushed(d)'
  <2>1. /\ conn[c] = "new" /\ conn' = [conn EXCEPT ![c] = "open"]
        /\ c2s' = [c2s EXCEPT ![c] = <<Frame("welcome", version)>>] /\ UNCHANGED <<version, takes, s2c, mux, inEffect>>
    BY <1>7, Zenon DEF Open, server
  <2>2. CASE d = c
    <3>1. mux'[d] = "none" /\ s2c'[d] = <<>> BY <2>1, <2>2, <1>1, Zenon DEF ConnInv, Channels
    <3>2. c2s'[d] = <<Frame("welcome", version)>> BY <2>1, <2>2, <1>0, Zenon
    <3>3. \A i \in DOMAIN c2s'[d] : c2s'[d][i].ver = version BY <3>2 DEF Frame
    <3> QED BY <3>1, <3>3, <2>1, <1>0 DEF Hushed
  <2>3. CASE d # c
    <3>1. Living(d) /\ c2s'[d] = c2s[d] BY <2>1, <2>3, <1>0, Zenon DEF Living
    <3> QED BY <3>1, <2>1, <1>2, Zenon DEF Hushed
  <2> QED BY <2>2, <2>3, Zenon
<1>8. ASSUME NEW c \in Conns, AfterConnectionRegistration(c) PROVE Hushed(d)'
  <2>1. /\ conn[c] = "open" /\ s2c[c] # <<>> /\ conn' = [conn EXCEPT ![c] = "reg"]
        /\ SendRouting({e \in {c} : welcomed[c] # version}, version) /\ s2c' = Popped(s2c, c)
        /\ UNCHANGED <<version, takes, mux, inEffect>>
    BY <1>8, Zenon DEF AfterConnectionRegistration, Arrives, server
  <2>2. Living(d) BY <2>1, <1>0, Zenon DEF Living
  <2>3. \A i \in DOMAIN c2s'[d] : c2s'[d][i].ver = version \/ \E j \in DOMAIN c2s[d] : c2s'[d][i] = c2s[d][j]
    BY <2>1, <1>0, SendRoutingKeeps
  <2>4. \A i \in DOMAIN s2c'[d] : \E j \in DOMAIN s2c[d] : s2c'[d][i] = s2c[d][j]
    <3>1. s2c'[d] = IF d = c THEN Tail(s2c[d]) ELSE s2c[d] BY <2>1, <1>0, Zenon DEF Popped
    <3>2. CASE d = c
      <4>1. \A i \in DOMAIN Tail(s2c[d]) : \E j \in DOMAIN s2c[d] : Tail(s2c[d])[i] = s2c[d][j]
        BY <3>2, <2>1, <1>3, TailFrom
      <4> QED BY <3>1, <3>2, <4>1
    <3>3. CASE d # c BY <3>1, <3>3, Zenon
    <3> QED BY <3>2, <3>3, Zenon
  <2> QED BY <2>1, <2>2, <2>3, <2>4, <1>2, HushedKept, Zenon
<1>9. ASSUME NEW c \in Conns, OnPeerStatus(c) \/ HandleMessage(c) PROVE Hushed(d)'
  <2>1. s2c[c] # <<>> /\ s2c' = Popped(s2c, c) /\ UNCHANGED <<version, takes, conn, c2s, mux, inEffect>>
    BY <1>9, Zenon DEF OnPeerStatus, HandleMessage, Arrives, server
  <2>2. Living(d) BY <2>1, Zenon DEF Living
  <2>3. \A i \in DOMAIN s2c'[d] : \E j \in DOMAIN s2c[d] : s2c'[d][i] = s2c[d][j]
    <3>1. s2c'[d] = IF d = c THEN Tail(s2c[d]) ELSE s2c[d] BY <2>1, <1>0, Zenon DEF Popped
    <3>2. CASE d = c
      <4>1. \A i \in DOMAIN Tail(s2c[d]) : \E j \in DOMAIN s2c[d] : Tail(s2c[d])[i] = s2c[d][j]
        BY <3>2, <2>1, <1>3, TailFrom
      <4> QED BY <3>1, <3>2, <4>1
    <3>3. CASE d # c BY <3>1, <3>3, Zenon
    <3> QED BY <3>2, <3>3, Zenon
  <2> QED BY <2>1, <2>2, <2>3, <1>2, <1>5, HushedKept, Zenon
<1>10. ASSUME NEW c \in Conns, ConnectionDestroyed(c) \/ WriteFailed(c) \/ ReadToTheEnd(c) PROVE Hushed(d)'
  <2>1. /\ \E to \in {"ending", "dead"} : conn' = [conn EXCEPT ![c] = to]
        /\ UNCHANGED <<version, takes, c2s, s2c, mux, inEffect>>
    BY <1>10, Zenon DEF ConnectionDestroyed, WriteFailed, ReadToTheEnd, server
  <2>2. Living(d) BY <2>1, <1>0, Zenon DEF Living
  <2> QED BY <2>1, <2>2, <1>2, Zenon DEF Hushed
<1>11. ASSUME NEW c \in Conns, MuxRegister(c) PROVE Hushed(d)'
  <2>1. /\ mux[c] = "none" /\ c2s[c] # <<>> /\ c2s' = Popped(c2s, c) /\ mux' = [mux EXCEPT ![c] = "up"]
        /\ inEffect' = [inEffect EXCEPT ![c] = Head(c2s[c]).ver]
        /\ s2c' = [s2c EXCEPT ![c] = Append(s2c[c], Frame("welcome", Head(c2s[c]).ver))]
        /\ UNCHANGED <<version, takes, conn>>
    BY <1>11, Zenon DEF MuxRegister, client
  <2>2. Living(d) BY <2>1, Zenon DEF Living
  <2>3. \A i \in DOMAIN c2s'[d] : \E j \in DOMAIN c2s[d] : c2s'[d][i] = c2s[d][j]
    <3>1. c2s'[d] = IF d = c THEN Tail(c2s[d]) ELSE c2s[d] BY <2>1, <1>0, Zenon DEF Popped
    <3>2. CASE d = c
      <4>1. \A i \in DOMAIN Tail(c2s[d]) : \E j \in DOMAIN c2s[d] : Tail(c2s[d])[i] = c2s[d][j]
        BY <3>2, <2>1, <1>3, TailFrom, SMTT(20)
      <4> QED BY <3>1, <3>2, <4>1
    <3>3. CASE d # c BY <3>1, <3>3, Zenon
    <3> QED BY <3>2, <3>3, Zenon
  <2>4. CASE d # c
    <3>1. s2c'[d] = s2c[d] /\ mux'[d] = mux[d] /\ inEffect'[d] = inEffect[d] BY <2>1, <2>4, <1>0, Zenon
    <3> QED BY <3>1, <2>1, <2>2, <2>3, <1>2, <1>4, HushedKept, Zenon
  <2>5. CASE d = c
    <3> DEFINE h == Head(c2s[d])
               e == Frame("welcome", h.ver)
    <3>1. h \in S /\ h = c2s[d][1] /\ 1 \in DOMAIN c2s[d]
      <4>1. h = c2s[d][1] /\ h \in S /\ Len(c2s[d]) \in Nat /\ Len(c2s[d]) >= 1 /\ DOMAIN c2s[d] = 1 .. Len(c2s[d])
        BY <2>1, <2>5, <1>3, TailFacts, Zenon
      <4> QED BY <4>1
    <3>2. e \in S /\ e.kind # "message" BY <3>1, Zenon DEF Frame, S, Kinds
    <3>3. s2c'[d] = Append(s2c[d], e) /\ inEffect'[d] = h.ver BY <2>1, <2>5, <1>0, Zenon
    <3> HIDE DEF h, e
    <3>4. \A i \in DOMAIN s2c'[d] : s2c'[d][i] = e \/ \E j \in DOMAIN s2c[d] : s2c'[d][i] = s2c[d][j]
      BY <3>2, <3>3, <1>3, AddedTo
    <3>5. \A i \in DOMAIN s2c'[d] : s2c'[d][i].kind # "message" \/ \E j \in DOMAIN s2c[d] : s2c'[d][i] = s2c[d][j]
      BY <3>2, <3>4, Zenon
    <3> QED BY <3>1, <3>3, <3>5, <2>1, <2>2, <2>3, <1>2, HushedKept, Zenon
  <2> QED BY <2>4, <2>5, Zenon
<1>12. ASSUME NEW c \in Conns, HandlePeerControl(c) PROVE Hushed(d)'
  <2>1. PICK kind \in {"status", "refusal"} :
        /\ mux[c] = "up" /\ c2s[c] # <<>> /\ c2s' = Popped(c2s, c)
        /\ inEffect' \in {inEffect, [inEffect EXCEPT ![c] = Head(c2s[c]).ver]}
        /\ s2c' = [s2c EXCEPT ![c] = IF Len(s2c[c]) < Room THEN Append(s2c[c], Frame(kind, Head(c2s[c]).ver)) ELSE s2c[c]]
        /\ UNCHANGED <<version, takes, conn, mux>>
    BY <1>12, Zenon DEF HandlePeerControl, client
  <2>2. Living(d) BY <2>1, Zenon DEF Living
  <2>3. \A i \in DOMAIN c2s'[d] : \E j \in DOMAIN c2s[d] : c2s'[d][i] = c2s[d][j]
    <3>1. c2s'[d] = IF d = c THEN Tail(c2s[d]) ELSE c2s[d] BY <2>1, <1>0, Zenon DEF Popped
    <3>2. CASE d = c
      <4>1. \A i \in DOMAIN Tail(c2s[d]) : \E j \in DOMAIN c2s[d] : Tail(c2s[d])[i] = c2s[d][j]
        BY <3>2, <2>1, <1>3, TailFrom
      <4> QED BY <3>1, <3>2, <4>1
    <3>3. CASE d # c BY <3>1, <3>3, Zenon
    <3> QED BY <3>2, <3>3, Zenon
  <2>4. CASE d # c
    <3>1. s2c'[d] = s2c[d] /\ mux'[d] = mux[d] /\ inEffect'[d] = inEffect[d] BY <2>1, <2>4, <1>0, Zenon
    <3> QED BY <3>1, <2>1, <2>2, <2>3, <1>2, <1>4, HushedKept, Zenon
  <2>5. CASE d = c
    <3> DEFINE h == Head(c2s[d])
               e == Frame(kind, h.ver)
    <3>1. h \in S /\ h = c2s[d][1] /\ 1 \in DOMAIN c2s[d]
      <4>1. h = c2s[d][1] /\ h \in S /\ Len(c2s[d]) \in Nat /\ Len(c2s[d]) >= 1 /\ DOMAIN c2s[d] = 1 .. Len(c2s[d])
        BY <2>1, <2>5, <1>3, TailFacts, Zenon
      <4> QED BY <4>1
    <3>2. e \in S /\ e.kind # "message" BY <3>1, Zenon DEF Frame, S, Kinds
    <3>3. s2c'[d] = s2c[d] \/ s2c'[d] = Append(s2c[d], e)
      <4>1. s2c'[d] = IF Len(s2c[d]) < Room THEN Append(s2c[d], e) ELSE s2c[d] BY <2>1, <2>5, <1>0, Zenon
      <4> QED BY <4>1, Zenon
    <3>4. mux[d] # "none" /\ mux'[d] = mux[d] /\ inEffect'[d] \in {inEffect[d], h.ver} BY <2>1, <2>5, <1>0, Zenon
    <3> HIDE DEF h, e
    <3>5. \A i \in DOMAIN s2c'[d] : s2c'[d][i].kind # "message" \/ \E j \in DOMAIN s2c[d] : s2c'[d][i] = s2c[d][j]
      <4>1. CASE s2c'[d] = s2c[d] BY <4>1, Zenon
      <4>2. CASE s2c'[d] = Append(s2c[d], e)
        <5>1. \A i \in DOMAIN s2c'[d] : s2c'[d][i] = e \/ \E j \in DOMAIN s2c[d] : s2c'[d][i] = s2c[d][j]
          BY <4>2, <3>2, <1>3, AddedTo
        <5> QED BY <5>1, <3>2, Zenon
      <4> QED BY <3>3, <4>1, <4>2, Zenon
    <3>6. inEffect'[d] = inEffect[d] \/ \E j \in DOMAIN c2s[d] : inEffect'[d] = c2s[d][j].ver BY <3>1, <3>4, Zenon
    <3> QED BY <3>4, <3>5, <3>6, <2>1, <2>2, <2>3, <1>2, HushedKept, Zenon
  <2> QED BY <2>4, <2>5, Zenon
<1>13. ASSUME NEW c \in Conns, MuxRoute(c) PROVE Hushed(d)'
  <2>1. /\ mux[c] = "up" /\ takes[inEffect[c]] /\ s2c' = [s2c EXCEPT ![c] = Append(s2c[c], Frame("message", inEffect[c]))]
        /\ UNCHANGED <<version, takes, conn, c2s, mux, inEffect>>
    BY <1>13, Zenon DEF MuxRoute, client
  <2>2. Living(d) BY <2>1, Zenon DEF Living
  <2>3. d # c BY <2>1, <2>2, <1>2, Zenon DEF Hushed
  <2>4. s2c'[d] = s2c[d] BY <2>1, <2>3, <1>0, Zenon
  <2> QED BY <2>1, <2>2, <2>4, <1>2, Zenon DEF Hushed
<1>14. ASSUME NEW c \in Conns, MuxGone(c) PROVE Hushed(d)'
  <2>1. mux[c] = "up" /\ mux' = [mux EXCEPT ![c] = "gone"] /\ UNCHANGED <<version, takes, conn, c2s, s2c, inEffect>>
    BY <1>14, Zenon DEF MuxGone, client
  <2>2. Living(d) /\ (mux'[d] # "none" => mux[d] # "none") BY <2>1, <1>0, Zenon DEF Living
  <2> QED BY <2>1, <2>2, <1>2, Zenon DEF Hushed
<1>15. CASE NextIncomingMessage \/ AcknowledgedByReceive \/ RunAcknowledgedCallbacks \/ TakeAcknowledgedWake \/ UNCHANGED vars
  <2>1. UNCHANGED <<version, takes, conn, c2s, s2c, mux, inEffect>>
    BY <1>15, Zenon DEF NextIncomingMessage, AcknowledgedByReceive, RunAcknowledgedCallbacks, TakeAcknowledgedWake, vars, client, server
  <2>2. Living(d) BY <2>1, Zenon DEF Living
  <2> QED BY <2>1, <2>2, <1>2, Zenon DEF Hushed
<1> QED
  BY <1>6, <1>7, <1>8, <1>9, <1>10, <1>11, <1>12, <1>13, <1>14, <1>15, Zenon DEF Next, Events, Mux

LEMMA QuietDropped == ASSUME IInv, Quiet, NEW c \in Conns, Dropped(c) PROVE Quiet'
<1> DEFINE S == [kind : Kinds, ver : Versions]
<1>1. s2c[c] # <<>> /\ s2c' = Popped(s2c, c) /\ UNCHANGED <<version, takes, conn, c2s, mux, inEffect>>
  BY Zenon DEF Dropped, Arrives, client, server
<1>2. s2c \in [Conns -> Seq(S)] /\ ~takes[version] BY Zenon DEF IInv, TypeOK, Quiet
<1> SUFFICES ASSUME NEW d \in Conns, Living(d)' PROVE Hushed(d)' BY <1>1, <1>2, Zenon DEF Quiet
<1>3. Hushed(d) BY <1>1, Zenon DEF Quiet, Living
<1>4. s2c'[d] = IF d = c THEN Tail(s2c[d]) ELSE s2c[d] BY <1>1, <1>2, Zenon DEF Popped
<1>5. s2c[d] \in Seq(S) BY <1>2, Zenon
<1> HIDE DEF S
<1>6. \A i \in DOMAIN s2c'[d] : \E j \in DOMAIN s2c[d] : s2c'[d][i] = s2c[d][j]
  <2>1. CASE d = c
    <3>1. \A i \in DOMAIN Tail(s2c[d]) : \E j \in DOMAIN s2c[d] : Tail(s2c[d])[i] = s2c[d][j]
      BY <2>1, <1>1, <1>5, TailFrom
    <3> QED BY <1>4, <2>1, <3>1
  <2>2. CASE d # c BY <1>4, <2>2, Zenon
  <2> QED BY <2>1, <2>2, Zenon
<1> QED BY <1>1, <1>2, <1>3, <1>6, Zenon DEF Hushed
=============================================================================
