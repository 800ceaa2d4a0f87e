--------------------------- MODULE LeavingProofs ---------------------------
(***************************************************************************)
(* A drain of a plain server that its confirmation ended refuses nothing,  *)
(* for any number of connections and messages.  The loop refuses only once *)
(* the routing was acknowledged, and the client is Quiet from then on: no  *)
(* message by the rules is on its way on a living connection, nor will be  *)
(* on one that comes up later, whose welcome carries the drain's routing.  *)
(*                                                                         *)
(* A refused message is read and queued nowhere, which no client does that *)
(* is not refusing: that step is not one of Routing's, and keeps its       *)
(* invariant by itself (Dropped).                                          *)
(***************************************************************************)
EXTENDS Leaving, RoutingProofs

\* A drain took the rules off; the loop refuses at the end alone, and by the
\* time it does nothing is left to refuse, unless its cap or stop() ended it.
Calm ==
    /\ draining => ~takes[version]
    /\ pc \in {"last", "closing"} => refusing
    /\ refusing /\ ~capped /\ ~stopped => draining /\ Quiet
    /\ capped => draining
    /\ ~capped /\ ~stopped => refused = 0

LeavingInv == IInv /\ LeavingTypeOK /\ Calm

\* Every step is the client's, but for a refusal.
LEMMA StepOfRouting ==
    ASSUME IInv, [LeavingNext]_allVars
    PROVE  [Next]_vars \/ \E c \in Conns : Refuse(c)
<1>1. CASE StartDraining BY <1>1, Zenon DEF StartDraining, Next
<1>2. CASE Stop \/ CapPasses \/ HeldExpires \/ WaitEnds \/ Sends
  BY <1>2, Zenon DEF Stop, CapPasses, HeldExpires, WaitEnds, Sends
<1>3. ASSUME NEW c \in Conns, Event(c) PROVE Next \/ Refuse(c)
  BY <1>3, Zenon DEF Event, PlaceHeld, Lost, Received, Other, Next, Events
<1>4. ASSUME NEW c \in Conns, Network(c) PROVE Next
  BY <1>4, Zenon DEF Network, Answered, Next, Mux
<1>5. CASE Loop
  <2>1. CASE Top \/ WaitBlocks \/ Returns \/ Close BY <2>1, Zenon DEF Top, WaitBlocks, Returns, Close
  <2>2. CASE WaitMessage \/ LastMessage \/ LastLook BY <2>2, Zenon DEF WaitMessage, LastMessage, LastLook, Next
  <2>3. CASE WaitTold BY <2>3, Zenon DEF WaitTold, Next
  <2>4. CASE WaitWoken
    <3>1. TakeAcknowledgedWake \/ UNCHANGED vars
      <4>1. CASE wake BY <2>4, <4>1, Zenon DEF WaitWoken, TakeAcknowledgedWake
      <4>2. CASE ~wake /\ wake = FALSE BY <2>4, <4>2, Zenon DEF WaitWoken, vars, client, server
      <4> QED BY <4>1, <4>2, Zenon DEF IInv, TypeOK
    <3> QED BY <3>1, Zenon DEF Next
  <2> QED BY <1>5, <2>1, <2>2, <2>3, <2>4, Zenon DEF Loop
<1>6. CASE UNCHANGED allVars BY <1>6, Zenon DEF allVars
<1> QED BY <1>1, <1>2, <1>3, <1>4, <1>5, <1>6, Zenon DEF LeavingNext

LEMMA NextRouting == ASSUME IInv, [LeavingNext]_allVars PROVE IInv'
<1>1. ASSUME NEW c \in Conns, Refuse(c) PROVE Dropped(c) BY <1>1, Zenon DEF Refuse, Dropped
<1> QED BY <1>1, StepOfRouting, NextIInv, HandleMessageStep, Zenon

\* Nothing turns the rules on again.
LEMMA StaysOff ==
    ASSUME IInv, [LeavingNext]_allVars
    PROVE  ~takes[version] \/ StartDraining => ~takes'[version']
<1>0. takes \in [Versions -> BOOLEAN] /\ version \in Versions BY Zenon DEF IInv, TypeOK
<1>1. ASSUME StartDraining PROVE ~takes'[version']
  <2>1. version < MaxVersion /\ version' = version + 1 /\ takes' = [takes EXCEPT ![version + 1] = FALSE]
    BY <1>1, Zenon DEF StartDraining, SetRouting
  <2>2. version + 1 \in Versions BY <2>1, <1>0, RoutingAssumption DEF Versions
  <2> QED BY <2>1, <2>2, <1>0, Zenon
<1>2. ~StartDraining => UNCHANGED <<version, takes>>
  <2>0. UNCHANGED vars => UNCHANGED <<version, takes>> BY Zenon DEF vars, client
  <2>1. CASE Stop \/ CapPasses \/ HeldExpires \/ WaitEnds \/ Sends
    BY <2>0, <2>1, Zenon DEF Stop, CapPasses, HeldExpires, WaitEnds, Sends
  <2>2. ASSUME NEW c \in Conns, Event(c) PROVE UNCHANGED <<version, takes>>
    <3>1. CASE PlaceHeld(c) BY <3>1, Zenon DEF PlaceHeld, AfterConnectionRegistration
    <3>2. CASE Lost(c) BY <3>2, Zenon DEF Lost, ConnectionDestroyed, WriteFailed
    <3>3. CASE Received(c) BY <3>3, Zenon DEF Received, HandleMessage
    <3>4. CASE Refuse(c) BY <3>4, Zenon DEF Refuse, client
    <3>5. CASE Other(c) BY <3>5, Zenon DEF Other, Open, OnPeerStatus, ReadToTheEnd
    <3> QED BY <2>2, <3>1, <3>2, <3>3, <3>4, <3>5, Zenon DEF Event
  <2>3. ASSUME NEW c \in Conns, Network(c) PROVE UNCHANGED <<version, takes>>
    <3>1. UNCHANGED client BY <2>3, Zenon DEF Network, MuxRegister, Answered, HandlePeerControl, MuxRoute, MuxGone
    <3> QED BY <3>1, Zenon DEF client
  <2>4. CASE Loop
    <3>1. CASE Top \/ WaitBlocks \/ Returns \/ Close BY <2>0, <3>1, Zenon DEF Top, WaitBlocks, Returns, Close
    <3>2. CASE WaitMessage \/ LastMessage \/ LastLook
      BY <2>0, <3>2, Zenon DEF WaitMessage, LastMessage, LastLook, NextIncomingMessage
    <3>3. CASE WaitTold \/ WaitWoken BY <3>3, Zenon DEF WaitTold, WaitWoken, AcknowledgedByReceive
    <3> QED BY <2>4, <3>1, <3>2, <3>3, Zenon DEF Loop
  <2>5. CASE UNCHANGED allVars BY <2>0, <2>5, Zenon DEF allVars
  <2> QED BY <2>1, <2>2, <2>3, <2>4, <2>5, Zenon DEF LeavingNext
<1> QED BY <1>1, <1>2, Zenon

LEMMA NextQuiet == ASSUME IInv, [LeavingNext]_allVars, Quiet PROVE Quiet'
<1>1. ASSUME NEW c \in Conns, Refuse(c) PROVE Dropped(c) BY <1>1, Zenon DEF Refuse, Dropped
<1>2. ~takes'[version'] BY StaysOff, Zenon DEF Quiet
<1> QED BY <1>1, <1>2, StepOfRouting, QuietNext, QuietDropped, Zenon

LEMMA NextType == ASSUME LeavingTypeOK, [LeavingNext]_allVars PROVE LeavingTypeOK'
<1> DEFINE Places == {"top", "wait", "blocked", "look", "busy", "last", "closing"}
<1> USE LeavingAssumption
<1>0. /\ pc \in Places /\ draining \in BOOLEAN /\ stopped \in BOOLEAN /\ cap \in BOOLEAN /\ capped \in BOOLEAN
      /\ bounded \in BOOLEAN /\ heldWake \in BOOLEAN /\ refusing \in BOOLEAN
      /\ sent \in 0 .. MaxSends /\ held \in Nat /\ refused \in Nat
  BY Zenon DEF LeavingTypeOK
<1> SUFFICES /\ pc' \in Places /\ draining' \in BOOLEAN /\ stopped' \in BOOLEAN /\ cap' \in BOOLEAN /\ capped' \in BOOLEAN
             /\ bounded' \in BOOLEAN /\ heldWake' \in BOOLEAN /\ refusing' \in BOOLEAN
             /\ sent' \in 0 .. MaxSends /\ held' \in Nat /\ refused' \in Nat
  BY Zenon DEF LeavingTypeOK
<1>a. Woken \in Places BY <1>0, Zenon DEF Woken
<1> HIDE DEF Places
<1>b. {"top", "wait", "look", "busy", "last", "closing", "blocked"} \subseteq Places BY Zenon DEF Places
<1>1. CASE StartDraining \/ Stop BY <1>0, <1>1, <1>a, Zenon DEF StartDraining, Stop
<1>c. CASE CapPasses BY <1>0, <1>b, <1>c, Zenon DEF CapPasses
<1>2. CASE HeldExpires \/ WaitEnds \/ Sends
  <2>1. CASE HeldExpires BY <1>0, <1>a, <2>1 DEF HeldExpires, Runs
  <2>2. CASE WaitEnds BY <1>0, <1>b, <2>2, Zenon DEF WaitEnds
  <2>3. CASE Sends BY <1>0, <2>3 DEF Sends
  <2> QED BY <1>2, <2>1, <2>2, <2>3, Zenon
<1>3. ASSUME NEW c \in Conns, Event(c)
      PROVE  /\ pc' \in Places /\ held' \in Nat /\ heldWake' \in BOOLEAN /\ refused' \in Nat
             /\ UNCHANGED <<draining, stopped, cap, capped, bounded, sent, refusing>>
  <2>1. CASE PlaceHeld(c) BY <1>0, <1>a, <2>1, Zenon DEF PlaceHeld, Runs
  <2>2. CASE Lost(c) BY <1>0, <1>a, <2>2 DEF Lost, Runs
  <2>3. CASE Received(c) \/ Other(c) BY <1>0, <1>a, <2>3, Zenon DEF Received, Other, Runs
  <2>4. CASE Refuse(c) BY <1>0, <1>a, <2>4 DEF Refuse, Runs
  <2> QED BY <1>3, <2>1, <2>2, <2>3, <2>4, Zenon DEF Event
<1>4. ASSUME NEW c \in Conns, Network(c) PROVE UNCHANGED loop BY <1>4, Zenon DEF Network
<1>5. CASE Loop
  <2>1. CASE Top \/ WaitBlocks \/ Returns \/ Close BY <1>0, <1>b, <2>1, Zenon DEF Top, WaitBlocks, Returns, Close
  <2>2. CASE WaitMessage \/ LastMessage \/ LastLook \/ WaitTold \/ WaitWoken
    BY <1>0, <1>b, <2>2, Zenon DEF WaitMessage, LastMessage, LastLook, WaitTold, WaitWoken, loop
  <2> QED BY <1>5, <2>1, <2>2, Zenon DEF Loop
<1>6. UNCHANGED allVars => UNCHANGED loop BY Zenon DEF allVars
<1>7. CASE UNCHANGED loop BY <1>0, <1>7, Zenon DEF loop
<1> QED BY <1>0, <1>1, <1>c, <1>2, <1>3, <1>4, <1>5, <1>6, <1>7, Zenon DEF LeavingNext

\* A step that ends no drain and refuses nothing.
LEMMA CalmKept ==
    ASSUME Calm, IInv, [LeavingNext]_allVars, UNCHANGED <<refusing, refused, draining>>, stopped => stopped',
           capped => capped', capped' => draining, pc' \in {"last", "closing"} => pc \in {"last", "closing"}
    PROVE  Calm'
<1>1. Quiet => Quiet' BY NextQuiet, Zenon
<1>2. draining => ~takes'[version'] BY StaysOff, Zenon DEF Calm
<1> QED BY <1>1, <1>2, Zenon DEF Calm

LEMMA NextCalm == ASSUME LeavingInv, [LeavingNext]_allVars PROVE Calm'
<1>0. /\ Calm /\ IInv /\ LeavingTypeOK
      /\ pc \in {"top", "wait", "blocked", "look", "busy", "last", "closing"} /\ refused \in Nat
      /\ stopped \in BOOLEAN /\ capped \in BOOLEAN /\ draining \in BOOLEAN /\ refusing \in BOOLEAN
  BY Zenon DEF LeavingInv, LeavingTypeOK
<1>a. Quiet => Quiet' BY <1>0, NextQuiet, Zenon
<1>b. ASSUME UNCHANGED <<refusing, refused, draining, stopped, capped>>, pc' \in {"last", "closing"} => pc' = pc PROVE Calm'
  BY <1>b, <1>0, CalmKept, Zenon DEF Calm
<1>c. ASSUME Runs PROVE pc' \in {"last", "closing"} => pc' = pc BY <1>c, Zenon DEF Runs, Woken
<1>1. CASE StartDraining
  <2>1. /\ ~draining /\ draining' = TRUE /\ UNCHANGED <<refusing, refused, stopped, capped>>
        /\ pc' \in {"last", "closing"} => pc' = pc
    BY <1>1, Zenon DEF StartDraining, Woken
  <2>2. ~takes'[version'] BY <1>0, <1>1, StaysOff, Zenon
  <2> QED BY <2>1, <2>2, <1>0, Zenon DEF Calm
<1>2. CASE Stop BY <1>0, <1>2, CalmKept, Zenon DEF Stop, Calm
<1>3. CASE CapPasses BY <1>0, <1>3, CalmKept, Zenon DEF CapPasses
<1>4. CASE HeldExpires \/ WaitEnds \/ Sends BY <1>4, <1>b, <1>c, Zenon DEF HeldExpires, WaitEnds, Sends
<1>5. ASSUME NEW c \in Conns, Event(c) PROVE Calm'
  <2>1. CASE PlaceHeld(c) \/ Lost(c) \/ Received(c) \/ Other(c)
    BY <2>1, <1>b, <1>c, Zenon DEF PlaceHeld, Lost, Received, Other
  <2>2. CASE Refuse(c)
    <3>1. /\ refusing /\ Arrives(c, "message") /\ refused' = (IF Living(c) THEN refused + 1 ELSE refused)
          /\ UNCHANGED <<refusing, draining, stopped, capped>> /\ Runs
      BY <2>2, Zenon DEF Refuse
    <3>2. CASE ~capped /\ ~stopped
      <4>1. Quiet BY <3>1, <3>2, <1>0, Zenon DEF Calm
      <4>2. ~Living(c)
        <5>1. SUFFICES ASSUME Living(c) PROVE FALSE BY Zenon
        <5>2. \A i \in DOMAIN s2c[c] : s2c[c][i].kind # "message" BY <5>1, <4>1, Zenon DEF Quiet, Hushed
        <5>3. s2c[c] \in Seq([kind : Kinds, ver : Versions]) BY <1>0, Zenon DEF IInv, TypeOK
        <5>4. /\ s2c[c] # <<>> /\ Head(s2c[c]) = s2c[c][1] /\ Len(s2c[c]) \in Nat /\ Len(s2c[c]) >= 1
              /\ DOMAIN s2c[c] = 1 .. Len(s2c[c])
          BY <3>1, <5>3, TailFacts, Zenon DEF Arrives
        <5>5. 1 \in DOMAIN s2c[c] BY <5>4
        <5> QED BY <3>1, <5>2, <5>4, <5>5, Zenon DEF Arrives
      <4> QED BY <3>1, <4>2, <1>b, <1>c, Zenon
    <3>3. CASE capped \/ stopped
      <4>1. draining => ~takes'[version'] BY <1>0, StaysOff, Zenon DEF Calm
      <4> QED BY <3>1, <3>3, <4>1, <1>0, <1>c, Zenon DEF Calm
    <3> QED BY <3>2, <3>3, Zenon
  <2> QED BY <1>5, <2>1, <2>2, Zenon DEF Event
<1>6. ASSUME NEW c \in Conns, Network(c) PROVE Calm' BY <1>6, <1>b, Zenon DEF Network, loop
<1>7. CASE Top
  <2>1. /\ refusing' = ((draining /\ Drained /\ ~stopped) \/ stopped) /\ UNCHANGED <<draining, stopped, capped, refused>>
        /\ pc' \in {"last", "closing"} => refusing' /\ UNCHANGED vars
    BY <1>7, Zenon DEF Top
  <2>2. UNCHANGED vars BY <1>7, Zenon DEF Top
  <2>3. UNCHANGED <<version, takes>> BY <2>2, Zenon DEF vars, client
  <2>4. ASSUME refusing', ~capped, ~stopped PROVE draining /\ Quiet
    <3>1. draining /\ RoutingAcknowledged BY <2>1, <2>4, Zenon DEF Drained
    <3> QED BY <3>1, <1>0, MeansStopped, AcknowledgedQuiet, Zenon DEF Calm
  <2> QED BY <2>1, <2>3, <2>4, <1>a, <1>0, Zenon DEF Calm
<1>8. CASE WaitMessage \/ WaitTold \/ WaitWoken \/ WaitBlocks \/ LastLook \/ Returns \/ LastMessage
  BY <1>8, <1>b, Zenon DEF WaitMessage, WaitTold, WaitWoken, WaitBlocks, LastLook, Returns, LastMessage, loop
<1>9. CASE Close
  <2>1. refusing /\ refusing' /\ pc = "last" /\ UNCHANGED <<draining, stopped, capped, refused>> BY <1>9, <1>0, Zenon DEF Close, Calm
  <2> QED BY <2>1, <1>0, CalmKept, Zenon DEF Calm
<1>10. CASE UNCHANGED allVars BY <1>10, <1>b, Zenon DEF allVars, loop
<1> QED BY <1>1, <1>2, <1>3, <1>4, <1>5, <1>6, <1>7, <1>8, <1>9, <1>10, Zenon DEF LeavingNext, Loop

\* A drain of a plain server that its confirmation ended, not its cap or
\* stop(), refuses no request the rules routed, for any number of
\* connections, messages and sends: whatever the multiplexers routed before
\* the change came ahead of their confirmations, and is served (drained(),
\* refuse_arrivals()).
THEOREM LeavingNothingRefused == LeavingSpec => []NothingRefused
<1>1. LeavingInit => LeavingInv
  <2> SUFFICES ASSUME LeavingInit PROVE LeavingInv BY Zenon
  <2>1. IInv BY InitIInv, Zenon DEF LeavingInit
  <2>2. LeavingTypeOK
    <3>1. /\ pc = "top" /\ draining = FALSE /\ stopped = FALSE /\ cap \in Caps /\ capped = FALSE /\ bounded = FALSE
          /\ held = 0 /\ sent = 0 /\ heldWake = FALSE /\ refusing = FALSE /\ refused = 0
      BY Zenon DEF LeavingInit
    <3>2. 0 \in 0 .. MaxSends /\ cap \in BOOLEAN BY <3>1, LeavingAssumption
    <3> QED BY <3>1, <3>2, Zenon DEF LeavingTypeOK
  <2>3. Calm BY Zenon DEF LeavingInit, Calm
  <2> QED BY <2>1, <2>2, <2>3, Zenon DEF LeavingInv
<1>2. LeavingInv /\ [LeavingNext]_allVars => LeavingInv'
  BY NextRouting, NextType, NextCalm, Zenon DEF LeavingInv
<1>3. LeavingInv => NothingRefused BY Zenon DEF LeavingInv, Calm, NothingRefused
<1> QED BY <1>1, <1>2, <1>3, PTL DEF LeavingSpec
=============================================================================
