---------------------------- MODULE ClientProofs ----------------------------
(***************************************************************************)
(* What is proved of the state machines around a client: Turns, for every  *)
(* set of threads and any number of calls, Connections, for any targets,   *)
(* connections and multiplexers, and Heartbeats, for any intervals.        *)
(***************************************************************************)
EXTENDS Connections, Turns, Heartbeats, FiniteSetTheorems, TLAPS

-----------------------------------------------------------------------------
(* Turns.                                                                  *)

\* Who holds a mutex is where its holder is; the loop's thread calls from
\* its handler alone.
Mutexes ==
    /\ \A t \in Threads :
          /\ client = t <=> (pc[t] = "turn" \/ (t = Loop /\ lpc \in {"look", "sleep", "own"}))
          /\ turns = t <=> (pc[t] = "count" \/ (t = Loop /\ lpc \in {"check", "waits"}))
          /\ pc[t] \in {"drop", "count"} => asked[t]
    /\ pc[Loop] # "idle" => lpc = "handler"

\* stop() clears working first.
Stopping == spc # "idle" => ~working

\* The loop goes to wait on the condition variable only for someone.
Waiting == lpc = "waits" => Asking # {}

IInv == TurnsTypeOK /\ AskingExact /\ Mutexes /\ Stopping /\ Waiting /\ NotSleptOn /\ NotForgotten

\* The threads, and so those asking, are finitely many.
LEMMA AskingFinite == IsFiniteSet(Asking) /\ Asking \subseteq Threads
<1>1. IsFiniteSet(Threads)
  BY TurnsAssumption, FS_AddElement, Zenon DEF Threads
<1> QED
  BY <1>1, FS_Subset, Zenon DEF Asking

\* asking is 0 exactly when nobody asks.
LEMMA NobodyAsks ==
  ASSUME AskingExact
  PROVE  asking = 0 <=> Asking = {}
BY AskingFinite, FS_EmptySet, Zenon DEF AskingExact

\* A set of threads one larger, or one smaller.
LEMMA OneMore ==
  ASSUME NEW S, NEW R, NEW t, IsFiniteSet(S), t \notin S, R = S \cup {t}
  PROVE  Cardinality(R) = Cardinality(S) + 1
BY FS_AddElement, Zenon

LEMMA OneLess ==
  ASSUME NEW S, NEW R, NEW t, IsFiniteSet(S), t \in S, R = S \ {t}
  PROVE  Cardinality(R) = Cardinality(S) - 1 /\ Cardinality(S) \in Nat /\ Cardinality(S) # 0
         /\ (R = {} <=> Cardinality(S) = 1)
<1>1. Cardinality(R) = Cardinality(S) - 1 /\ IsFiniteSet(R)
  BY FS_RemoveElement, Zenon
<1>2. Cardinality(S) \in Nat /\ Cardinality(R) \in Nat
  BY <1>1, FS_CardinalityType, Zenon
<1>3. Cardinality(S) # 0
  BY FS_EmptySet, Zenon
<1>4. R = {} <=> Cardinality(R) = 0
  BY <1>1, FS_EmptySet, Zenon
<1> QED
  BY <1>1, <1>2, <1>3, <1>4

\* Nobody asks at the start.
LEMMA InitIInv == TurnsInit => IInv
<1> SUFFICES ASSUME TurnsInit PROVE IInv
  BY Zenon
<1>1. TurnsTypeOK /\ Mutexes
  BY TurnsAssumption, Zenon DEF TurnsInit, TurnsTypeOK, Mutexes, Threads
<1>2. Asking = {}
  BY Zenon DEF TurnsInit, Asking
<1>3. AskingExact
  BY <1>2, FS_EmptySet, Zenon DEF TurnsInit, AskingExact
<1> QED
  BY <1>1, <1>3, Zenon DEF TurnsInit, IInv, Stopping, Waiting, NotSleptOn, NotForgotten

\* The loop's steps change nothing of who asks.
LEMMA LoopKeeps ==
  ASSUME IInv, LoopStep \/ Received \/ YieldSpurious \/ RunOne
  PROVE  IInv'
<1> USE DEF IInv
<1>1. pc' = pc /\ asked' = asked /\ asking' = asking /\ spc' = spc /\ working' = working
  BY Zenon DEF LoopStep, YieldToCallers, YieldLocks, YieldChecks, YieldWaits, YieldNotified, YieldSpurious,
         Working, Take, Received, Asked, WokenUp, RunOne, Handled, OwnCall
<1>2. Asking' = Asking
  BY <1>1, Zenon DEF Asking
<1>3. TurnsTypeOK'
  BY ZenonT(40) DEF LoopStep, YieldToCallers, YieldLocks, YieldChecks, YieldWaits, YieldNotified,
         YieldSpurious, Working, Take, Received, Asked, WokenUp, RunOne, Handled, OwnCall, TurnsTypeOK, Threads
<1>4. AskingExact' /\ Stopping'
  BY <1>1, <1>2, Zenon DEF AskingExact, Stopping
<1>5. Mutexes'
  BY TurnsAssumption DEF LoopStep, YieldToCallers, YieldLocks, YieldChecks, YieldWaits, YieldNotified,
     YieldSpurious, Working, Take, Received, Asked, WokenUp, RunOne, Handled, OwnCall, Mutexes, TurnsTypeOK, Threads
<1>6. asking # 0 => Asking # {}
  BY NobodyAsks, Zenon
<1>7. Waiting'
  BY <1>2, <1>6, Zenon DEF LoopStep, YieldToCallers, YieldLocks, YieldChecks, YieldWaits, YieldNotified, YieldSpurious,
     Working, Take, Received, Asked, WokenUp, RunOne, Handled, OwnCall, Waiting
<1>8. NotForgotten'
  BY <1>2, Zenon DEF LoopStep, YieldToCallers, YieldLocks, YieldChecks, YieldWaits, YieldNotified, YieldSpurious,
     Working, Take, Received, Asked, WokenUp, RunOne, Handled, OwnCall, Waiting, NotForgotten
<1>9. NotSleptOn'
  <2>1. CASE Asked
    <3>1. asking = 0 => ~ \E t \in Threads : pc[t] = "lock"
      BY NobodyAsks, Zenon DEF Asking
    <3> QED
      BY <2>1, <3>1, <1>1, Zenon DEF Asked, NotSleptOn, Stopping
  <2>2. CASE ~Asked
    BY <2>2, <1>1, Zenon DEF LoopStep, YieldToCallers, YieldLocks, YieldChecks, YieldWaits, YieldNotified,
       YieldSpurious, Working, Take, Received, WokenUp, RunOne, Handled, OwnCall, NotSleptOn
  <2> QED
    BY <2>1, <2>2, Zenon
<1> QED
  BY <1>3, <1>4, <1>5, <1>7, <1>8, <1>9, Zenon

\* stop() changes nothing of who asks, and wakes after it clears working.
LEMMA StopKeeps ==
  ASSUME IInv, Stop \/ StopWakes
  PROVE  IInv'
<1> USE DEF IInv
<1>1. Asking' = Asking
  BY Zenon DEF Stop, StopWakes, Asking
<1>2. TurnsTypeOK' /\ Mutexes'
  BY ZenonT(40) DEF Stop, StopWakes, TurnsTypeOK, Mutexes
<1>3. AskingExact' /\ Waiting' /\ NotForgotten'
  BY <1>1, Zenon DEF Stop, StopWakes, AskingExact, Waiting, NotForgotten
<1>4. Stopping'
  BY Zenon DEF Stop, StopWakes, Stopping
<1>5. NotSleptOn'
  BY Zenon DEF Stop, StopWakes, NotSleptOn
<1> QED
  BY <1>2, <1>3, <1>4, <1>5, Zenon

\* The parts of the invariant a call's step keeps whatever it does to asking.
LEMMA CallKeeps ==
  ASSUME IInv, NEW t \in Threads, TryLock(t) \/ Call(t), asking' \in Nat
  PROVE  TurnsTypeOK' /\ Mutexes' /\ Stopping' /\ NotSleptOn'
<1> USE DEF IInv
<1>1. TurnsTypeOK'
  <2>1. CASE TryLock(t)
    <3>1. client' \in Threads \cup {Nobody} /\ pc' \in [Threads -> {"idle", "ask", "wake", "lock", "turn", "drop", "count"}]
      BY <2>1, Zenon DEF TryLock, Goes, TurnsTypeOK
    <3>2. asked' \in [Threads -> BOOLEAN]
      BY <2>1, Zenon DEF TryLock, TurnsTypeOK
    <3>3. calls' \in Nat
      BY <2>1 DEF TryLock, TurnsTypeOK
    <3> QED
      BY <2>1, <3>1, <3>2, <3>3, Zenon DEF TryLock, TurnsTypeOK
  <2>2. CASE Call(t)
    <3>1. client' \in Threads \cup {Nobody} /\ turns' \in Threads \cup {Nobody}
      BY <2>2, Zenon DEF Call, Ask, Wake, Lock, Release, LockTurns, CountOff, TurnsTypeOK
    <3>2. calls' = calls /\ working' = working /\ lpc' = lpc /\ spc' = spc /\ waker' \in BOOLEAN /\ turned' \in BOOLEAN
      BY <2>2, Zenon DEF Call, Ask, Wake, Lock, Release, LockTurns, CountOff, TurnsTypeOK
    <3>3. pc' \in [Threads -> {"idle", "ask", "wake", "lock", "turn", "drop", "count"}]
      BY <2>2, Zenon DEF Call, Ask, Wake, Lock, Release, LockTurns, CountOff, Goes, TurnsTypeOK
    <3>4. asked' \in [Threads -> BOOLEAN]
      BY <2>2, Zenon DEF Call, Ask, Wake, Lock, Release, LockTurns, CountOff, TurnsTypeOK
    <3> QED
      BY <3>1, <3>2, <3>3, <3>4, Zenon DEF TurnsTypeOK
  <2> QED
    BY <2>1, <2>2, Zenon
<1>2. Mutexes'
  <2>1. CASE TryLock(t)
    BY <2>1, TurnsAssumption DEF TryLock, Goes, Mutexes, TurnsTypeOK, Threads
  <2>2. CASE Ask(t) \/ Wake(t)
    BY <2>2, TurnsAssumption DEF Ask, Wake, Goes, Mutexes, TurnsTypeOK, Threads
  <2>3. CASE Lock(t)
    BY <2>3, TurnsAssumption, Zenon DEF Lock, Goes, Mutexes, TurnsTypeOK, Threads
  <2>4. CASE Release(t)
    BY <2>4, TurnsAssumption, Zenon DEF Release, Goes, Mutexes, TurnsTypeOK, Threads
  <2>5. CASE LockTurns(t)
    BY <2>5, TurnsAssumption, Zenon DEF LockTurns, Goes, Mutexes, TurnsTypeOK, Threads
  <2>6. CASE CountOff(t)
    BY <2>6, TurnsAssumption, Zenon DEF CountOff, Goes, Mutexes, TurnsTypeOK, Threads
  <2> QED
    BY <2>1, <2>2, <2>3, <2>4, <2>5, <2>6, Zenon DEF Call
<1>3. Stopping'
  BY Zenon DEF TryLock, Call, Ask, Wake, Lock, Release, LockTurns, CountOff, Stopping
<1>4. NotSleptOn'
  BY Zenon DEF TryLock, Call, Ask, Wake, Lock, Release, LockTurns, CountOff, Goes, NotSleptOn, TurnsTypeOK
<1> QED
  BY <1>1, <1>2, <1>3, <1>4, Zenon

\* A call counts itself off once, after it counted itself in.
LEMMA CallStep ==
  ASSUME IInv, NEW t \in Threads, TryLock(t) \/ Call(t)
  PROVE  IInv'
<1> USE DEF IInv
<1>1. CASE Ask(t)
  <2>1. t \notin Asking /\ Asking' = Asking \cup {t}
    BY <1>1, Zenon DEF Ask, Goes, Asking, TurnsTypeOK
  <2>2. AskingExact' /\ asking' \in Nat
    BY <1>1, <2>1, AskingFinite, OneMore DEF Ask, AskingExact, TurnsTypeOK
  <2>3. Waiting' /\ NotForgotten'
    BY <2>1, Zenon DEF Waiting, NotForgotten
  <2> QED
    BY <1>1, <2>2, <2>3, CallKeeps, Zenon DEF Call
<1>2. CASE CountOff(t)
  <2>1. t \in Asking /\ Asking' = Asking \ {t}
    BY <1>2, Zenon DEF CountOff, Goes, Asking, TurnsTypeOK, Mutexes
  <2>2. AskingExact' /\ asking' \in Nat /\ (Asking' = {} <=> asking = 1)
    BY <1>2, <2>1, AskingFinite, OneLess DEF CountOff, AskingExact, TurnsTypeOK
  <2>3. Waiting'
    <3>1. turns = t /\ (t = Loop => lpc = "handler")
      BY <1>2, Zenon DEF CountOff, Mutexes
    <3>2. lpc # "waits"
      BY <3>1, TurnsAssumption, Zenon DEF Mutexes, Threads
    <3> QED
      BY <1>2, <3>2, Zenon DEF CountOff, Waiting
  <2>4. NotForgotten'
    BY <1>2, <2>2, Zenon DEF CountOff, NotForgotten, TurnsTypeOK
  <2> QED
    BY <1>2, <2>2, <2>3, <2>4, CallKeeps, Zenon DEF Call
<1>3. CASE TryLock(t) \/ Wake(t) \/ Lock(t) \/ Release(t) \/ LockTurns(t)
  <2>1. Asking' = Asking
    BY <1>3 DEF TryLock, Wake, Lock, Release, LockTurns, Goes, Asking, TurnsTypeOK, Mutexes
  <2>2. asking' = asking /\ lpc' = lpc /\ turned' = turned
    BY <1>3, Zenon DEF TryLock, Wake, Lock, Release, LockTurns
  <2>3. AskingExact' /\ Waiting' /\ NotForgotten'
    BY <2>1, <2>2, Zenon DEF AskingExact, Waiting, NotForgotten
  <2>4. asking' \in Nat
    BY <2>2, Zenon DEF TurnsTypeOK
  <2> QED
    BY <2>3, <2>4, CallKeeps, Zenon
<1> QED
  BY <1>1, <1>2, <1>3, Zenon DEF Call

\* Every step of every thread keeps the invariant.
LEMMA NextIInv == IInv /\ [TurnsNext]_turnsVars => IInv'
<1> SUFFICES ASSUME IInv, [TurnsNext]_turnsVars PROVE IInv'
  BY Zenon
<1>1. CASE UNCHANGED turnsVars
  <2>1. Asking' = Asking
    BY <1>1, Zenon DEF turnsVars, Asking
  <2> QED
    BY <1>1, <2>1 DEF turnsVars, IInv, TurnsTypeOK, AskingExact, Mutexes, Stopping, Waiting, NotSleptOn, NotForgotten
<1>2. CASE \E t \in Threads : TryLock(t) \/ Call(t)
  BY <1>2, CallStep, Zenon
<1>3. CASE Stop \/ StopWakes
  BY <1>3, StopKeeps, Zenon
<1>4. CASE LoopStep \/ Received \/ YieldSpurious \/ RunOne
  BY <1>4, LoopKeeps, Zenon
<1> QED
  BY <1>1, <1>2, <1>3, <1>4, Zenon DEF TurnsNext

LEMMA TurnsIInv == TurnsSpec => []IInv
BY InitIInv, NextIInv, PTL DEF TurnsSpec

\* For every set of threads: the count of the calls that asked for a turn is
\* exact (Shared::client, Turn::drop).
THEOREM TurnsAskingExact == TurnsSpec => []AskingExact
<1>1. IInv => AskingExact
  BY Zenon DEF IInv
<1> QED
  BY <1>1, TurnsIInv, PTL

\* For every set of threads: the loop never sleeps in its wait on a call that
\* waits for the client, or on stop(), without its wake (Shared::client,
\* Shared::stop, SyncClient::wait_for_message).
THEOREM TurnsNotSleptOn == TurnsSpec => []NotSleptOn
<1>1. IInv => NotSleptOn
  BY Zenon DEF IInv
<1> QED
  BY <1>1, TurnsIInv, PTL

\* For every set of threads: the last turn's notification is never lost
\* (Shared::yield_to_callers, Turn::drop).
THEOREM TurnsNotForgotten == TurnsSpec => []NotForgotten
<1>1. IInv => NotForgotten
  BY Zenon DEF IInv
<1> QED
  BY <1>1, TurnsIInv, PTL

\* No wake and no notification is lost between the loop and the calls, for
\* any number of threads: the three facts together (Shared::client, Turn::drop,
\* yield_turn).
THEOREM TurnsNoWakeLost == TurnsSpec => []NoWakeLost
BY TurnsAskingExact, TurnsNotSleptOn, TurnsNotForgotten, PTL DEF NoWakeLost
-----------------------------------------------------------------------------
(* Connections.  The safety properties are inductive together: that a      *)
(* wanted target is kept needs that byTarget says only connections nobody  *)
(* was told are gone, that one needs byPeer to say only registered ones,   *)
(* as a welcome shuts down what byPeer says.                               *)

Inv == TypeOK /\ WantedKept /\ DroppedLeft /\ OnePerMultiplexer /\ ToldOnce

\* What no step changes of the properties' state but by ShutDown.
Told(c) ==
    /\ UNCHANGED <<target, host, peer, shut, wanted>>
    /\ left' \in [Slots -> Nat] /\ writing' \in [Slots -> BOOLEAN]

\* A connection that is shut down, or reads to its end from now on, keeps the
\* invariant: its target is left with a reconnect, if it is the client's.
LEMMA ShutDownKeeps ==
    ASSUME Inv, NEW c \in Slots, NEW after \in {"ending", "gone", "none"},
           st[c] \in Up \cup {"ending"}, st[c] = "ending" => after # "ending",
           ShutDown(c, after), Told(c)
    PROVE  Inv'
<1> USE NoConnAssumption
<1>1. CASE st[c] = "ending"
  <2>1. /\ st' = [st EXCEPT ![c] = after]
        /\ UNCHANGED <<byTarget, reconnects, downs, byPeer, target, host, peer, shut, wanted>>
    BY <1>1, Zenon DEF ShutDown, Told
  <2>2. TypeOK'
    BY <2>1, Zenon DEF Inv, TypeOK, States, Coming, Told
  <2>3. WantedKept'
    BY <2>1, Zenon DEF Inv, WantedKept
  <2>4. DroppedLeft'
    BY <1>1, <2>1 DEF Inv, DroppedLeft, TypeOK, Up, Coming
  <2>5. OnePerMultiplexer'
    BY <1>1, <2>1 DEF Inv, OnePerMultiplexer, TypeOK
  <2>6. ToldOnce'
    BY <1>1, <2>1, Zenon DEF Inv, ToldOnce, TypeOK, Up, Coming
  <2> QED BY <2>2, <2>3, <2>4, <2>5, <2>6, Zenon DEF Inv
<1>2. CASE st[c] \in Up
  <2>1. /\ st' = [st EXCEPT ![c] = after]
        /\ UNCHANGED <<target, host, peer, shut, wanted>>
        /\ byPeer' = Unregistered(c)
        /\ st[c] # "ending"
    BY <1>2, Zenon DEF ShutDown, Told, Up, Coming
  <2>2. byTarget[target[c]] = c
    BY <1>2, Zenon DEF Inv, DroppedLeft
  <2>3. /\ byTarget' = [byTarget EXCEPT ![target[c]] = NoConn]
        /\ reconnects' = IF ~shut THEN [reconnects EXCEPT ![target[c]] = @ + 1] ELSE reconnects
        /\ downs' = [downs EXCEPT ![c] = @ + 1]
    BY <2>1, <2>2, Zenon DEF ShutDown, Destroyed
  <2>4. target[c] \in Targets /\ peer[c] \in Peers /\ reconnects[target[c]] \in Nat /\ downs[c] \in Nat
    BY Zenon DEF Inv, TypeOK
  <2>5. byPeer' \in [Peers -> Slots \cup {NoConn}]
    BY <2>1, <2>4, Zenon DEF Unregistered, Inv, TypeOK
  <2>6. reconnects' \in [Targets -> Nat] /\ downs' \in [Slots -> Nat]
    BY <2>3, <2>4 DEF Inv, TypeOK
  <2>7. TypeOK'
    BY <2>1, <2>3, <2>4, <2>5, <2>6, Zenon DEF Inv, TypeOK, States, Coming, Told
  <2>8. WantedKept'
    BY <2>1, <2>2, <2>3, <2>4 DEF Inv, WantedKept, TypeOK
  <2>9. DroppedLeft'
    BY <1>2, <2>1, <2>2, <2>3, <2>4 DEF Inv, DroppedLeft, TypeOK, Up, Coming
  <2>10. OnePerMultiplexer'
    BY <1>2, <2>1, <2>4 DEF Inv, OnePerMultiplexer, TypeOK, Unregistered
  <2>11. ToldOnce'
    BY <1>2, <2>1, <2>3, <2>4 DEF Inv, ToldOnce, TypeOK, Up, Coming
  <2> QED BY <2>7, <2>8, <2>9, <2>10, <2>11, Zenon DEF Inv
<1> QED BY <1>1, <1>2, Zenon

\* A connection opened for a target that has none keeps the invariant, a
\* reconnect used up for it or not.
LEMMA OpensKeeps ==
    ASSUME Inv, NEW t \in Targets, byTarget[t] = NoConn, ~shut, Opens(t),
           wanted' = wanted \cup {t}, UNCHANGED shut,
           reconnects' \in [Targets -> Nat],
           \A u \in Targets : u # t => reconnects'[u] = reconnects[u]
    PROVE  Inv'
<1> USE NoConnAssumption
<1>1. PICK c \in Slots :
        /\ st[c] = "none"
        /\ st' = [st EXCEPT ![c] = IF t \in Names THEN "resolving" ELSE "connecting"]
        /\ target' = [target EXCEPT ![c] = t] /\ left' = [left EXCEPT ![c] = 0]
        /\ byTarget' = [byTarget EXCEPT ![t] = c]
        /\ downs' = [downs EXCEPT ![c] = 0]
        /\ UNCHANGED <<host, peer, writing, byPeer>>
  BY Zenon DEF Opens
<1>2. TypeOK'
  BY <1>1, Zenon DEF Inv, TypeOK, States, Coming
<1>3. WantedKept'
  BY <1>1 DEF Inv, WantedKept, TypeOK
<1>4. DroppedLeft'
  BY <1>1 DEF Inv, DroppedLeft, TypeOK, Up, Coming
<1>5. OnePerMultiplexer'
  BY <1>1 DEF Inv, OnePerMultiplexer, TypeOK
<1>6. ToldOnce'
  BY <1>1, Zenon DEF Inv, ToldOnce, TypeOK, Up, Coming
<1> QED BY <1>2, <1>3, <1>4, <1>5, <1>6, Zenon DEF Inv

\* A step of a connection between two states in which nobody was told it is
\* gone, neither registered, or none of its state at all.
LEMMA ComingKeeps ==
    ASSUME Inv, NEW c \in Slots,
           \/ st' = st
           \/ /\ st[c] \in Coming /\ st' = [st EXCEPT ![c] = st'[c]] /\ st'[c] \in Coming
           \/ st[c] = "gone" /\ st' = [st EXCEPT ![c] = "none"],
           UNCHANGED <<target, peer, byTarget, byPeer, reconnects, downs, shut, wanted>>,
           host' \in [Slots -> Hosts], left' \in [Slots -> Nat], writing' \in [Slots -> BOOLEAN]
    PROVE  Inv'
<1> USE NoConnAssumption
<1>1. TypeOK'
  BY Zenon DEF Inv, TypeOK, States, Coming
<1>2. WantedKept'
  BY Zenon DEF Inv, WantedKept
<1>3. DroppedLeft'
  BY DEF Inv, DroppedLeft, TypeOK, Up, Coming
<1>4. OnePerMultiplexer'
  BY DEF Inv, OnePerMultiplexer, TypeOK, Coming
<1>5. ToldOnce'
  BY Zenon DEF Inv, ToldOnce, TypeOK, Up, Coming
<1> QED BY <1>1, <1>2, <1>3, <1>4, <1>5, Zenon DEF Inv

\* A target dropped: its connection's end arms nothing.
LEMMA DisconnectKeeps ==
    ASSUME Inv, NEW t \in Targets, Disconnect(t)
    PROVE  Inv'
<1> USE NoConnAssumption
<1> DEFINE c == byTarget[t]
<1>1. /\ ~shut /\ wanted' = wanted \ {t}
      /\ reconnects' = [reconnects EXCEPT ![t] = 0]
      /\ byTarget' = [byTarget EXCEPT ![t] = NoConn]
      /\ UNCHANGED <<target, host, peer, left, writing, shut>>
  BY Zenon DEF Disconnect, who
<1>2. CASE c = NoConn
  <2>1. UNCHANGED <<st, byPeer, downs>>
    BY <1>2, Zenon DEF Disconnect
  <2> QED
    BY <1>1, <1>2, <2>1
    DEF Inv, TypeOK, WantedKept, DroppedLeft, OnePerMultiplexer, ToldOnce
<1>3. CASE c # NoConn
  <2>1. c \in Slots /\ st[c] \in Up /\ target[c] = t
    BY <1>3 DEF Inv, TypeOK, DroppedLeft
  <2>2. /\ st' = [st EXCEPT ![c] = Closing(c)] /\ byPeer' = Unregistered(c)
        /\ downs' = [downs EXCEPT ![c] = @ + 1]
    BY <1>3, Zenon DEF Disconnect
  <2>3. Closing(c) \in {"ending", "gone", "none"} /\ peer[c] \in Peers /\ downs[c] \in Nat
    BY <2>1, Zenon DEF Closing, After, Inv, TypeOK
  <2> HIDE DEF c
  <2>4. byPeer' \in [Peers -> Slots \cup {NoConn}]
    BY <2>1, <2>2, <2>3, Zenon DEF Unregistered, Inv, TypeOK
  <2>5. TypeOK'
    BY <1>1, <2>1, <2>2, <2>3, <2>4 DEF Inv, TypeOK, States, Coming
  <2>6. WantedKept'
    BY <1>1, <2>1, Zenon DEF Inv, WantedKept, TypeOK
  <2>7. DroppedLeft'
    BY <1>1, <2>1, <2>2, <2>3 DEF Inv, DroppedLeft, TypeOK, Up, Coming, c
  <2>8. OnePerMultiplexer'
    BY <1>1, <2>1, <2>2, <2>3 DEF Inv, OnePerMultiplexer, TypeOK, Unregistered
  <2>9. ToldOnce'
    BY <1>1, <2>1, <2>2, <2>3 DEF Inv, ToldOnce, TypeOK, Up, Coming
  <2> QED BY <2>5, <2>6, <2>7, <2>8, <2>9, Zenon DEF Inv
<1> QED BY <1>2, <1>3, Zenon

\* The client shut down: every connection that was up or on its way closes.
LEMMA ShutdownKeeps ==
    ASSUME Inv, ShutdownClient
    PROVE  Inv'
<1> USE NoConnAssumption
<1> DEFINE closing == {c \in Slots : byTarget[target[c]] = c}
<1>1. /\ shut' = TRUE /\ reconnects' = [t \in Targets |-> 0]
      /\ st' = [c \in Slots |-> IF c \in closing THEN Closing(c) ELSE st[c]]
      /\ downs' = [c \in Slots |-> IF c \in closing THEN downs[c] + 1 ELSE downs[c]]
      /\ byTarget' = [t \in Targets |-> NoConn]
      /\ byPeer' = [p \in Peers |-> IF byPeer[p] \in closing THEN NoConn ELSE byPeer[p]]
      /\ UNCHANGED <<target, host, peer, left, writing, wanted>>
  BY Zenon DEF ShutdownClient, who
<1>2. \A c \in Slots : Closing(c) \in {"ending", "gone", "none"}
  BY Zenon DEF Closing, After
<1>3. \A c \in Slots : c \in closing <=> st[c] \in Up
  BY DEF Inv, DroppedLeft, TypeOK
<1>4. closing \subseteq Slots
  BY Zenon
<1> HIDE DEF closing
<1>5. \A c \in Slots : st'[c] \notin Up
  BY <1>1, <1>2, <1>3, Zenon DEF Up, Coming
<1>6. TypeOK'
  BY <1>1, <1>2, <1>4 DEF Inv, TypeOK, States, Coming
<1>7. WantedKept' /\ DroppedLeft'
  BY <1>1, <1>5, Zenon DEF WantedKept, DroppedLeft
<1>8. \A p \in Peers : byPeer'[p] = NoConn
  BY <1>1, <1>3 DEF Inv, OnePerMultiplexer, TypeOK, Up
<1>9. OnePerMultiplexer'
  BY <1>5, <1>8, Zenon DEF OnePerMultiplexer, Up
<1>10. ToldOnce'
  BY <1>1, <1>2, <1>3, <1>5 DEF Inv, ToldOnce, TypeOK, Up, Coming
<1> QED BY <1>6, <1>7, <1>9, <1>10, Zenon DEF Inv

\* A welcome registers its connection in the place of the one it replaces.
LEMMA WelcomeKeeps ==
    ASSUME Inv, NEW c \in Slots, NEW p \in Peers, Welcome(c, p)
    PROVE  Inv'
<1> USE NoConnAssumption
<1> DEFINE q == byPeer[p]
<1>1. /\ st[c] = "handshake"
      /\ peer' = [peer EXCEPT ![c] = p] /\ byPeer' = [byPeer EXCEPT ![p] = c]
      /\ UNCHANGED <<target, host, left, writing, shut, wanted>>
  BY Zenon DEF Welcome
<1>2. CASE q = NoConn
  <2>1. st' = [st EXCEPT ![c] = "registered"] /\ UNCHANGED <<byTarget, reconnects, downs>>
    BY <1>2, Zenon DEF Welcome
  <2>2. TypeOK'
    BY <1>1, <2>1, Zenon DEF Inv, TypeOK, States, Coming
  <2>3. WantedKept' /\ DroppedLeft'
    BY <1>1, <2>1 DEF Inv, WantedKept, DroppedLeft, TypeOK, Up, Coming
  <2>4. OnePerMultiplexer'
    BY <1>1, <1>2, <2>1 DEF Inv, OnePerMultiplexer, TypeOK
  <2>5. ToldOnce'
    BY <1>1, <2>1, Zenon DEF Inv, ToldOnce, TypeOK, Up, Coming
  <2> QED BY <2>2, <2>3, <2>4, <2>5, Zenon DEF Inv
<1>3. CASE q # NoConn
  <2>1. q \in Slots /\ st[q] = "registered" /\ peer[q] = p /\ q # c /\ byTarget[target[q]] = q
    BY <1>1, <1>3 DEF Inv, TypeOK, OnePerMultiplexer, DroppedLeft, Up
  <2>2. /\ st' = [st EXCEPT ![q] = After(q), ![c] = "registered"]
        /\ byTarget' = [byTarget EXCEPT ![target[q]] = NoConn]
        /\ reconnects' = IF ~shut THEN [reconnects EXCEPT ![target[q]] = @ + 1] ELSE reconnects
        /\ downs' = [downs EXCEPT ![q] = @ + 1]
    BY <1>3, <2>1, Zenon DEF Welcome, Destroyed
  <2>3. After(q) \in {"gone", "none"} /\ target[q] \in Targets
        /\ reconnects[target[q]] \in Nat /\ downs[q] \in Nat
    BY <2>1, Zenon DEF After, Inv, TypeOK
  <2>4. target[c] # target[q]
    BY <1>1, <2>1, Zenon DEF Inv, DroppedLeft, Up, Coming
  <2>0. byPeer[p] = q
    BY Zenon
  <2> HIDE DEF q
  <2>5. reconnects' \in [Targets -> Nat] /\ downs' \in [Slots -> Nat]
    BY <2>1, <2>2, <2>3 DEF Inv, TypeOK
  <2>6. TypeOK'
    BY <1>1, <2>1, <2>2, <2>3, <2>5, Zenon DEF Inv, TypeOK, States, Coming
  <2>7. WantedKept'
    BY <1>1, <2>1, <2>2, <2>3 DEF Inv, WantedKept, TypeOK
  <2>8. DroppedLeft'
    BY <1>1, <2>1, <2>2, <2>3, <2>4 DEF Inv, DroppedLeft, TypeOK, Up, Coming
  <2>9. OnePerMultiplexer'
    BY <1>1, <2>0, <2>1, <2>2, <2>3 DEF Inv, OnePerMultiplexer, TypeOK
  <2>10. ToldOnce'
    BY <1>1, <2>1, <2>2, <2>3 DEF Inv, ToldOnce, TypeOK, Up, Coming
  <2> QED BY <2>6, <2>7, <2>8, <2>9, <2>10, Zenon DEF Inv
<1> QED BY <1>2, <1>3, Zenon

\* Every step keeps the invariant.
LEMMA NextKeeps ==
    ASSUME Inv, [Next]_vars
    PROVE  Inv'
<1> USE NoConnAssumption, BoundsAssumption
<1>0. TypeOK
  BY Zenon DEF Inv
<1>1. CASE UNCHANGED vars
  BY <1>1, Zenon DEF vars, who, Inv, TypeOK, WantedKept, DroppedLeft, OnePerMultiplexer, ToldOnce
<1>2. ASSUME NEW t \in Targets, Connect(t) PROVE Inv'
  <2>1. CASE byTarget[t] = NoConn
    BY <1>0, <1>2, <2>1, OpensKeeps, Zenon DEF Connect, TypeOK
  <2>2. CASE byTarget[t] # NoConn
    <3>1. /\ UNCHANGED <<st, target, host, peer, left, writing, byTarget, byPeer, downs, reconnects, shut>>
          /\ wanted' = wanted \cup {t}
      BY <1>2, <2>2, Zenon DEF Connect, who
    <3> QED
      BY <2>2, <3>1 DEF Inv, TypeOK, WantedKept, DroppedLeft, OnePerMultiplexer, ToldOnce
  <2> QED BY <2>1, <2>2, Zenon
<1>3. ASSUME NEW t \in Targets, Disconnect(t) PROVE Inv'
  BY <1>3, DisconnectKeeps, Zenon
<1>4. CASE ShutdownClient
  BY <1>4, ShutdownKeeps, Zenon
<1>5. ASSUME NEW t \in Targets, ReconnectDue(t) PROVE Inv'
  <2>1. /\ reconnects[t] > 0 /\ reconnects' = [reconnects EXCEPT ![t] = @ - 1]
        /\ UNCHANGED <<shut, wanted>> /\ reconnects[t] \in Nat
    BY <1>0, <1>5, Zenon DEF ReconnectDue, TypeOK
  <2>2. ~shut /\ t \in wanted
    BY <2>1 DEF Inv, DroppedLeft
  <2>3. reconnects' \in [Targets -> Nat] /\ \A u \in Targets : u # t => reconnects'[u] = reconnects[u]
    BY <1>0, <2>1 DEF TypeOK
  <2>4. CASE byTarget[t] = NoConn
    <3>1. Opens(t) /\ wanted' = wanted \cup {t}
      BY <1>5, <2>1, <2>2, <2>4, Zenon DEF ReconnectDue
    <3> QED BY <2>1, <2>2, <2>3, <2>4, <3>1, OpensKeeps, Zenon
  <2>5. CASE byTarget[t] # NoConn
    <3>1. UNCHANGED <<st, target, host, peer, left, writing, byTarget, byPeer, downs>>
      BY <1>5, <2>5, Zenon DEF ReconnectDue, who
    <3>2. TypeOK' /\ OnePerMultiplexer' /\ ToldOnce'
      BY <2>1, <2>3, <3>1, Zenon DEF Inv, TypeOK, OnePerMultiplexer, ToldOnce
    <3>3. WantedKept' /\ DroppedLeft'
      BY <2>1, <2>2, <2>3, <2>5, <3>1 DEF Inv, WantedKept, DroppedLeft
    <3> QED BY <3>2, <3>3, Zenon DEF Inv
  <2> QED BY <2>4, <2>5, Zenon
<1>6. ASSUME NEW c \in Slots, NEW n \in 0 .. MaxAddresses, Resolved(c, n) PROVE Inv'
  <2>1. CASE n = 0
    <3>1. ShutDown(c, After(c)) /\ st[c] = "resolving" /\ Told(c)
      BY <1>0, <1>6, <2>1, Zenon DEF Resolved, Told, TypeOK
    <3> QED BY <3>1, ShutDownKeeps, Zenon DEF After, Up, Coming
  <2>2. CASE n # 0
    <3>1. left' \in [Slots -> Nat]
      BY <1>0, <1>6, <2>2 DEF Resolved, TypeOK
    <3>2. /\ st[c] \in Coming /\ st' = [st EXCEPT ![c] = st'[c]] /\ st'[c] \in Coming
          /\ UNCHANGED <<target, host, peer, writing, byTarget, byPeer, reconnects, downs, shut, wanted>>
      BY <1>0, <1>6, <2>2, Zenon DEF Resolved, TypeOK, Coming
    <3>3. host' \in [Slots -> Hosts] /\ writing' \in [Slots -> BOOLEAN]
      BY <1>0, <3>2, Zenon DEF TypeOK
    <3> QED BY <3>1, <3>2, <3>3, ComingKeeps, Zenon
  <2> QED BY <2>1, <2>2, Zenon
<1>7. ASSUME NEW c \in Slots, ConnectFails(c) PROVE Inv'
  <2>1. CASE left[c] = 0
    <3>1. ShutDown(c, After(c)) /\ st[c] = "connecting" /\ Told(c)
      BY <1>0, <1>7, <2>1, Zenon DEF ConnectFails, Told, TypeOK
    <3> QED BY <3>1, ShutDownKeeps, Zenon DEF After, Up, Coming
  <2>2. CASE left[c] # 0
    <3>0. left \in [Slots -> Nat] /\ left' = [left EXCEPT ![c] = left[c] - 1]
      BY <1>0, <1>7, <2>2, Zenon DEF ConnectFails, TypeOK
    <3>1. left' \in [Slots -> Nat]
      BY <2>2, <3>0
    <3>2. UNCHANGED <<st, target, host, peer, writing, byTarget, byPeer, reconnects, downs, shut, wanted>>
      BY <1>7, <2>2, Zenon DEF ConnectFails
    <3>3. host' \in [Slots -> Hosts] /\ writing' \in [Slots -> BOOLEAN]
      BY <1>0, <3>2, Zenon DEF TypeOK
    <3> QED BY <3>1, <3>2, <3>3, ComingKeeps, Zenon
  <2> QED BY <2>1, <2>2, Zenon
<1>8. ASSUME NEW c \in Slots, NEW h \in Hosts, Connected(c, h) PROVE Inv'
  <2>1. host' \in [Slots -> Hosts] /\ left' \in [Slots -> Nat] /\ writing' \in [Slots -> BOOLEAN]
    BY <1>0, <1>8, Zenon DEF Connected, TypeOK
  <2>2. /\ st[c] \in Coming /\ st' = [st EXCEPT ![c] = st'[c]] /\ st'[c] \in Coming
        /\ UNCHANGED <<target, peer, byTarget, byPeer, reconnects, downs, shut, wanted>>
    BY <1>0, <1>8, Zenon DEF Connected, TypeOK, Coming
  <2> QED BY <2>1, <2>2, ComingKeeps, Zenon
<1>9. ASSUME NEW c \in Slots, Refused(c) \/ ReadEnds(c) PROVE Inv'
  <2>1. ShutDown(c, After(c)) /\ st[c] \in Up \cup {"ending"} /\ Told(c)
    BY <1>0, <1>9, Zenon DEF Refused, ReadEnds, Told, who, TypeOK, Up, Coming
  <2> QED BY <2>1, ShutDownKeeps, Zenon DEF After
<1>10. ASSUME NEW c \in Slots, NEW p \in Peers, Welcome(c, p) PROVE Inv'
  BY <1>10, WelcomeKeeps, Zenon
<1>11. ASSUME NEW c \in Slots, WriteStarts(c) PROVE Inv'
  <2>1. /\ host' \in [Slots -> Hosts] /\ left' \in [Slots -> Nat] /\ writing' \in [Slots -> BOOLEAN]
        /\ UNCHANGED <<st, target, peer, byTarget, byPeer, reconnects, downs, shut, wanted>>
    BY <1>0, <1>11, Zenon DEF WriteStarts, who, TypeOK
  <2> QED BY <2>1, ComingKeeps, Zenon
<1>12. ASSUME NEW c \in Slots, WriteDone(c) PROVE Inv'
  <2>1. /\ host' \in [Slots -> Hosts] /\ left' \in [Slots -> Nat] /\ writing' \in [Slots -> BOOLEAN]
        /\ UNCHANGED <<target, peer, byTarget, byPeer, reconnects, downs, shut, wanted>>
    BY <1>0, <1>12, Zenon DEF WriteDone, who, TypeOK
  <2>2. st' = st \/ (st[c] = "gone" /\ st' = [st EXCEPT ![c] = "none"])
    BY <1>0, <1>12, Zenon DEF WriteDone, TypeOK
  <2> QED BY <2>1, <2>2, ComingKeeps, Zenon
<1>13. ASSUME NEW c \in Slots, WriteFails(c) PROVE Inv'
  <2>1. writing' \in [Slots -> BOOLEAN]
    BY <1>0, <1>13, Zenon DEF WriteFails, TypeOK
  <2>2. Told(c) /\ st[c] \in Up /\ st[c] # "ending"
        /\ ShutDown(c, IF st[c] = "registered" THEN "ending" ELSE "none")
    BY <1>0, <1>13, <2>1, Zenon DEF WriteFails, Told, who, TypeOK, Up, Coming
  <2> QED BY <2>2, ShutDownKeeps, Zenon
<1> QED
  BY <1>1, <1>2, <1>3, <1>4, <1>5, <1>6, <1>7, <1>8, <1>9, <1>10, <1>11, <1>12, <1>13, Zenon DEF Next

\* The five hold together of every behaviour.
LEMMA ConnectionsInv == Spec => []Inv
<1>1. ASSUME Init PROVE Inv
  <2> USE <1>1
  <2>1. TypeOK
    BY Zenon DEF Init, TypeOK, States, Coming
  <2>2. WantedKept /\ ToldOnce
    BY Zenon DEF Init, WantedKept, ToldOnce, Up, Coming
  <2>3. \A t \in Targets : byTarget[t] = NoConn /\ reconnects[t] = 0
    BY Zenon DEF Init
  <2>4. \A p \in Peers : byPeer[p] = NoConn
    BY Zenon DEF Init
  <2>5. \A c \in Slots : st[c] \notin Up
    BY Zenon DEF Init, Up, Coming
  <2>6. DroppedLeft /\ OnePerMultiplexer
    BY <2>3, <2>4, <2>5, Zenon DEF DroppedLeft, OnePerMultiplexer, Up
  <2> QED BY <2>1, <2>2, <2>6, Zenon DEF Inv
<1> QED BY <1>1, NextKeeps, PTL DEF Spec

\* The state of the connections keeps its types.
THEOREM ConnectionsTypeOK == Spec => []TypeOK
BY ConnectionsInv, PTL DEF Inv

\* Whatever its connections run into, a wanted target has a connection or a
\* reconnect armed: connection_destroyed arms it before anyone hears.
THEOREM ConnectionsWantedKept == Spec => []WantedKept
BY ConnectionsInv, PTL DEF Inv

\* No connection and no reconnect is left for a target disconnect dropped, or
\* for any after shutdown_client.
THEOREM ConnectionsDroppedLeft == Spec => []DroppedLeft
BY ConnectionsInv, PTL DEF Inv

\* register_connection keeps one connection for each multiplexer.
THEOREM ConnectionsOnePerMultiplexer == Spec => []OnePerMultiplexer
BY ConnectionsInv, PTL DEF Inv

\* tell_client_gone tells once, however a connection ends.
THEOREM ConnectionsToldOnce == Spec => []ToldOnce
BY ConnectionsInv, PTL DEF Inv

\* The client's tables say what the program wants, whatever fails: the facts
\* about wanted and dropped targets together.
THEOREM ConnectionsAsWanted == Spec => []AsWanted
BY ConnectionsWantedKept, ConnectionsDroppedLeft, PTL DEF AsWanted

\* One connection for a multiplexer, and its end told once.
THEOREM ConnectionsOneEach == Spec => []OneEach
BY ConnectionsOnePerMultiplexer, ConnectionsToldOnce, PTL DEF OneEach

-----------------------------------------------------------------------------
(* Heartbeats.  A timer is left where it is while what it waits for moves  *)
(* on, so the invariant bounds where it may be: the heartbeat's never past *)
(* an interval after the queue emptied, the first wait's never past its    *)
(* interval after the last frame, the second's never before both.          *)

SendInv ==
    /\ quiet <= now
    /\ at = "open" => sendTimer # "bound" /\ (out = <<>> => sendTimer = "beat")
    /\ at = "open" /\ sendTimer = "beat" => sendAt <= quiet + Interval
    /\ at = "ending" => sendTimer = "bound" /\ sendAt = ended + Interval
    /\ Prompt /\ Reading /\ sendTimer # "off" => now <= sendAt

SilenceInv ==
    /\ heard <= now /\ arrived <= now
    /\ at = "open" => silence # "off"
    /\ silence = "first" => silenceAt <= heard + Prepare
    /\ silence = "second" => heard + Prepare + Really <= silenceAt
    /\ Prompt /\ silence = "second" => silenceAt = heard + Prepare + Really
    /\ Prompt /\ Reading /\ silence # "off" => now <= silenceAt
    /\ Prompt /\ Reading /\ waiting = 0 /\ ~pulled => arrived <= heard
    /\ Prompt /\ Reading => arrived <= heard \/ arrived = now

BeatsInv == BeatsTypeOK /\ SendInv /\ SilenceInv /\ SilentOnly

\* A protocol frame leaves a queue that is not empty.
LEMMA AsapFacts ==
    ASSUME NEW frame \in {"frame", "beat"}, out \in Seq({"frame", "beat"})
    PROVE  Asap(frame) \in Seq({"frame", "beat"}) /\ Asap(frame) # <<>>
<1>1. CASE Len(out) >= QueueMax + Forced
  <2>1. Len(out) # 0
    BY <1>1, TimesAssumption
  <2> QED BY <1>1, <2>1 DEF Asap
<1>2. CASE ~(Len(out) >= QueueMax + Forced) /\ out = <<>>
  <2>1. Asap(frame) = <<frame>>
    BY <1>2, Zenon DEF Asap
  <2> QED BY <2>1
<1>3. CASE ~(Len(out) >= QueueMax + Forced) /\ out # <<>>
  <2>1. Asap(frame) = <<Head(out), frame>> \o Tail(out)
    BY <1>3, Zenon DEF Asap
  <2>2. Head(out) \in {"frame", "beat"} /\ Tail(out) \in Seq({"frame", "beat"})
    BY <1>3
  <2>3. <<Head(out), frame>> \in Seq({"frame", "beat"}) /\ Len(<<Head(out), frame>>) = 2
    BY <2>2
  <2>4. Asap(frame) \in Seq({"frame", "beat"}) /\ Len(Asap(frame)) = 2 + Len(Tail(out))
    BY <2>1, <2>2, <2>3
  <2> QED BY <2>2, <2>4
<1> QED BY <1>1, <1>2, <1>3, Zenon

\* Every step keeps the invariant.
LEMMA NextBeats ==
    ASSUME BeatsInv, [BeatsNext]_beatsVars
    PROVE  BeatsInv'
<1> USE TimesAssumption, LoopAssumption
<1>0. BeatsTypeOK /\ SendInv /\ SilenceInv /\ SilentOnly
  BY Zenon DEF BeatsInv
<1>1. CASE UNCHANGED beatsVars
  BY <1>0, <1>1 DEF beatsVars, writer, reader, driver, clientLoop, BeatsInv, BeatsTypeOK, SendInv, SilenceInv, SilentOnly, Reading, Prompt
<1>2. CASE Send \/ SendControl
  <2>a. at = "open" /\ (out' = Append(out, "frame") \/ out' = Asap("frame"))
    BY <1>2, Zenon DEF Send, SendControl, clientLoop
  <2>b. out \in Seq({"frame", "beat"})
    BY <1>0, Zenon DEF BeatsTypeOK
  <2>c. Append(out, "frame") \in Seq({"frame", "beat"}) /\ Append(out, "frame") # <<>>
    BY <2>b
  <2>1. /\ at = "open" /\ out' \in Seq({"frame", "beat"}) /\ out' # <<>>
        /\ UNCHANGED <<now, at, registered, quiet, sendTimer, sendAt, heard, silence, silenceAt, waiting, pulled,
                       timers, arrived, ended, loop, beating>>
    BY <1>2, <2>a, <2>b, <2>c, AsapFacts, Zenon DEF Send, SendControl, clientLoop, reader, driver
  <2>2. BeatsTypeOK'
    BY <1>0, <2>1, Zenon DEF BeatsTypeOK
  <2>3. SendInv' /\ SilenceInv' /\ SilentOnly'
    BY <1>0, <2>1, Zenon DEF SendInv, SilenceInv, SilentOnly, Reading, Prompt
  <2> QED BY <2>2, <2>3, Zenon DEF BeatsInv
<1>3. CASE OnWriteDone
  <2>1. /\ at = "open" /\ out' \in Seq({"frame", "beat"})
        /\ UNCHANGED <<now, at, registered, heard, silence, silenceAt, waiting, pulled, timers, arrived, ended, loop, beating>>
    BY <1>0, <1>3 DEF OnWriteDone, clientLoop, BeatsTypeOK, reader, driver
  <2>2. \/ out' # <<>> /\ UNCHANGED <<quiet, sendTimer, sendAt>>
        \/ quiet' = now /\ sendTimer = "off" /\ sendTimer' = "beat" /\ sendAt' = now + Interval
        \/ quiet' = now /\ sendTimer # "off" /\ UNCHANGED <<sendTimer, sendAt>>
    BY <1>3, Zenon DEF OnWriteDone, clientLoop
  <2>3. BeatsTypeOK'
    BY <1>0, <2>1, <2>2 DEF BeatsTypeOK
  <2>4. SendInv'
    BY <1>0, <2>1, <2>2 DEF SendInv, BeatsTypeOK, Reading, Prompt
  <2>5. SilenceInv' /\ SilentOnly'
    BY <1>0, <2>1, Zenon DEF SilenceInv, SilentOnly, Reading, Prompt
  <2> QED BY <2>3, <2>4, <2>5, Zenon DEF BeatsInv
<1>4. ASSUME Down("down"), Reading, UNCHANGED <<now, registered, arrived, ended, clientLoop>>,
             waiting' \in Nat, pulled' \in BOOLEAN, timers' \in BOOLEAN
      PROVE  BeatsInv'
  <2>1. /\ at' = "down" /\ out' = <<>> /\ sendTimer' = "off" /\ silence' = "off"
        /\ UNCHANGED <<quiet, sendAt, heard, silenceAt, loop, beating>>
    BY <1>4, Zenon DEF Down, clientLoop
  <2>2. BeatsTypeOK'
    BY <1>0, <1>4, <2>1 DEF BeatsTypeOK
  <2>3. SendInv' /\ SilenceInv' /\ SilentOnly'
    BY <1>0, <1>4, <2>1, Zenon DEF SendInv, SilenceInv, SilentOnly, Reading, BeatsTypeOK
  <2> QED BY <2>2, <2>3, Zenon DEF BeatsInv
<1>5. CASE WriteFailed
  <2>1. CASE registered
    <3>1. /\ at = "open" /\ at' = "ending" /\ ended' = now /\ out' = <<>>
          /\ sendTimer' = "bound" /\ sendAt' = now + Interval /\ silence' = "off"
          /\ UNCHANGED <<now, registered, quiet, heard, silenceAt, waiting, pulled, timers, arrived, loop, beating>>
      BY <1>5, <2>1, Zenon DEF WriteFailed, clientLoop, ReadToTheEnd, driver
    <3>2. BeatsTypeOK'
      BY <1>0, <3>1 DEF BeatsTypeOK
    <3>3. SendInv' /\ SilenceInv' /\ SilentOnly'
      BY <1>0, <3>1 DEF SendInv, SilenceInv, SilentOnly, Reading, BeatsTypeOK, Prompt
    <3> QED BY <3>2, <3>3, Zenon DEF BeatsInv
  <2>2. CASE ~registered
    BY <1>0, <1>4, <1>5, <2>2, Zenon DEF WriteFailed, driver, Reading, BeatsTypeOK
  <2> QED BY <2>1, <2>2, Zenon
<1>6. ASSUME NEW others \in BOOLEAN, Pass(others) PROVE BeatsInv'
  <2>1. /\ Reading /\ ~pulled
        /\ pulled' = (waiting > 0) /\ waiting' = IF waiting > 0 THEN waiting - 1 ELSE 0
        /\ UNCHANGED <<now, at, registered, out, quiet, sendTimer, sendAt, heard, silence, silenceAt, arrived, ended, loop, beating>>
    BY <1>6, Zenon DEF Pass, clientLoop, writer, reader
  <2>2. timers' \in BOOLEAN
    BY <1>6, Zenon DEF Pass, TimerDue
  <2>3. BeatsTypeOK'
    BY <1>0, <2>1, <2>2 DEF BeatsTypeOK
  <2>4. SendInv'
    BY <1>0, <2>1, Zenon DEF SendInv, Reading, Prompt
  <2>b. ~pulled' => ~(waiting > 0)
    BY <2>1, Zenon
  <2>a. ~pulled' => waiting = 0
    BY <1>0, <2>b DEF BeatsTypeOK
  <2>5. SilenceInv' /\ SilentOnly'
    BY <1>0, <2>1, <2>a, Zenon DEF SilenceInv, SilentOnly, Reading, Prompt
  <2> QED BY <2>3, <2>4, <2>5, Zenon DEF BeatsInv
<1>7. CASE Frame
  <2>1. /\ Reading /\ pulled' = FALSE /\ registered' = TRUE /\ heard' = now
        /\ UNCHANGED <<now, at, out, quiet, sendTimer, sendAt, waiting, timers, arrived, ended, loop, beating>>
    BY <1>7, Zenon DEF Frame, clientLoop, writer
  <2>2. \/ silence = "first" /\ UNCHANGED <<silence, silenceAt>>
        \/ silence' = "first" /\ silenceAt' = now + Prepare
    BY <1>7, Zenon DEF Frame, clientLoop
  <2>a. registered' \in BOOLEAN /\ pulled' \in BOOLEAN
    BY <2>1, Zenon
  <2>b. silence' \in {"off", "first", "second"} /\ silenceAt' \in Nat
    BY <1>0, <2>2 DEF BeatsTypeOK
  <2>3. BeatsTypeOK'
    BY <1>0, <2>1, <2>a, <2>b, Zenon DEF BeatsTypeOK
  <2>4. SendInv'
    BY <1>0, <2>1, Zenon DEF SendInv, Reading, Prompt
  <2>5. SilenceInv' /\ SilentOnly'
    BY <1>0, <2>1, <2>2 DEF SilenceInv, SilentOnly, Reading, BeatsTypeOK, Prompt
  <2> QED BY <2>3, <2>4, <2>5, Zenon DEF BeatsInv
<1>8. CASE OnReadEnd
  BY <1>0, <1>4, <1>8, Zenon DEF OnReadEnd, BeatsTypeOK
<1>a. Again => timers' \in BOOLEAN
  BY Zenon DEF Again, TimerDue
<1>9. CASE SendHeartbitNow
  <2>1. /\ Reading /\ sendAt <= now /\ sendTimer = "beat"
        /\ UNCHANGED <<now, at, registered, quiet, heard, silence, silenceAt, waiting, pulled, arrived, ended, loop, beating>>
    BY <1>9, Zenon DEF SendHeartbitNow, clientLoop, TimersTurn, SendDue, reader
  <2>2. \/ quiet + Interval > now /\ sendAt' = quiet + Interval /\ UNCHANGED <<sendTimer, out>>
        \/ sendTimer' = "off" /\ out' = Asap("beat") /\ UNCHANGED sendAt
    BY <1>9, Zenon DEF SendHeartbitNow, clientLoop
  <2>3. out' \in Seq({"frame", "beat"}) /\ (sendTimer' = "off" => out' # <<>>)
    BY <1>0, <2>1, <2>2, AsapFacts, Zenon DEF BeatsTypeOK
  <2>4. BeatsTypeOK'
    BY <1>0, <1>9, <1>a, <2>1, <2>2, <2>3 DEF BeatsTypeOK, SendHeartbitNow
  <2>5. SendInv'
    BY <1>0, <2>1, <2>2, <2>3 DEF SendInv, Reading, BeatsTypeOK, Prompt
  <2>6. SilenceInv' /\ SilentOnly'
    BY <1>0, <2>1, Zenon DEF SilenceInv, SilentOnly, Reading, Prompt
  <2> QED BY <2>4, <2>5, <2>6, Zenon DEF BeatsInv
<1>10. CASE RequireHeartbitSoon
  <2>1. /\ Reading /\ silenceAt <= now /\ silence = "first"
        /\ UNCHANGED <<now, at, registered, out, quiet, sendTimer, sendAt, heard, waiting, pulled, arrived, ended, loop, beating>>
    BY <1>10, Zenon DEF RequireHeartbitSoon, clientLoop, TimersTurn, SilenceDue, writer
  <2>2. \/ heard + Prepare > now /\ silenceAt' = heard + Prepare /\ UNCHANGED silence
        \/ ~(heard + Prepare > now) /\ silence' = "second" /\ silenceAt' = now + Really
    BY <1>10, Zenon DEF RequireHeartbitSoon, clientLoop
  <2>3. BeatsTypeOK'
    BY <1>0, <1>10, <1>a, <2>1, <2>2 DEF BeatsTypeOK, RequireHeartbitSoon
  <2>4. SendInv'
    BY <1>0, <2>1, Zenon DEF SendInv, Reading, Prompt
  <2>5. SilenceInv' /\ SilentOnly'
    BY <1>0, <2>1, <2>2 DEF SilenceInv, SilentOnly, Reading, BeatsTypeOK, Prompt
  <2> QED BY <2>3, <2>4, <2>5, Zenon DEF BeatsInv
<1>11. CASE RequireHeartbitNow
  <2>1. /\ Reading /\ silenceAt <= now /\ silence = "second"
        /\ at' = "dropped" /\ out' = <<>> /\ sendTimer' = "off" /\ silence' = "off"
        /\ UNCHANGED <<now, registered, quiet, sendAt, heard, silenceAt, waiting, pulled, arrived, ended, loop, beating>>
    BY <1>11, Zenon DEF RequireHeartbitNow, clientLoop, TimersTurn, SilenceDue, Down
  <2>2. BeatsTypeOK'
    BY <1>0, <1>11, <1>a, <2>1, SMTT(20) DEF BeatsTypeOK, RequireHeartbitNow
  <2>3. SendInv' /\ SilenceInv' /\ SilentOnly'
    BY <1>0, <2>1 DEF SendInv, SilenceInv, SilentOnly, Reading, BeatsTypeOK, Prompt
  <2> QED BY <2>2, <2>3, Zenon DEF BeatsInv
<1>12. CASE ReadToTheEndBound
  BY <1>0, <1>4, <1>a, <1>12, Zenon DEF ReadToTheEndBound, TimersTurn, BeatsTypeOK
<1>13. CASE OtherTimer
  <2>1. UNCHANGED <<now, at, registered, out, quiet, sendTimer, sendAt, heard, silence, silenceAt, waiting, pulled,
                    arrived, ended, loop, beating>>
    BY <1>13, Zenon DEF OtherTimer, clientLoop, writer, reader
  <2>2. timers' \in BOOLEAN
    BY <1>13, Zenon DEF OtherTimer, TimerDue
  <2>3. BeatsTypeOK'
    BY <1>0, <2>1, <2>2, Zenon DEF BeatsTypeOK
  <2>4. SendInv' /\ SilenceInv' /\ SilentOnly'
    BY <1>0, <2>1, Zenon DEF SendInv, SilenceInv, SilentOnly, Reading, Prompt
  <2> QED BY <2>3, <2>4, Zenon DEF BeatsInv
<1>14. CASE Arrive
  <2>1. /\ Reading /\ waiting' = waiting + 1 /\ arrived' = now
        /\ UNCHANGED <<now, at, registered, out, quiet, sendTimer, sendAt, heard, silence, silenceAt, pulled, timers, ended, loop, beating>>
    BY <1>14, Zenon DEF Arrive, clientLoop, writer, reader
  <2>2. BeatsTypeOK'
    BY <1>0, <2>1 DEF BeatsTypeOK
  <2>3. SendInv' /\ SilenceInv' /\ SilentOnly'
    BY <1>0, <2>1 DEF SendInv, SilenceInv, SilentOnly, Reading, BeatsTypeOK, Prompt
  <2> QED BY <2>2, <2>3, Zenon DEF BeatsInv
<1>15. CASE Tick
  <2>1. /\ Reading /\ now' = now + 1
        /\ UNCHANGED <<at, registered, out, quiet, sendTimer, sendAt, heard, silence, silenceAt, waiting, pulled,
                       timers, arrived, ended, loop>>
    BY <1>15, Zenon DEF Tick, writer, reader, driver
  <2>a. beating' \in BOOLEAN
    BY <1>0, <1>15, Zenon DEF Tick, BeatsTypeOK
  <2>2. Prompt => /\ waiting = 0 /\ ~pulled
                  /\ sendTimer # "off" => ~(sendAt <= now)
                  /\ silence # "off" => ~(silenceAt <= now)
    BY <1>15, Zenon DEF Tick, TimerDue, Prompt
  <2>3. BeatsTypeOK'
    BY <1>0, <2>1, <2>a DEF BeatsTypeOK
  <2>4. SendInv'
    BY <1>0, <2>1, <2>2 DEF SendInv, Reading, BeatsTypeOK, Prompt
  <2>5. SilenceInv' /\ SilentOnly'
    BY <1>0, <2>1, <2>2 DEF SilenceInv, SilentOnly, Reading, BeatsTypeOK, Prompt
  <2> QED BY <2>3, <2>4, <2>5, Zenon DEF BeatsInv
<1> QED
  BY <1>1, <1>2, <1>3, <1>5, <1>6, <1>7, <1>8, <1>9, <1>10, <1>11, <1>12, <1>13, <1>14, <1>15, Zenon DEF BeatsNext

LEMMA HeartbeatsInv == BeatsSpec => []BeatsInv
<1>1. ASSUME BeatsInit PROVE BeatsInv
  <2> USE <1>1, TimesAssumption
  <2>1. out \in Seq({"frame", "beat"}) /\ out # <<>>
    BY DEF BeatsInit
  <2>2. beating \in BOOLEAN /\ registered \in BOOLEAN /\ pulled \in BOOLEAN /\ timers \in BOOLEAN
    BY Zenon DEF BeatsInit
  <2>3. BeatsTypeOK
    BY <2>1, <2>2, Zenon DEF BeatsInit, BeatsTypeOK
  <2>4. SendInv /\ SilenceInv /\ SilentOnly
    BY <2>1 DEF BeatsInit, SendInv, SilenceInv, SilentOnly
  <2> QED BY <2>3, <2>4, Zenon DEF BeatsInv
<1> QED BY <1>1, NextBeats, PTL DEF BeatsSpec

\* Two properties of the moments follow from where the timers may be.
LEMMA InTime ==
    ASSUME BeatsInv
    PROVE  BeatsInTime /\ SilenceEnds /\ EndsInTime
<1> USE TimesAssumption DEF BeatsInv, BeatsTypeOK
<1>1. BeatsInTime
  BY DEF BeatsInTime, SendInv, Reading
<1>2. SilenceEnds
  BY DEF SilenceEnds, SilenceInv, Reading
<1>3. EndsInTime
  BY Zenon DEF EndsInTime, SendInv, Reading
<1> QED BY <1>1, <1>2, <1>3, Zenon

\* The connection's timers, queue and driver keep their types.
THEOREM HeartbeatsTypeOK == BeatsSpec => []BeatsTypeOK
BY HeartbeatsInv, PTL DEF BeatsInv

\* send_heartbit_now writes a heartbeat an interval after the last write,
\* whatever the interval.
THEOREM HeartbeatsInTime == BeatsSpec => []BeatsInTime
BY HeartbeatsInv, InTime, PTL

\* require_heartbit_now drops no connection heard from within both waits.
THEOREM HeartbeatsSilentOnly == BeatsSpec => []SilentOnly
BY HeartbeatsInv, PTL DEF BeatsInv

\* An io thread drops a silent connection once both waits are over.
THEOREM HeartbeatsSilenceEnds == BeatsSpec => []SilenceEnds
BY HeartbeatsInv, InTime, PTL

\* read_to_the_end_bound ends the reading on time, whatever still comes.
THEOREM HeartbeatsEndsInTime == BeatsSpec => []EndsInTime
BY HeartbeatsInv, InTime, PTL

\* An io thread's heartbeats, drops for silence and ends of reading are on
\* time, for any length of the waits: the three facts together.
THEOREM HeartbeatsOnTime == BeatsSpec => []OnTime
BY HeartbeatsInTime, HeartbeatsSilenceEnds, HeartbeatsEndsInTime, PTL DEF OnTime
-----------------------------------------------------------------------------
(* A synchronous client that idles.                                        *)

\* A heartbeat that came is in the socket, in the driver's queue or read, the
\* last within an interval; the timers of a pass run with all of it read.
IdleInv ==
    /\ Reading /\ waiting = 0 /\ ~pulled => arrived <= heard
    /\ Reading /\ loop # "calls" /\ beating =>
          /\ waiting = 0 /\ ~pulled => now <= heard + Interval
          /\ timers /\ ~pulled => now <= heard + Interval
    /\ IdlingKeeps

\* Every step keeps it, the sockets being looked at before the timers.
LEMMA NextIdles ==
    ASSUME Interval < Prepare + Really, BeatsInv, IdleInv, [BeatsNext]_beatsVars
    PROVE  IdleInv'
<1> USE TimesAssumption
<1>0. BeatsTypeOK /\ SilenceInv
  BY Zenon DEF BeatsInv
<1> USE DEF IdleInv, IdlingKeeps, Reading
<1>1. CASE UNCHANGED beatsVars
  BY <1>1, Zenon DEF beatsVars, reader, driver, clientLoop
<1>2. CASE Send \/ SendControl \/ OnWriteDone
  BY <1>2 DEF Send, SendControl, OnWriteDone, reader, driver, clientLoop
<1>3. CASE WriteFailed
  BY <1>3, Zenon DEF WriteFailed, ReadToTheEnd, Down, driver, clientLoop
<1>4. ASSUME NEW others \in BOOLEAN, Pass(others) PROVE IdleInv'
  <2>1. /\ ~pulled /\ (pulled' <=> waiting > 0)
        /\ UNCHANGED <<now, at, heard, arrived, loop, beating>>
    BY <1>4, Zenon DEF Pass, reader, clientLoop
  <2>2. ~pulled' => waiting = 0
    BY <1>0, <2>1 DEF BeatsTypeOK
  <2> QED BY <2>1, <2>2, Zenon
<1>5. CASE Frame
  BY <1>0, <1>5 DEF Frame, clientLoop, BeatsTypeOK, SilenceInv
<1>6. CASE OnReadEnd
  BY <1>6, Zenon DEF OnReadEnd, Down, clientLoop
<1>7. CASE SendHeartbitNow \/ RequireHeartbitSoon \/ OtherTimer
  <2>1. timers /\ UNCHANGED <<now, at, heard, waiting, pulled, arrived, loop, beating>>
    BY <1>7, Zenon DEF SendHeartbitNow, RequireHeartbitSoon, OtherTimer, TimersTurn, reader, clientLoop
  <2> QED BY <2>1, Zenon
<1>8. CASE RequireHeartbitNow
  <2>1. /\ timers /\ ~pulled /\ silence = "second" /\ silenceAt <= now
        /\ at' = "dropped" /\ UNCHANGED <<loop, beating>>
    BY <1>8, Zenon DEF RequireHeartbitNow, TimersTurn, SilenceDue, Down, clientLoop
  <2>2. heard + Prepare + Really <= now
    BY <1>0, <2>1 DEF SilenceInv, BeatsTypeOK
  <2>3. Reading
    BY <1>8, Zenon DEF RequireHeartbitNow, TimersTurn
  <2> QED BY <1>0, <2>1, <2>2, <2>3 DEF BeatsTypeOK
<1>9. CASE ReadToTheEndBound
  BY <1>9, Zenon DEF ReadToTheEndBound, Down, clientLoop
<1>10. CASE Arrive
  BY <1>0, <1>10 DEF Arrive, reader, clientLoop, BeatsTypeOK
<1>11. CASE Tick
  <2>1. /\ now' = now + 1 /\ (loop # "calls" => ~pulled /\ ~timers)
        /\ UNCHANGED <<at, heard, arrived, loop, waiting, pulled, timers>>
    BY <1>11, Zenon DEF Tick, reader, driver
  <2>2. beating' => beating /\ (now < arrived + Interval \/ waiting > 0)
    BY <1>11, Zenon DEF Tick
  <2> QED BY <1>0, <2>1, <2>2 DEF BeatsTypeOK
<1> QED
  BY <1>1, <1>2, <1>3, <1>4, <1>5, <1>6, <1>7, <1>8, <1>9, <1>10, <1>11, Zenon DEF BeatsNext

\* A synchronous client whose calls end with nothing queued keeps, however
\* long it idles between two, the connection of a multiplexer whose
\* heartbeats come, for any interval shorter than the two waits together (3
\* seconds to 90, defaults.rs).
THEOREM HeartbeatsIdlingKeeps ==
    ASSUME Interval < Prepare + Really
    PROVE  BeatsSpec => []IdlingKeeps
<1>1. BeatsInit => IdleInv
  BY TimesAssumption DEF BeatsInit, IdleInv, IdlingKeeps, Reading
<1>2. BeatsInv /\ IdleInv /\ [BeatsNext]_beatsVars => IdleInv'
  BY NextIdles, Zenon
<1>3. BeatsInv /\ IdleInv => IdlingKeeps
  BY Zenon DEF BeatsInv, BeatsTypeOK, IdleInv
<1> QED BY <1>1, <1>2, <1>3, HeartbeatsInv, PTL DEF BeatsSpec
=============================================================================
