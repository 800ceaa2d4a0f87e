----------------------- MODULE ThreadedClientProofs -----------------------
(***************************************************************************)
(* What post() and shutdown() promise each other, for any number of        *)
(* threads and any programs.  First the types, where each thread is in     *)
(* which operation, and what a handler of the io thread does to the inbox  *)
(* and to the results owed.  Then: one thread alone gets from its swap of  *)
(* `stopped' to its own command, and when it does no thread is left that   *)
(* could still push; so the command is the last of theirs in the queue,    *)
(* and from the moment it ran the queue holds nothing a thread posted.     *)
(* Last the stream: its command is one of those, so that a stream that was *)
(* made is registered, closed, or still to be when the shutdown runs.      *)
(***************************************************************************)
EXTENDS ThreadedClient, Counting, TLAPS

Phases == {"open", "writing", "closing", "closed"}
Waits == [by : Threads, upto : Nat]
Cores == [phase : Phases, queries : SUBSET Threads, flushes : SUBSET Waits, follows : SUBSET Waits,
          sent : Nat, written : Nat, upto : Nat, drain : BOOLEAN, step : BOOLEAN]
Streams == [made : BOOLEAN, maker : Threads \cup {None}, registered : BOOLEAN, closed : BOOLEAN, held : 0 .. Capacity]

\* A command that is waited for is a thread's.
Commands == {e \in Entries : e.kind \in Waiting => e.by \in Threads}

\* What the sockets and timers bring.
Happenings == [kind : {"due", "written", "drain", "message", "closed"}, by : Actors]

Posts == {"check", "count", "recheck", "push", "look", "wake", "uncount", "last", "notify", "posted"}
Leads == {"lock", "counts", "sleeps", "sleeping", "pushes"}
Ending == {"leaves", "ends", "tells", "gone"}

\* The types, and which operation a thread is in at each place.
Types ==
    /\ program \in Programs
    /\ at \in [Actors -> Places] /\ todo \in [Threads -> Seq(Ops)]
    /\ refused \subseteq Threads /\ results \subseteq Threads /\ completers \subseteq Actors
    /\ stopped \in BOOLEAN /\ posting \in Nat /\ lifecycle \in Actors \cup {None}
    /\ tornDown \in BOOLEAN /\ ended \in BOOLEAN
    /\ pending \in BOOLEAN /\ asleep \in BOOLEAN /\ signal \in BOOLEAN /\ woken \in BOOLEAN
    /\ posted \in Seq(Commands) /\ ready \in Seq(Commands) /\ events \subseteq Happenings
    /\ core \in Cores /\ core.written <= core.sent /\ core.upto <= core.sent
    /\ stream \in Streams /\ arrived \in 0 .. program.messages

Operates(t) ==
    /\ at[t] # "idle" => todo[t] # <<>>
    /\ at[t] \in Posts => Op(t) \in Waiting \cup {"send", "read"}
    /\ at[t] \in Leads \cup {"swap", "wakes", "ended"} => Op(t) \notin Waiting
    /\ t \in refused => at[t] \in {"uncount", "last", "notify", "posted"}

Operating ==
    /\ \A t \in Threads : Operates(t)
    /\ at[Io] # "idle" => io = "after" /\ at[Io] \in Leads \cup {"swap", "wakes", "ended"}

\* The command of the shutdown is in a queue.
Contents(s) == {s[i] : i \in DOMAIN s}
Shut(s) == \E e \in Contents(s) : e.kind = "shutdown"
WritesOut(s) == \E e \in Contents(s) : e.kind = "writeout"
Pushed == core.phase # "open" \/ Shut(ready) \/ Shut(posted)

\* One alone leads the shutdown, until its command is pushed, and none of
\* the threads that post then comes to push one.
Leading ==
    /\ \A x \in Actors : at[x] \in Leads => stopped /\ ~Pushed
    /\ \A x, y \in Actors : at[x] \in Leads /\ at[y] \in Leads => x = y
    /\ Pushed => stopped
    /\ Pushed \/ (\E x \in Actors : at[x] = "pushes") => \A t \in Threads : at[t] # "push"

PostingExact == posting = Cardinality(Counted)

\* What may be behind the shutdown in a queue: events, and what a callback sent.
Harmless == {e \in Commands : e.kind \in Ops => e = Entry("send", Io)}
Behind(s) == \A i, j \in DOMAIN s : s[i].kind = "shutdown" /\ i < j => s[j] \in Harmless

Ordered ==
    /\ Behind(ready) /\ Behind(posted)
    /\ Shut(ready) => posted \in Seq(Harmless)
    /\ core.phase # "open" => ready \in Seq(Harmless) /\ posted \in Seq(Harmless)
    /\ core.phase = "open" => ~core.step /\ ~core.drain /\ ~WritesOut(ready)
    /\ ~WritesOut(posted)

\* Once the shutdown ran, only what a callback posts is in the inbox, until
\* the io thread takes it.
Emptied ==
    /\ core.phase # "open" /\ io \notin {"after", "afterTake"} => posted = <<>>
    /\ io \in Ending => core.phase = "closed" /\ ready = <<>>

\* The io thread about to wait is marked asleep, or woken.
Wakeful ==
    /\ PostWakes
    /\ io \in {"asks", "waits"} => asleep \/ signal \/ \E x \in Actors : at[x] \in {"wake", "wakes"}

\* Who waits for a command's result, or will, is owed it.
InCore(t) == t \in core.queries \cup By(core.flushes \cup core.follows)
Owed(t) == t \in results \/ InCore(t) \/ Entry(Op(t), t) \in Contents(ready) \cup Contents(posted)
Awaits(t) ==
    /\ at[t] \in {"look", "wake", "uncount", "last", "notify", "posted", "wait", "blocked"}
    /\ Op(t) \in Waiting /\ t \notin refused

Told ==
    \A t \in Threads :
        /\ Awaits(t) => Owed(t)
        /\ at[t] \in {"wait", "blocked"} /\ Op(t) \notin Waiting => t \in results \cup completers
        /\ at[t] = "blocked" => t \notin results

IInv == Types /\ Operating /\ Leading /\ PostingExact /\ Ordered /\ Emptied /\ Wakeful /\ Told

-----------------------------------------------------------------------------
(* Queues.                                                                 *)

\* What Append adds to a queue, and keeps of it.
LEMMA AppendFacts ==
    ASSUME NEW S, NEW s \in Seq(S), NEW e
    PROVE  /\ e \in S => Append(s, e) \in Seq(S)
           /\ DOMAIN Append(s, e) = 1 .. Len(s) + 1 /\ DOMAIN s = 1 .. Len(s) /\ Len(s) \in Nat
           /\ \A i \in DOMAIN s : Append(s, e)[i] = s[i]
           /\ Append(s, e)[Len(s) + 1] = e
  OBVIOUS

\* What Tail leaves of a queue.
LEMMA TailFacts ==
    ASSUME NEW S, NEW s \in Seq(S), s # <<>>
    PROVE  /\ Tail(s) \in Seq(S) /\ Head(s) \in S /\ Head(s) = s[1] /\ 1 \in DOMAIN s
           /\ DOMAIN Tail(s) = 1 .. Len(s) - 1 /\ DOMAIN s = 1 .. Len(s) /\ Len(s) \in Nat
           /\ \A i \in DOMAIN Tail(s) : Tail(s)[i] = s[i + 1]
  OBVIOUS

\* One queue behind another.
LEMMA ConcatFacts ==
    ASSUME NEW S, NEW s \in Seq(S), NEW r \in Seq(S)
    PROVE  /\ s \o r \in Seq(S)
           /\ DOMAIN (s \o r) = 1 .. Len(s) + Len(r) /\ DOMAIN s = 1 .. Len(s) /\ DOMAIN r = 1 .. Len(r)
           /\ Len(s) \in Nat /\ Len(r) \in Nat
           /\ \A i \in DOMAIN s : (s \o r)[i] = s[i]
           /\ \A i \in DOMAIN r : (s \o r)[Len(s) + i] = r[i]
           /\ \A i \in DOMAIN (s \o r) : i \in DOMAIN s \/ (i - Len(s) \in DOMAIN r /\ (s \o r)[i] = r[i - Len(s)])
  OBVIOUS

\* A queue's elements are in the set it is over, and the other way around.
LEMMA Elements ==
    ASSUME NEW S, NEW R, NEW s \in Seq(S)
    PROVE  s \in Seq(R) <=> Contents(s) \subseteq R
<1>1. s \in Seq(R) <=> \A i \in DOMAIN s : s[i] \in R
  OBVIOUS
<1> QED
  BY <1>1, Zenon DEF Contents

\* What a queue holds when one joins it, one leaves it, or another joins it.
LEMMA ContentsAppend ==
    ASSUME NEW S, NEW s \in Seq(S), NEW e
    PROVE  Contents(Append(s, e)) = Contents(s) \cup {e}
<1>1. \A i \in DOMAIN Append(s, e) : Append(s, e)[i] \in Contents(s) \cup {e}
  BY AppendFacts DEF Contents
<1>2. \A i \in DOMAIN s : i \in DOMAIN Append(s, e) /\ Append(s, e)[i] = s[i]
  BY AppendFacts
<1>3. Len(s) + 1 \in DOMAIN Append(s, e) /\ Append(s, e)[Len(s) + 1] = e
  BY AppendFacts
<1> QED
  BY <1>1, <1>2, <1>3, Zenon DEF Contents

LEMMA ContentsTail ==
    ASSUME NEW S, NEW s \in Seq(S), s # <<>>
    PROVE  Contents(s) = Contents(Tail(s)) \cup {Head(s)}
<1>1. \A i \in DOMAIN s : s[i] = Head(s) \/ (i - 1 \in DOMAIN Tail(s) /\ Tail(s)[i - 1] = s[i])
  BY TailFacts
<1>2. \A i \in DOMAIN Tail(s) : i + 1 \in DOMAIN s /\ Tail(s)[i] = s[i + 1]
  BY TailFacts
<1>3. 1 \in DOMAIN s /\ Head(s) = s[1]
  BY TailFacts, Zenon
<1>4. Contents(s) \subseteq Contents(Tail(s)) \cup {Head(s)}
  BY <1>1, Zenon DEF Contents
<1>5. Contents(Tail(s)) \subseteq Contents(s)
  BY <1>2, Zenon DEF Contents
<1>6. Head(s) \in Contents(s)
  BY <1>3, Zenon DEF Contents
<1> QED
  BY <1>4, <1>5, <1>6, Zenon

LEMMA ContentsConcat ==
    ASSUME NEW S, NEW s \in Seq(S), NEW r \in Seq(S)
    PROVE  Contents(s \o r) = Contents(s) \cup Contents(r)
<1>1. \A i \in DOMAIN (s \o r) :
         \/ i \in DOMAIN s /\ (s \o r)[i] = s[i]
         \/ i - Len(s) \in DOMAIN r /\ (s \o r)[i] = r[i - Len(s)]
  BY ConcatFacts
<1>2. \A i \in DOMAIN s : i \in DOMAIN (s \o r) /\ (s \o r)[i] = s[i]
  BY ConcatFacts
<1>3. \A i \in DOMAIN r : Len(s) + i \in DOMAIN (s \o r) /\ (s \o r)[Len(s) + i] = r[i]
  BY ConcatFacts
<1>4. Contents(s \o r) \subseteq Contents(s) \cup Contents(r)
  BY <1>1, Zenon DEF Contents
<1>5. Contents(s) \subseteq Contents(s \o r)
  BY <1>2, Zenon DEF Contents
<1>6. Contents(r) \subseteq Contents(s \o r)
  BY <1>3, Zenon DEF Contents
<1> QED
  BY <1>4, <1>5, <1>6, Zenon

\* The order is kept by what joins a queue harmlessly, or ahead of the shutdown.
LEMMA BehindAppend ==
    ASSUME NEW s \in Seq(Commands), NEW e \in Commands, Behind(s), Shut(s) => e \in Harmless
    PROVE  Behind(Append(s, e))
<1> SUFFICES ASSUME NEW i \in DOMAIN Append(s, e), NEW j \in DOMAIN Append(s, e),
                    Append(s, e)[i].kind = "shutdown", i < j
             PROVE  Append(s, e)[j] \in Harmless
  BY Zenon DEF Behind
<1>1. i \in DOMAIN s /\ Append(s, e)[i] = s[i]
  BY AppendFacts
<1>2. CASE j \in DOMAIN s
  BY <1>1, <1>2, AppendFacts DEF Behind
<1>3. CASE j = Len(s) + 1
  BY <1>1, <1>3, AppendFacts DEF Shut, Contents
<1> QED
  BY <1>2, <1>3, AppendFacts

LEMMA BehindTail ==
    ASSUME NEW s \in Seq(Commands), s # <<>>, Behind(s)
    PROVE  Behind(Tail(s)) /\ (Head(s).kind = "shutdown" => Tail(s) \in Seq(Harmless))
<1>1. \A i \in DOMAIN Tail(s) : i + 1 \in DOMAIN s /\ Tail(s)[i] = s[i + 1] /\ i \in Nat /\ 1 < i + 1
  BY TailFacts
<1>2. Behind(Tail(s))
  BY <1>1 DEF Behind
<1>3. ASSUME Head(s).kind = "shutdown" PROVE Contents(Tail(s)) \subseteq Harmless
  BY <1>1, <1>3, TailFacts DEF Behind, Contents
<1> QED
  BY <1>2, <1>3, TailFacts, Elements, Zenon

LEMMA BehindConcat ==
    ASSUME NEW s \in Seq(Commands), NEW r \in Seq(Commands), Behind(s), Behind(r),
           Shut(s) => r \in Seq(Harmless)
    PROVE  Behind(s \o r)
<1> SUFFICES ASSUME NEW i \in DOMAIN (s \o r), NEW j \in DOMAIN (s \o r), (s \o r)[i].kind = "shutdown", i < j
             PROVE  (s \o r)[j] \in Harmless
  BY Zenon DEF Behind
<1>0. i \in Nat /\ j \in Nat /\ Len(s) \in Nat
  BY ConcatFacts
<1>1. CASE i \in DOMAIN s /\ j \in DOMAIN s
  BY <1>1, ConcatFacts DEF Behind
<1>2. CASE i \in DOMAIN s /\ j \notin DOMAIN s
  <2>1. Shut(s)
    BY <1>2, ConcatFacts DEF Shut, Contents
  <2>2. j - Len(s) \in DOMAIN r /\ (s \o r)[j] = r[j - Len(s)]
    BY <1>2, ConcatFacts
  <2> QED
    BY <2>1, <2>2, Elements DEF Contents
<1>3. CASE i \notin DOMAIN s
  <2>1. i - Len(s) \in DOMAIN r /\ (s \o r)[i] = r[i - Len(s)]
    BY <1>3, ConcatFacts
  <2>2. j - Len(s) \in DOMAIN r /\ (s \o r)[j] = r[j - Len(s)]
    BY <1>3, <1>0, ConcatFacts
  <2> QED
    BY <2>1, <2>2, <1>0 DEF Behind
<1> QED
  BY <1>1, <1>2, <1>3, Zenon

-----------------------------------------------------------------------------
(* The types, and the operation at each place.                             *)

LEMMA GoesTypes ==
    ASSUME Types, NEW x \in Actors, NEW place \in Places, Goes(x, place)
    PROVE  at' \in [Actors -> Places]
  BY Zenon DEF Types, Goes

\* Whoever counts off was counted.
CountsOff == \A t \in Threads : at[t] = "uncount" => posting - 1 \in Nat

LEMMA CallsTypes ==
    ASSUME Types, Operating, CountsOff, NEW t \in Threads, Calls(t)
    PROVE  Types'
<1> USE DEF caller, shared, inbox, driver, outside
<1>0. t \in Actors
  BY Zenon DEF Actors
<1>1. CASE Begin(t)
  <2>1. at' \in [Actors -> Places]
    BY <1>0, <1>1, GoesTypes, Zenon DEF Begin, Places
  <2>2. stream' \in Streams
    BY <1>1, Zenon DEF Begin, Streams, Types
  <2> QED
    BY <1>1, <2>1, <2>2, Zenon DEF Begin, Types
<1>2. CASE Check(t) \/ Recheck(t)
  <2>1. at' \in [Actors -> Places]
    BY <1>0, <1>2, GoesTypes, Zenon DEF Check, Recheck, Places
  <2>2. refused' \subseteq Threads
    BY <1>2, Zenon DEF Check, Recheck, Types
  <2> QED
    BY <1>2, <2>1, <2>2, Zenon DEF Check, Recheck, Types
<1>3. CASE Push(t)
  <2>1. Entry(Op(t), t) \in Commands
    BY <1>0, <1>3, Zenon DEF Push, Operating, Operates, Posts, Entry, Commands, Entries, Kinds, Ops, Waiting
  <2>2. at' \in [Actors -> Places]
    BY <1>0, <1>3, GoesTypes, Zenon DEF Push, Places
  <2>3. posted' \in Seq(Commands)
    BY <1>3, <2>1, AppendFacts, Zenon DEF Push, Types
  <2> QED
    BY <1>3, <2>2, <2>3, Zenon DEF Push, Types
<1>4. CASE Look(t) \/ Wake(t) \/ Last(t)
  <2>1. at' \in [Actors -> Places]
    BY <1>0, <1>4, GoesTypes, Zenon DEF Look, Wake, Last, Places
  <2> QED
    BY <1>4, <2>1, ZenonT(40) DEF Look, Wake, Last, Types
<1>5. CASE Count(t) \/ Uncount(t)
  <2>1. at' \in [Actors -> Places]
    BY <1>0, <1>5, GoesTypes, Zenon DEF Count, Uncount, Places
  <2>2. posting' \in Nat
    BY <1>5 DEF Count, Uncount, CountsOff, Types
  <2> QED
    BY <1>5, <2>1, <2>2, Zenon DEF Count, Uncount, Types
<1>6. CASE Notify(t)
  <2>1. at' \in [Actors -> Places]
    BY <1>6, Zenon DEF Notify, Places, Types
  <2> QED
    BY <1>6, <2>1, Zenon DEF Notify, Types
<1>7. ASSUME Returns(t), todo[t] # <<>>
      PROVE  at' \in [Actors -> Places] /\ todo' \in [Threads -> Seq(Ops)] /\ results' \subseteq Threads
  <2>1. at' \in [Actors -> Places]
    BY <1>0, <1>7, GoesTypes, Zenon DEF Returns, Places
  <2> QED
    BY <1>7, <2>1 DEF Returns, Types
<1>8. CASE PostDone(t)
  <2>1. at' \in [Actors -> Places] /\ todo' \in [Threads -> Seq(Ops)] /\ results' \subseteq Threads
    BY <1>0, <1>7, <1>8, GoesTypes, Zenon DEF PostDone, Operating, Operates, Places, Types
  <2>2. stream' \in Streams
    BY <1>8, Zenon DEF PostDone, Streams, Types
  <2> QED
    BY <1>8, <2>1, <2>2, Zenon DEF PostDone, Types
<1>9. CASE Wait(t) \/ Join(t)
  <2>1. at' \in [Actors -> Places] /\ todo' \in [Threads -> Seq(Ops)] /\ results' \subseteq Threads
    BY <1>0, <1>7, <1>9, GoesTypes, Zenon DEF Wait, Join, Operating, Operates, Places, Types
  <2> QED
    BY <1>9, <2>1, Zenon DEF Wait, Join, Types
<1>10. CASE Recv(t)
  <2>1. at' \in [Actors -> Places] /\ todo' \in [Threads -> Seq(Ops)] /\ results' \subseteq Threads
    BY <1>0, <1>7, <1>10, GoesTypes, Zenon DEF Recv, Operating, Operates, Places, Types
  <2>2. stream.held > 0 => stream.held - 1 \in 0 .. Capacity
    BY ClientAssumption DEF Streams, Types
  <2>3. stream' \in Streams
    BY <1>10, <2>2, Zenon DEF Recv, Streams, Types
  <2> QED
    BY <1>10, <2>1, <2>3, Zenon DEF Recv, Types
<1> QED
  BY <1>1, <1>2, <1>3, <1>4, <1>5, <1>6, <1>8, <1>9, <1>10, Zenon DEF Calls

LEMMA ShutsTypes ==
    ASSUME Types, NEW x \in Actors, Shuts(x)
    PROVE  Types'
<1> USE DEF caller, shared, inbox, driver, outside
<1>1. CASE Swap(x) \/ Lock(x) \/ Counts(x) \/ Sleeps(x) \/ Wakes(x)
  <2>1. at' \in [Actors -> Places]
    BY <1>1, GoesTypes, Zenon DEF Swap, Lock, Counts, Sleeps, Wakes, Places
  <2> QED
    BY <1>1, <2>1, ZenonT(40) DEF Swap, Lock, Counts, Sleeps, Wakes, Types
<1>2. CASE PushesShutdown(x)
  <2>1. Entry("shutdown", x) \in Commands
    BY Zenon DEF Entry, Commands, Entries, Kinds, Ops, Waiting
  <2>2. at' \in [Actors -> Places] /\ posted' \in Seq(Commands)
    BY <1>2, <2>1, GoesTypes, AppendFacts, Zenon DEF PushesShutdown, Places, Types
  <2> QED
    BY <1>2, <2>2, Zenon DEF PushesShutdown, Types
<1>3. CASE AsksEnded(x)
  <2>1. at' \in [Actors -> Places] /\ results' \subseteq Threads /\ completers' \subseteq Actors
    BY <1>3, GoesTypes, Zenon DEF AsksEnded, Places, Types, Actors
  <2> QED
    BY <1>3, <2>1, Zenon DEF AsksEnded, Types
<1> QED
  BY <1>1, <1>2, <1>3, Zenon DEF Shuts

\* What hands results out keeps the threads' types.
LEMMA HandsTypes ==
    ASSUME Types, NEW S \in SUBSET Threads, NEW R, Hands(S, R)
    PROVE  /\ at' \in [Actors -> Places] /\ todo' = todo /\ refused' = refused
           /\ results' \subseteq Threads
  BY Zenon DEF Types, Hands, Places

\* What a callback sends joins the inbox.
LEMMA CallbackTypes ==
    ASSUME Types, NEW called \in BOOLEAN, CallbackPosts(called)
    PROVE  posted' \in Seq(Commands) /\ pending' \in BOOLEAN
<1>1. Entry("send", Io) \in Commands
  BY Zenon DEF Entry, Commands, Entries, Kinds, Ops, Waiting, Actors
<1> QED
  BY <1>1, AppendFacts, Zenon DEF Types, CallbackPosts

LEMMA ByTypes == ASSUME NEW W \in SUBSET Waits PROVE By(W) \in SUBSET Threads
  BY Zenon DEF By, Waits

\* What running a command may do to the types.
Typed ==
    /\ at' \in [Actors -> Places] /\ todo' = todo /\ refused' = refused /\ results' \subseteq Threads
    /\ core' \in Cores /\ core'.written <= core'.sent /\ core'.upto <= core'.sent
    /\ stream' \in Streams /\ posted' \in Seq(Commands) /\ pending' \in BOOLEAN

\* The core's own types, apart.
LEMMA CoreTypes == ASSUME Types PROVE core \in Cores /\ core.written <= core.sent /\ core.upto <= core.sent
  BY Zenon DEF Types

LEMMA TeardownTypes ==
    ASSUME Types, NEW c \in Cores, NEW S \in SUBSET Threads, c.upto <= c.sent, Teardown(c, S)
    PROVE  Typed
<1>1. PICK phase \in {"closing", "closed"} :
         core' = [c EXCEPT !.phase = phase, !.flushes = {}, !.drain = FALSE, !.written = c.sent]
  BY Zenon DEF Teardown
<1>a. core' \in Cores
  BY <1>1, Zenon DEF Cores, Phases
<1>b. core'.written <= core'.sent /\ core'.upto <= core'.sent
  BY <1>1 DEF Cores
<1>2. S \cup By(c.flushes) \in SUBSET Threads
  BY ByTypes, Zenon DEF Cores
<1>3. at' \in [Actors -> Places] /\ todo' = todo /\ refused' = refused /\ results' \subseteq Threads
  BY <1>2, HandsTypes, Zenon DEF Teardown
<1>4. stream' \in Streams
  BY Zenon DEF Teardown, Streams, Types
<1>5. posted' \in Seq(Commands) /\ pending' \in BOOLEAN
  BY CallbackTypes, Zenon DEF Teardown
<1> QED
  BY <1>a, <1>b, <1>3, <1>4, <1>5, Zenon DEF Typed

LEMMA WriteOutTypes ==
    ASSUME NEW c \in Cores, c.written <= c.sent
    PROVE  WriteOut(c) \in Cores /\ WriteOut(c).written <= WriteOut(c).sent /\ WriteOut(c).upto <= WriteOut(c).sent
<1>0. (c.written < c.sent) \in BOOLEAN /\ (c.written = c.sent) \in BOOLEAN
  OBVIOUS
<1>1. WriteOut(c) \in Cores
  <2> DEFINE drain == c.written < c.sent
             step == c.written = c.sent
  <2> HIDE DEF drain, step
  <2>1. [c EXCEPT !.phase = "writing", !.upto = c.sent, !.drain = drain, !.step = step] \in Cores
    BY <1>0, Zenon DEF Cores, Phases, drain, step
  <2> QED
    BY <2>1, Zenon DEF WriteOut, drain, step
<1>2. WriteOut(c).written <= WriteOut(c).sent /\ WriteOut(c).upto <= WriteOut(c).sent
  BY DEF WriteOut, Cores
<1> QED
  BY <1>1, <1>2, Zenon

LEMMA HandlesTypes ==
    ASSUME Types, NEW e \in Commands, Handles(e)
    PROVE  Typed
<1> USE DEF caller
<1>0. e.kind \in Waiting => {e.by} \in SUBSET Threads
  BY Zenon DEF Commands
<1>1. CASE e.kind = "send" /\ RunSend(e.by)
  <2>1. core' \in Cores /\ core'.written <= core'.sent /\ core'.upto <= core'.sent
    BY <1>1, CoreTypes DEF RunSend, Cores
  <2> QED
    BY <1>1, <2>1, Zenon DEF RunSend, Typed, Types
<1>2. CASE e.kind = "write" /\ RunWrite(e.by)
  <2>1. e.by \in Threads
    BY <1>0, <1>2, Zenon DEF Waiting
  <2>2. CASE TornDown
    BY <1>2, <2>1, <2>2, HandsTypes, Zenon DEF RunWrite, Typed, Types
  <2>3. CASE ~TornDown
    <3>1. [by |-> e.by, upto |-> core.sent + 1] \in Waits
      BY <2>1 DEF Waits, Cores, Types
    <3>2. core' = [core EXCEPT !.sent = @ + 1, !.follows = @ \cup {[by |-> e.by, upto |-> core.sent + 1]}]
      BY <1>2, <2>3, Zenon DEF RunWrite
    <3>a. core.follows \cup {[by |-> e.by, upto |-> core.sent + 1]} \in SUBSET Waits /\ core.sent + 1 \in Nat
      BY <3>1, CoreTypes DEF Cores
    <3>3. core' \in Cores
      BY <3>a, <3>2, CoreTypes, Zenon DEF Cores
    <3>4. core'.written <= core'.sent /\ core'.upto <= core'.sent
      BY <3>2, CoreTypes DEF Cores
    <3> QED
      BY <1>2, <2>3, <3>3, <3>4, Zenon DEF RunWrite, Typed, Types
  <2> QED
    BY <2>2, <2>3, Zenon
<1>3. CASE e.kind = "call" /\ RunCall(e.by)
  BY <1>0, <1>3, HandsTypes, Zenon DEF RunCall, Typed, Types, Waiting
<1>4. CASE e.kind = "query" /\ RunQuery(e.by)
  <2>1. e.by \in Threads
    BY <1>0, <1>4, Zenon DEF Waiting
  <2>2. CASE core.phase = "open"
    <3>1. core' \in Cores /\ core'.written <= core'.sent /\ core'.upto <= core'.sent
      BY <1>4, <2>1, <2>2, CoreTypes DEF RunQuery, Cores
    <3> QED
      BY <1>4, <2>2, <3>1, Zenon DEF RunQuery, Typed, Types
  <2>3. CASE core.phase # "open"
    BY <1>4, <2>1, <2>3, HandsTypes, Zenon DEF RunQuery, Typed, Types
  <2> QED
    BY <2>2, <2>3, Zenon
<1>5. CASE e.kind = "flush" /\ RunFlush(e.by)
  <2>1. e.by \in Threads
    BY <1>0, <1>5, Zenon DEF Waiting
  <2>2. posted' \in Seq(Commands) /\ pending' \in BOOLEAN
    BY <1>5, CallbackTypes, Zenon DEF RunFlush
  <2>3. CASE core.written < core.sent
    <3>1. [by |-> e.by, upto |-> core.sent] \in Waits
      BY <2>1, Zenon DEF Waits, Cores, Types
    <3>2. core' \in Cores /\ core'.written <= core'.sent /\ core'.upto <= core'.sent
      BY <1>5, <2>3, <3>1, CoreTypes DEF RunFlush, Cores
    <3> QED
      BY <1>5, <2>2, <2>3, <3>2, Zenon DEF RunFlush, Typed, Types
  <2>4. CASE ~(core.written < core.sent)
    BY <1>5, <2>1, <2>2, <2>4, HandsTypes, Zenon DEF RunFlush, Typed, Types
  <2> QED
    BY <2>3, <2>4, Zenon
<1>6. CASE e.kind = "read" /\ RunRead(e.by)
  <2>1. stream' \in Streams
    BY <1>6, Zenon DEF RunRead, Streams, Types, TornDown
  <2> QED
    BY <1>6, <2>1, HandsTypes, Zenon DEF RunRead, Typed, Types
<1>7. CASE e.kind = "shutdown" /\ RunShutdown(e.by)
  <2> DEFINE asked == [core EXCEPT !.queries = {}]
  <2>1. asked \in Cores /\ asked.upto <= asked.sent /\ asked.written <= asked.sent /\ core.queries \in SUBSET Threads
    BY Zenon DEF Cores, Types
  <2> HIDE DEF asked
  <2>2. CASE program.drain = "zero"
    BY <1>7, <2>1, <2>2, TeardownTypes, Zenon DEF RunShutdown, asked
  <2>3. CASE program.drain # "zero"
    BY <1>7, <2>1, <2>3, WriteOutTypes, HandsTypes, Zenon DEF RunShutdown, asked, Typed, Types
  <2> QED
    BY <2>2, <2>3, Zenon
<1>8. CASE e.kind = "writeout" /\ RunWriteOut
  <2>1. CASE ~TornDown /\ core.sent = core.upto
    BY <1>8, <2>1, TeardownTypes, Zenon DEF RunWriteOut, Types
  <2>2. CASE ~(~TornDown /\ core.sent = core.upto)
    BY <1>8, <2>2, WriteOutTypes, Zenon DEF RunWriteOut, Typed, Types
  <2> QED
    BY <2>1, <2>2, Zenon
<1>9. CASE e.kind = "due" /\ RunDue(e.by)
  <2> DEFINE waiting == core.queries \cup By(core.flushes) \cup By(core.follows)
  <2>1. waiting \cap {e.by} \in SUBSET Threads
    BY ByTypes, Zenon DEF Cores, Types
  <2>2. core' \in Cores /\ core'.written <= core'.sent /\ core'.upto <= core'.sent
    BY <1>9, CoreTypes, Zenon DEF RunDue, Cores, Others
  <2>3. posted' \in Seq(Commands) /\ pending' \in BOOLEAN
    <3>1. (e.by \in By(core.flushes)) \in BOOLEAN
      OBVIOUS
    <3> QED
      BY <1>9, <3>1, CallbackTypes, Zenon DEF RunDue
  <2> QED
    BY <1>9, <2>1, <2>2, <2>3, HandsTypes, Zenon DEF RunDue, Typed, Types
<1>10. CASE e.kind = "written" /\ RunWritten
  <2> DEFINE c == [core EXCEPT !.written = IF @ < core.sent THEN @ + 1 ELSE @]
             flushed == Ended(c.flushes, c.written)
             wrote == Ended(c.follows, c.written)
  <2>1. c \in Cores /\ c.written <= c.sent /\ c.upto <= c.sent
    BY CoreTypes DEF Cores
  <2>2. flushed \in SUBSET Waits /\ wrote \in SUBSET Waits
    BY <2>1, Zenon DEF Cores, Ended
  <2>3. By(flushed \cup wrote) \in SUBSET Threads
    BY <2>2, ByTypes, Zenon
  <2>4. core' \in Cores /\ core'.written <= core'.sent /\ core'.upto <= core'.sent
    <3> DEFINE over == c.drain /\ c.upto <= c.written
    <3>1. core' = [c EXCEPT !.flushes = @ \ flushed, !.follows = @ \ wrote,
                            !.drain = @ /\ ~over, !.step = @ \/ over]
      BY <1>10, Zenon DEF RunWritten
    <3>2. over \in BOOLEAN
      BY Zenon
    <3> HIDE DEF c, flushed, wrote, over
    <3>3. core' \in Cores
      BY <2>1, <3>1, <3>2, Zenon DEF Cores
    <3>4. core'.written <= core'.sent /\ core'.upto <= core'.sent
      BY <2>1, <3>1, Zenon DEF Cores
    <3> QED
      BY <3>3, <3>4, Zenon
  <2>5. posted' \in Seq(Commands) /\ pending' \in BOOLEAN
    BY <1>10, CallbackTypes, Zenon DEF RunWritten
  <2> QED
    BY <1>10, <2>3, <2>4, <2>5, HandsTypes, Zenon DEF RunWritten, Typed, Types
<1>11. CASE e.kind = "drain" /\ RunDrain
  <2>1. CASE core.phase = "writing"
    BY <1>11, <2>1, TeardownTypes, Zenon DEF RunDrain, Types
  <2>2. CASE core.phase # "writing"
    BY <1>11, <2>2, Zenon DEF RunDrain, Typed, Types
  <2> QED
    BY <2>1, <2>2, Zenon
<1>12. CASE e.kind = "message" /\ RunMessage
  <2>0. stream \in Streams /\ Capacity \in Nat
    BY ClientAssumption, Zenon DEF Types
  <2>1. stream' \in Streams
    BY <1>12, <2>0 DEF RunMessage, Streams
  <2>2. at' \in [Actors -> Places]
    BY <1>12, Zenon DEF RunMessage, Places, Types
  <2>3. posted' \in Seq(Commands) /\ pending' \in BOOLEAN
    BY <1>12, CallbackTypes, Zenon DEF RunMessage
  <2> QED
    BY <1>12, <2>1, <2>2, <2>3, Zenon DEF RunMessage, Typed, Types
<1>13. CASE e.kind = "closed" /\ RunClosed
  <2>1. core' \in Cores /\ core'.written <= core'.sent /\ core'.upto <= core'.sent
    BY <1>13, CoreTypes, Zenon DEF RunClosed, Cores, Phases
  <2> QED
    BY <1>13, <2>1, Zenon DEF RunClosed, Typed, Types
<1> QED
  BY <1>1, <1>2, <1>3, <1>4, <1>5, <1>6, <1>7, <1>8, <1>9, <1>10, <1>11, <1>12, <1>13, Zenon DEF Handles

LEMMA HappeningsHarmless == Happenings \subseteq Harmless /\ WriteOutStep \in Harmless /\ WriteOutStep \notin Happenings
  BY Zenon DEF Happenings, Harmless, Commands, Entries, Kinds, Ops, Waiting, WriteOutStep, Entry, Actors

LEMMA IoTypes ==
    ASSUME Types, IoThread
    PROVE  Types'
<1> USE DEF caller, shared, inbox, driver, outside
<1>0. Happenings \subseteq Commands /\ WriteOutStep \in Commands
  BY HappeningsHarmless, Zenon DEF Harmless
<1>1. CASE IoTop
  <2>1. core' \in Cores /\ core'.written <= core'.sent /\ core'.upto <= core'.sent
    BY <1>1, CoreTypes, Zenon DEF IoTop, Cores
  <2>2. ready' \in Seq(Commands)
    BY <1>0, <1>1, AppendFacts, Zenon DEF IoTop, Types
  <2>3. tornDown' \in BOOLEAN
    BY <1>1, Zenon DEF IoTop, TornDown, Types
  <2> QED
    BY <1>1, <2>1, <2>2, <2>3, Zenon DEF IoTop, Types
<1>2. CASE IoPass \/ IoFalls \/ IoAsks \/ IoWaits \/ IoAwake \/ IoAfter \/ IoEnds
  BY <1>2, ZenonT(40) DEF IoPass, IoFalls, IoAsks, IoWaits, IoAwake, IoAfter, IoEnds, Types
<1>3. CASE IoTakes
  <2>1. ready' \in Seq(Commands) /\ posted' \in Seq(Commands)
    BY <1>3, ConcatFacts DEF IoTakes, Types
  <2> QED
    BY <1>3, <2>1, Zenon DEF IoTakes, Types
<1>4. CASE IoPulls
  <2>0. \A e \in events : Append(ready, e) \in Seq(Commands)
    BY <1>0, AppendFacts, Zenon DEF Types
  <2>1. ready' \in Seq(Commands) /\ events' \subseteq Happenings
    BY <1>4, <2>0, Zenon DEF IoPulls, Types
  <2>2. woken' \in BOOLEAN
    BY <1>4, Zenon DEF IoPulls, Types
  <2> QED
    BY <1>4, <2>1, <2>2, Zenon DEF IoPulls, Types
<1>5. CASE IoRuns
  <2>1. ready # <<>> /\ Head(ready) \in Commands /\ Tail(ready) \in Seq(Commands)
    BY <1>5, TailFacts, Zenon DEF IoRuns, Types
  <2>2. ready' \in Seq(Commands)
    BY <1>0, <1>5, <2>1, AppendFacts DEF IoRuns
  <2>3. CASE UNCHANGED <<caller, at, core, stream, posted, pending>>
    BY <1>5, <2>2, <2>3, Zenon DEF IoRuns, Types
  <2>4. CASE Handles(Head(ready))
    <3>1. Typed
      BY <2>1, <2>4, HandlesTypes, Zenon
    <3> QED
      BY <1>5, <2>2, <3>1, Zenon DEF IoRuns, Types, Typed
  <2> QED
    BY <1>5, <2>3, <2>4, Zenon DEF IoRuns
<1>6. CASE IoLeaves
  <2>1. core.queries \cup By(core.flushes \cup core.follows) \in SUBSET Threads
    BY CoreTypes, ByTypes, Zenon DEF Cores
  <2>2. at' \in [Actors -> Places] /\ todo' = todo /\ refused' = refused /\ results' \subseteq Threads
    BY <1>6, <2>1, HandsTypes, Zenon DEF IoLeaves
  <2>3. core' \in Cores /\ core'.written <= core'.sent /\ core'.upto <= core'.sent
    BY <1>6, CoreTypes, Zenon DEF IoLeaves, Cores
  <2> QED
    BY <1>6, <2>2, <2>3, Zenon DEF IoLeaves, Types
<1>7. CASE IoTells
  <2>1. completers \ {Io} \in SUBSET Threads
    BY Zenon DEF Types, Actors
  <2>2. at' \in [Actors -> Places] /\ todo' = todo /\ refused' = refused /\ results' \subseteq Threads
    BY <1>7, <2>1, HandsTypes, Zenon DEF IoTells
  <2> QED
    BY <1>7, <2>2, Zenon DEF IoTells, Types
<1> QED
  BY <1>1, <1>2, <1>3, <1>4, <1>5, <1>6, <1>7, Zenon DEF IoThread

\* What arrives is an event and changes nothing else.
LEMMA ArrivesOnly ==
    ASSUME Types,
           (\E t \in Threads : QueryEnds(t) \/ DeadlinePasses(t))
             \/ WriteEnds \/ ConnectionsClose \/ DrainDue \/ MessageArrives
    PROVE  /\ events' \subseteq Happenings /\ arrived' \in 0 .. program.messages
           /\ UNCHANGED <<program, todo, refused, results, at, stopped, posting, lifecycle, tornDown, ended, completers,
                          posted, pending, asleep, signal, io, ready, woken, core, stream>>
<1>a. \A t \in Actors : \A k \in {"due", "written", "drain", "message", "closed"} :
         Entry(k, t) \in Happenings /\ Entry(k, t).kind = k
  BY Zenon DEF Entry, Happenings
<1>b. Io \in Actors /\ \A t \in Threads : t \in Actors
  BY Zenon DEF Actors
<1>1. \E e \in Happenings : Arrives(e) /\ (e.kind = "message" => arrived < program.messages)
  <2>1. CASE \E t \in Threads : QueryEnds(t) \/ DeadlinePasses(t)
    BY <1>a, <1>b, <2>1, Zenon DEF QueryEnds, DeadlinePasses
  <2>2. CASE WriteEnds
    BY <1>a, <1>b, <2>2, Zenon DEF WriteEnds
  <2>3. CASE ConnectionsClose
    BY <1>a, <1>b, <2>3, Zenon DEF ConnectionsClose
  <2>4. CASE DrainDue
    BY <1>a, <1>b, <2>4, Zenon DEF DrainDue
  <2>5. CASE MessageArrives
    BY <1>a, <1>b, <2>5, Zenon DEF MessageArrives
  <2> QED
    BY <2>1, <2>2, <2>3, <2>4, <2>5, Zenon
<1>2. program.messages \in Nat
  BY ClientAssumption, Zenon DEF Types
<1>3. PICK e \in Happenings : Arrives(e) /\ (e.kind = "message" => arrived < program.messages)
  BY <1>1, Zenon
<1>4. arrived' \in 0 .. program.messages
  BY <1>2, <1>3 DEF Arrives, Types
<1> QED
  BY <1>3, <1>4, Zenon DEF Arrives, Types, caller, shared, inbox, driver

LEMMA NextTypes ==
    ASSUME Types, Operating, CountsOff, [Next]_vars
    PROVE  Types'
<1>1. CASE \E t \in Threads : Calls(t)
  BY <1>1, CallsTypes, Zenon
<1>2. CASE \E x \in Actors : Shuts(x)
  BY <1>2, ShutsTypes, Zenon
<1>3. CASE IoThread
  BY <1>3, IoTypes, Zenon
<1>4. CASE (\E t \in Threads : QueryEnds(t) \/ DeadlinePasses(t))
             \/ WriteEnds \/ ConnectionsClose \/ DrainDue \/ MessageArrives
  BY <1>4, ArrivesOnly, Zenon DEF Types
<1>5. CASE UNCHANGED vars
  BY <1>5, Zenon DEF vars, caller, shared, inbox, driver, outside, Types
<1> QED
  BY <1>1, <1>2, <1>3, <1>4, <1>5, Zenon DEF Next, Progress

-----------------------------------------------------------------------------
(* Where the actors are.                                                   *)

LEMMA GoesAlone ==
    ASSUME Types, NEW x \in Actors, NEW place, Goes(x, place)
    PROVE  at'[x] = place /\ \A y \in Actors : y # x => at'[y] = at[y]
  BY Zenon DEF Types, Goes

\* What handlers do to the threads: those that sleep for a result or a
\* message wake, and the io thread may begin a shutdown in a callback.
Nudged ==
    \A x \in Actors :
        \/ at'[x] = at[x]
        \/ at[x] = "blocked" /\ at'[x] = "wait"
        \/ at[x] = "reading" /\ at'[x] = "recv"
        \/ x = Io /\ at'[x] = "swap"

LEMMA HandsNudge == ASSUME Types, NEW S, NEW R, Hands(S, R) PROVE Nudged
  BY Zenon DEF Types, Hands, Nudged

LEMMA HandlesNudge ==
    ASSUME Types, NEW e \in Commands, Handles(e)
    PROVE  Nudged
<1>0. ASSUME at' = at PROVE Nudged
  BY <1>0, Zenon DEF Nudged
<1>1. ASSUME NEW c, NEW S, Teardown(c, S) PROVE Nudged
  BY <1>1, HandsNudge, Zenon DEF Teardown
<1>2. CASE RunMessage
  BY <1>2, Zenon DEF RunMessage, Nudged, Types
<1>3. CASE RunSend(e.by) \/ RunClosed
  BY <1>0, <1>3, Zenon DEF RunSend, RunClosed
<1>4. CASE RunWrite(e.by)
  BY <1>0, <1>4, HandsNudge, Zenon DEF RunWrite
<1>5. CASE RunCall(e.by) \/ RunRead(e.by)
  BY <1>5, HandsNudge, Zenon DEF RunCall, RunRead
<1>6. CASE RunQuery(e.by)
  BY <1>0, <1>6, HandsNudge, Zenon DEF RunQuery
<1>7. CASE RunFlush(e.by)
  BY <1>0, <1>7, HandsNudge, Zenon DEF RunFlush
<1>8. CASE RunShutdown(e.by)
  BY <1>1, <1>8, HandsNudge, Zenon DEF RunShutdown
<1>9. CASE RunWriteOut \/ RunDrain
  BY <1>0, <1>1, <1>9, Zenon DEF RunWriteOut, RunDrain
<1>10. CASE RunDue(e.by)
  BY <1>10, HandsNudge, Zenon DEF RunDue
<1>11. CASE RunWritten
  BY <1>11, HandsNudge, Zenon DEF RunWritten
<1> QED
  BY <1>2, <1>3, <1>4, <1>5, <1>6, <1>7, <1>8, <1>9, <1>10, <1>11, Zenon DEF Handles

\* No step of the io thread's own does more to the threads.
LEMMA IoNudges ==
    ASSUME Types, IoThread
    PROVE  Nudged /\ todo' = todo /\ refused' = refused
<1> USE DEF caller
<1>0. ASSUME UNCHANGED <<caller, at>> PROVE Nudged /\ todo' = todo /\ refused' = refused
  BY <1>0, Zenon DEF Nudged
<1>1. CASE IoRuns
  <2>1. Head(ready) \in Commands
    BY <1>1, TailFacts, Zenon DEF IoRuns, Types
  <2>2. CASE Handles(Head(ready))
    BY <2>1, <2>2, HandlesNudge, HandlesTypes, Zenon DEF Typed
  <2> QED
    BY <1>0, <1>1, <2>2, Zenon DEF IoRuns
<1>2. ASSUME NEW S, NEW R, Hands(S, R) PROVE Nudged /\ todo' = todo /\ refused' = refused
  <2>1. Nudged
    BY <1>2, HandsNudge, Zenon
  <2> QED
    BY <1>2, <2>1, Zenon DEF Hands
<1>5. CASE IoLeaves \/ IoTells
  BY <1>2, <1>5, Zenon DEF IoLeaves, IoTells
<1>3. CASE IoTop \/ IoPass \/ IoTakes \/ IoPulls
  BY <1>0, <1>3, Zenon DEF IoTop, IoPass, IoTakes, IoPulls
<1>4. CASE IoFalls \/ IoAsks \/ IoWaits \/ IoAwake \/ IoAfter \/ IoEnds
  BY <1>0, <1>4, Zenon DEF IoFalls, IoAsks, IoWaits, IoAwake, IoAfter, IoEnds
<1> QED
  BY <1>1, <1>5, <1>3, <1>4, Zenon DEF IoThread

\* What a thread's own step leaves alone: the others, but for a shutdown
\* that slept and is notified.
LEMMA CallsAlone ==
    ASSUME Types, NEW t \in Threads, Calls(t)
    PROVE  /\ io' = io /\ core' = core /\ ready' = ready /\ completers' = completers /\ stopped' = stopped
           /\ \A y \in Actors : y # t => at'[y] = at[y] \/ (at[y] = "sleeping" /\ at'[y] = "lock")
           /\ \A u \in Threads : u # t =>
                 todo'[u] = todo[u] /\ (u \in refused' <=> u \in refused) /\ (u \in results' <=> u \in results)
<1> USE DEF caller, shared, driver
<1> DEFINE Kept == \A u \in Threads : u # t =>
                      todo'[u] = todo[u] /\ (u \in refused' <=> u \in refused) /\ (u \in results' <=> u \in results)
<1>1. UNCHANGED <<io, core, ready, completers, stopped>>
  BY Zenon DEF Calls, Begin, Check, Count, Recheck, Push, Look, Wake, Uncount, Last, Notify, PostDone, Wait, Join, Recv
<1>2. ASSUME Returns(t)
      PROVE  /\ Goes(t, "idle")
             /\ \A u \in Threads : u # t => todo'[u] = todo[u] /\ (u \in results' <=> u \in results)
  BY <1>2, Zenon DEF Returns, Types
<1>3. CASE Notify(t)
  BY <1>1, <1>3, Zenon DEF Notify, Types
<1>4. CASE Begin(t) \/ Check(t) \/ Count(t) \/ Recheck(t) \/ Push(t) \/ Look(t) \/ Wake(t) \/ Uncount(t) \/ Last(t)
  <2>1. (\E place : Goes(t, place)) /\ Kept
    BY <1>4, Zenon DEF Begin, Check, Count, Recheck, Push, Look, Wake, Uncount, Last
  <2> QED
    BY <1>1, <2>1, GoesAlone, Zenon DEF Actors
<1>5. CASE PostDone(t) \/ Wait(t) \/ Join(t) \/ Recv(t)
  <2>1. (\E place : Goes(t, place)) /\ Kept
    BY <1>2, <1>5, Zenon DEF PostDone, Wait, Join, Recv
  <2> QED
    BY <1>1, <2>1, GoesAlone, Zenon DEF Actors
<1> QED
  BY <1>3, <1>4, <1>5, Zenon DEF Calls

\* A thread goes on with its call.
LEMMA OperatesOn ==
    ASSUME Types, NEW t \in Threads, NEW place, Goes(t, place), UNCHANGED todo, todo[t] # <<>>, place # "idle",
           place \in Posts => Op(t) \in Waiting \cup {"send", "read"},
           place \in Leads \cup {"swap", "wakes", "ended"} => Op(t) \notin Waiting,
           t \in refused' => place \in {"uncount", "last", "notify", "posted"}
    PROVE  Operates(t)'
<1>1. t \in Actors
  BY Zenon DEF Actors
<1>2. at'[t] = place
  BY <1>1, GoesAlone, Zenon
<1>3. Op(t)' = Op(t)
  BY Zenon DEF Op
<1> QED
  BY <1>2, <1>3, Zenon DEF Operates

LEMMA CallsOperating ==
    ASSUME Types, Operating, NEW t \in Threads, Calls(t)
    PROVE  Operating'
<1> USE DEF caller, shared, inbox, driver, outside
<1>0. t \in Actors /\ t # Io /\ Io \in Actors
  BY ClientAssumption, Zenon DEF Actors
<1>1. ASSUME NEW u \in Threads, u # t PROVE Operates(u)'
  BY <1>1, CallsAlone DEF Operating, Operates, Op, Posts, Leads, Actors
<1>2. (at[Io] # "idle" => io = "after" /\ at[Io] \in Leads \cup {"swap", "wakes", "ended"})'
  BY <1>0, CallsAlone, Zenon DEF Operating, Leads
<1>3. Operates(t)'
  <2>0. Operates(t)
    BY Zenon DEF Operating
  <2>1. CASE Begin(t)
    BY <1>0, <2>0, <2>1, GoesAlone DEF Begin, Operates, Op, Posts, Leads, Waiting
  <2>2. CASE Check(t) \/ Count(t) \/ Recheck(t) \/ Push(t)
    <3>1. PICK place \in {"posted", "count", "recheck", "uncount", "push", "look"} :
             /\ Goes(t, place) /\ at[t] \in {"check", "count", "recheck", "push"} /\ UNCHANGED todo
             /\ place \in {"posted", "uncount"} \/ UNCHANGED refused
      BY <2>2, Zenon DEF Check, Count, Recheck, Push
    <3> QED
      BY <2>0, <3>1, OperatesOn, Zenon DEF Operates, Posts, Leads
  <2>3. CASE Look(t) \/ Wake(t) \/ Uncount(t) \/ Last(t)
    <3>1. PICK place \in {"wake", "uncount", "last", "posted", "notify"} :
             /\ Goes(t, place) /\ at[t] \in {"look", "wake", "uncount", "last"} /\ UNCHANGED <<todo, refused>>
             /\ place = "wake" => at[t] = "look"
      BY <2>3, Zenon DEF Look, Wake, Uncount, Last
    <3> QED
      BY <2>0, <3>1, OperatesOn, Zenon DEF Operates, Posts, Leads
  <2>4. CASE Notify(t)
    <3>1. at'[t] = "posted"
      BY <1>0, <2>4, Zenon DEF Notify, Types
    <3> QED
      BY <2>0, <2>4, <3>1, Zenon DEF Notify, Operates, Op, Posts, Leads
  <2>5. ASSUME Returns(t), t \notin refused' PROVE Operates(t)'
    BY <1>0, <2>5, GoesAlone DEF Returns, Operates, Posts, Leads
  <2>6. CASE PostDone(t)
    <3>1. /\ at[t] = "posted" /\ t \notin refused'
          /\ Returns(t) \/ (UNCHANGED todo /\ \E place \in {"wait", "recv"} : Goes(t, place))
      BY <2>6, Zenon DEF PostDone
    <3> QED
      BY <2>0, <2>5, <3>1, OperatesOn, Zenon DEF Operates, Posts, Leads
  <2>7. CASE Wait(t) \/ Join(t)
    <3>1. /\ at[t] \in {"wait", "join"} /\ UNCHANGED refused
          /\ Returns(t) \/ (UNCHANGED todo /\ \E place \in {"blocked", "join"} : Goes(t, place))
      BY <2>7, Zenon DEF Wait, Join
    <3> QED
      BY <2>0, <2>5, <3>1, OperatesOn, Zenon DEF Operates, Posts, Leads
  <2>8. CASE Recv(t)
    BY <1>0, <2>0, <2>5, <2>8, GoesAlone DEF Recv, Operates, Op, Posts, Leads
  <2> QED
    BY <2>1, <2>2, <2>3, <2>4, <2>6, <2>7, <2>8, Zenon DEF Calls
<1> QED
  BY <1>1, <1>2, <1>3, Zenon DEF Operating

\* A step of a shutdown is its own alone, and leads on.
LEMMA ShutsAlone ==
    ASSUME Types, NEW x \in Actors, Shuts(x)
    PROVE  /\ UNCHANGED <<io, core, ready, todo, refused, posting>>
           /\ \A y \in Actors : y # x => at'[y] = at[y]
           /\ at[x] \in Leads \cup {"swap", "wakes", "ended"}
           /\ at'[x] \in Leads \cup {"wakes", "ended"} \/ (at[x] = "ended" /\ at'[x] = IF x = Io THEN "idle" ELSE "wait")
<1> USE DEF caller, shared, driver
<1>1. UNCHANGED <<io, core, ready, todo, refused, posting>>
  BY Zenon DEF Shuts, Swap, Lock, Counts, Sleeps, PushesShutdown, Wakes, AsksEnded
<1>2. CASE Swap(x) \/ Lock(x) \/ Counts(x) \/ Sleeps(x) \/ PushesShutdown(x) \/ Wakes(x)
  <2>1. /\ at[x] \in Leads \cup {"swap", "wakes", "ended"}
        /\ \E place \in Leads \cup {"wakes", "ended"} : Goes(x, place)
    BY <1>2, Zenon DEF Swap, Lock, Counts, Sleeps, PushesShutdown, Wakes, Leads
  <2> QED
    BY <1>1, <2>1, GoesAlone, Zenon
<1>3. CASE AsksEnded(x)
  <2>1. at[x] = "ended" /\ Goes(x, IF x = Io THEN "idle" ELSE "wait")
    BY <1>3, Zenon DEF AsksEnded
  <2> QED
    BY <1>1, <2>1, GoesAlone, Zenon
<1> QED
  BY <1>2, <1>3, Zenon DEF Shuts

LEMMA NextOperating ==
    ASSUME Types, Operating, [Next]_vars
    PROVE  Operating'
<1>1. CASE \E t \in Threads : Calls(t)
  BY <1>1, CallsOperating, Zenon
<1>2. ASSUME NEW x \in Actors, Shuts(x) PROVE Operating'
  <2>1. ASSUME NEW t \in Threads PROVE Operates(t)'
    BY <1>2, <2>1, ShutsAlone, ClientAssumption, Zenon DEF Operating, Operates, Op, Posts, Leads, Actors
  <2>2. (at[Io] # "idle" => io = "after" /\ at[Io] \in Leads \cup {"swap", "wakes", "ended"})'
    BY <1>2, ShutsAlone, Zenon DEF Operating, Leads, Actors
  <2> QED
    BY <2>1, <2>2, Zenon DEF Operating
<1>3. CASE IoThread
  <2>1. ASSUME NEW t \in Threads PROVE Operates(t)'
    <3>1. t \in Actors /\ t # Io
      BY ClientAssumption, Zenon DEF Actors
    <3> QED
      BY <1>3, <3>1, IoNudges, Zenon DEF Operating, Operates, Op, Posts, Leads, Nudged
  <2>2. (at[Io] # "idle" => io = "after" /\ at[Io] \in Leads \cup {"swap", "wakes", "ended"})'
    <3>1. Io \in Actors
      BY Zenon DEF Actors
    <3>2. CASE IoRuns
      BY <1>3, <3>1, <3>2, IoNudges, Zenon DEF Operating, Leads, Nudged, IoRuns
    <3>3. CASE ~IoRuns
      <4>1. at[Io] = "idle"
        BY <1>3, <3>3, Zenon DEF IoThread, Operating, IoTop, IoPass, IoTakes, IoPulls, IoFalls, IoAsks, IoWaits, IoAwake,
              IoAfter, IoEnds, IoLeaves, IoTells
      <4>2. at'[Io] = at[Io]
        BY <1>3, <3>1, <3>3, <4>1, Zenon DEF IoThread, IoTop, IoPass, IoTakes, IoPulls, IoFalls, IoAsks, IoWaits, IoAwake,
              IoAfter, IoEnds, IoLeaves, IoTells, Hands
      <4> QED
        BY <4>1, <4>2, Zenon
    <3> QED
      BY <3>2, <3>3, Zenon
  <2> QED
    BY <2>1, <2>2, Zenon DEF Operating
<1>4. CASE (\E t \in Threads : QueryEnds(t) \/ DeadlinePasses(t))
             \/ WriteEnds \/ ConnectionsClose \/ DrainDue \/ MessageArrives
  BY <1>4, ArrivesOnly, Zenon DEF Operating, Operates, Op
<1>5. CASE UNCHANGED vars
  BY <1>5, Zenon DEF vars, caller, shared, inbox, driver, outside, Operating, Operates, Op
<1> QED
  BY <1>1, <1>2, <1>3, <1>4, <1>5, Zenon DEF Next, Progress

-----------------------------------------------------------------------------
(* What a handler does to the inbox, the phase and the results owed.       *)

\* At most one send of a callback joins the inbox.
Calledback ==
    \/ posted' = posted /\ pending' = pending
    \/ posted' = Append(posted, Entry("send", Io)) /\ pending' = TRUE

LEMMA CallbackCalls == ASSUME Types, NEW called \in BOOLEAN, CallbackPosts(called) PROVE Calledback
  BY Zenon DEF Types, CallbackPosts, Calledback

LEMMA HandlesPosts ==
    ASSUME Types, NEW e \in Commands, Handles(e)
    PROVE  Calledback
<1>0. ASSUME UNCHANGED <<posted, pending>> PROVE Calledback
  BY <1>0, Zenon DEF Calledback
<1>1. ASSUME NEW c, NEW S, Teardown(c, S) PROVE Calledback
  BY <1>1, CallbackCalls, Zenon DEF Teardown
<1>2. CASE RunSend(e.by) \/ RunWrite(e.by) \/ RunCall(e.by) \/ RunQuery(e.by) \/ RunRead(e.by) \/ RunClosed
  BY <1>0, <1>2, Zenon DEF RunSend, RunWrite, RunCall, RunQuery, RunRead, RunClosed
<1>3. CASE RunFlush(e.by)
  BY <1>3, CallbackCalls, Zenon DEF RunFlush
<1>4. CASE RunShutdown(e.by)
  BY <1>0, <1>1, <1>4, Zenon DEF RunShutdown
<1>5. CASE RunWriteOut \/ RunDrain
  BY <1>0, <1>1, <1>5, Zenon DEF RunWriteOut, RunDrain
<1>6. CASE RunDue(e.by)
  <2> DEFINE called == e.by \in By(core.flushes)
  <2>1. called \in BOOLEAN /\ CallbackPosts(called)
    BY <1>6 DEF RunDue
  <2> HIDE DEF called
  <2> QED
    BY <2>1, CallbackCalls, Zenon
<1>7. CASE RunWritten
  BY <1>7, CallbackCalls, Zenon DEF RunWritten
<1>8. CASE RunMessage
  BY <1>8, CallbackCalls, Zenon DEF RunMessage
<1> QED
  BY <1>2, <1>3, <1>4, <1>5, <1>6, <1>7, <1>8, Zenon DEF Handles

\* The client stays open until its shutdown runs, and writes out only then.
Opens(kind) ==
    /\ core.phase # "open" => core'.phase # "open"
    /\ core'.phase # "open" => core.phase # "open" \/ kind = "shutdown"
    /\ core'.phase = "open" => ~core'.step /\ ~core'.drain

LEMMA HandlesPhase ==
    ASSUME Types, NEW e \in Commands, Handles(e),
           core.phase = "open" => ~core.step /\ ~core.drain /\ e.kind # "writeout"
    PROVE  Opens(e.kind)
<1>0. core \in Cores
  BY CoreTypes, Zenon
<1>1. ASSUME NEW c \in Cores, NEW S, Teardown(c, S) PROVE core'.phase # "open"
  BY <1>1, Zenon DEF Teardown, Cores
<1>2. ASSUME NEW c \in Cores, core' = WriteOut(c) PROVE core'.phase # "open"
  BY <1>2, Zenon DEF WriteOut, Cores
<1>3. ASSUME core'.phase = core.phase, core'.step = core.step, core'.drain = core.drain PROVE Opens(e.kind)
  BY <1>3, Zenon DEF Opens
<1>4. CASE RunSend(e.by) \/ RunCall(e.by) \/ RunRead(e.by) \/ RunMessage
  BY <1>0, <1>3, <1>4, Zenon DEF RunSend, RunCall, RunRead, RunMessage, Cores
<1>5. CASE RunWrite(e.by)
  BY <1>0, <1>3, <1>5, Zenon DEF RunWrite, Cores
<1>6. CASE RunQuery(e.by)
  BY <1>0, <1>3, <1>6, Zenon DEF RunQuery, Cores
<1>7. CASE RunFlush(e.by)
  BY <1>0, <1>3, <1>7, Zenon DEF RunFlush, Cores
<1>8. CASE RunDue(e.by)
  BY <1>0, <1>3, <1>8, Zenon DEF RunDue, Cores
<1>9. CASE RunClosed
  BY <1>0, <1>9, Zenon DEF RunClosed, Opens, Cores
<1>10. CASE e.kind = "shutdown" /\ RunShutdown(e.by)
  <2>1. [core EXCEPT !.queries = {}] \in Cores
    BY <1>0, Zenon DEF Cores
  <2> QED
    BY <1>10, <1>1, <1>2, <2>1, Zenon DEF RunShutdown, Opens
<1>11. CASE e.kind = "writeout" /\ RunWriteOut
  BY <1>0, <1>1, <1>2, <1>3, <1>11, Zenon DEF RunWriteOut, Opens
<1>12. CASE RunDrain
  BY <1>0, <1>1, <1>3, <1>12, Zenon DEF RunDrain, Opens
<1>13. CASE RunWritten
  <2> DEFINE c == [core EXCEPT !.written = IF @ < core.sent THEN @ + 1 ELSE @]
             over == c.drain /\ c.upto <= c.written
  <2>1. c.phase = core.phase /\ c.step = core.step /\ c.drain = core.drain /\ c \in Cores
    BY <1>0 DEF Cores
  <2>2. core' = [c EXCEPT !.flushes = @ \ Ended(c.flushes, c.written), !.follows = @ \ Ended(c.follows, c.written),
                          !.drain = @ /\ ~over, !.step = @ \/ over]
    BY <1>13, Zenon DEF RunWritten
  <2>3. ~c.drain => ~over
    BY Zenon
  <2> HIDE DEF c, over
  <2>4. core'.phase = c.phase /\ core'.drain = (c.drain /\ ~over) /\ core'.step = (c.step \/ over)
    BY <2>1, <2>2, Zenon DEF Cores
  <2> QED
    BY <2>1, <2>3, <2>4, Zenon DEF Opens
<1> QED
  BY <1>4, <1>5, <1>6, <1>7, <1>8, <1>9, <1>10, <1>11, <1>12, <1>13, Zenon DEF Handles

\* Whoever the core owes a result is told it or stays owed it, whoever is
\* told does not stay blocked, and the command that runs is not forgotten.
Owes(e) ==
    \A t \in Threads :
        /\ t \in results \/ InCore(t) \/ (e.kind \in Waiting /\ e.by = t) => t \in results' \/ InCore(t)'
        /\ t \in results => t \in results'
        /\ at'[t] = "blocked" => at[t] = "blocked" /\ (t \in results' => t \in results)

\* What Hands hands.
LEMMA HandsTold ==
    ASSUME Types, NEW S, NEW R, Hands(S, R)
    PROVE  /\ results' = results \cup S
           /\ \A t \in Threads : at'[t] = "blocked" => at[t] = "blocked" /\ (t \in results' => t \in results)
  BY Zenon DEF Types, Hands, Actors

\* It suffices to follow who waits in the core.
LEMMA OwesIf ==
    ASSUME Types, NEW e, NEW S, NEW R, Hands(S, R),
           \A t \in Threads : InCore(t) => t \in S \/ InCore(t)',
           e.kind \in Waiting => e.by \in S \/ InCore(e.by)'
    PROVE  Owes(e)
  BY HandsTold, Zenon DEF Owes

LEMMA OwesStill ==
    ASSUME Types, NEW e, UNCHANGED <<caller, at>>,
           \A t \in Threads : InCore(t) => InCore(t)',
           e.kind \in Waiting => InCore(e.by)'
    PROVE  Owes(e)
  BY Zenon DEF Owes, caller

LEMMA HandlesOwes ==
    ASSUME Types, NEW e \in Commands, Handles(e)
    PROVE  Owes(e)
<1>0. core \in Cores
  BY CoreTypes, Zenon
<1>1. ASSUME UNCHANGED core PROVE \A t \in Threads : InCore(t) => InCore(t)'
  BY <1>1, Zenon DEF InCore
<1>2. ASSUME NEW c \in Cores, NEW S, Teardown(c, S), e.kind \notin Waiting,
             c.flushes = core.flushes, c.follows = core.follows, core.queries \subseteq S \cup c.queries
      PROVE  Owes(e)
  <2>1. core'.queries = c.queries /\ core'.flushes = {} /\ core'.follows = c.follows
    BY <1>2, Zenon DEF Teardown, Cores
  <2>2. \A t \in Threads : InCore(t) => t \in S \cup By(c.flushes) \/ InCore(t)'
    BY <1>2, <2>1, Zenon DEF InCore, By
  <2> QED
    BY <1>2, <2>2, OwesIf, Zenon DEF Teardown
<1>3. CASE e.kind = "send" /\ RunSend(e.by)
  <2>1. \A t \in Threads : InCore(t) => InCore(t)'
    BY <1>0, <1>3, Zenon DEF RunSend, InCore, Cores
  <2> QED
    BY <1>3, <2>1, OwesStill, Zenon DEF RunSend, Waiting
<1>4. CASE e.kind = "write" /\ RunWrite(e.by)
  <2>1. CASE TornDown
    BY <1>1, <1>4, <2>1, OwesIf, Zenon DEF RunWrite
  <2>2. CASE ~TornDown
    <3>1. core' = [core EXCEPT !.sent = @ + 1, !.follows = @ \cup {[by |-> e.by, upto |-> core.sent + 1]}]
      BY <1>4, <2>2, Zenon DEF RunWrite
    <3> DEFINE write == [by |-> e.by, upto |-> core.sent + 1]
    <3>2. core'.queries = core.queries /\ core'.flushes = core.flushes /\ core'.follows = core.follows \cup {write} /\ write.by = e.by
      BY <1>0, <3>1, Zenon DEF Cores
    <3> HIDE DEF write
    <3>3. \A t \in Threads : InCore(t) => InCore(t)'
      BY <3>2, Zenon DEF InCore, By
    <3>4. InCore(e.by)'
      BY <3>2, Zenon DEF InCore, By
    <3> QED
      BY <1>4, <2>2, <3>3, <3>4, OwesStill, Zenon DEF RunWrite
  <2> QED
    BY <2>1, <2>2, Zenon
<1>5. CASE e.kind = "call" /\ RunCall(e.by)
  BY <1>1, <1>5, OwesIf, Zenon DEF RunCall
<1>6. CASE e.kind = "query" /\ RunQuery(e.by)
  <2>1. CASE core.phase # "open"
    BY <1>1, <1>6, <2>1, OwesIf, Zenon DEF RunQuery
  <2>2. CASE core.phase = "open"
    <3>1. core' = [core EXCEPT !.queries = @ \cup {e.by}]
      BY <1>6, <2>2, Zenon DEF RunQuery
    <3>2. (\A t \in Threads : InCore(t) => InCore(t)') /\ InCore(e.by)'
      BY <1>0, <3>1, Zenon DEF InCore, Cores
    <3> QED
      BY <1>6, <2>2, <3>2, OwesStill, Zenon DEF RunQuery
  <2> QED
    BY <2>1, <2>2, Zenon
<1>7. CASE e.kind = "flush" /\ RunFlush(e.by)
  <2>1. CASE ~(core.written < core.sent)
    BY <1>1, <1>7, <2>1, OwesIf, Zenon DEF RunFlush
  <2>2. CASE core.written < core.sent
    <3>1. core' = [core EXCEPT !.flushes = @ \cup {[by |-> e.by, upto |-> core.sent]}]
      BY <1>7, <2>2, Zenon DEF RunFlush
    <3> DEFINE flush == [by |-> e.by, upto |-> core.sent]
    <3>2. core'.queries = core.queries /\ core'.follows = core.follows /\ core'.flushes = core.flushes \cup {flush} /\ flush.by = e.by
      BY <1>0, <3>1, Zenon DEF Cores
    <3> HIDE DEF flush
    <3>3. \A t \in Threads : InCore(t) => InCore(t)'
      BY <3>2, Zenon DEF InCore, By
    <3>4. InCore(e.by)'
      BY <3>2, Zenon DEF InCore, By
    <3> QED
      BY <1>7, <2>2, <3>3, <3>4, OwesStill, Zenon DEF RunFlush
  <2> QED
    BY <2>1, <2>2, Zenon
<1>8. CASE e.kind = "read" /\ RunRead(e.by)
  BY <1>1, <1>8, OwesIf, Zenon DEF RunRead, Waiting
<1>9. CASE e.kind = "shutdown" /\ RunShutdown(e.by)
  <2> DEFINE asked == [core EXCEPT !.queries = {}]
  <2>1. /\ asked \in Cores /\ asked.flushes = core.flushes /\ asked.follows = core.follows
        /\ e.kind \notin Waiting
    BY <1>0, <1>9, Zenon DEF Cores, Waiting
  <2>2. CASE program.drain = "zero"
    <3>1. Teardown(asked, core.queries)
      BY <1>9, <2>2, Zenon DEF RunShutdown
    <3> HIDE DEF asked
    <3> QED
      BY <1>2, <2>1, <3>1, Zenon
  <2>3. CASE program.drain # "zero"
    <3>1. core' = WriteOut(asked) /\ Hands(core.queries, {})
      BY <1>9, <2>3, Zenon DEF RunShutdown
    <3>2. core'.flushes = core.flushes /\ core'.follows = core.follows
      BY <2>1, <3>1, Zenon DEF WriteOut, Cores
    <3>3. \A t \in Threads : InCore(t) => t \in core.queries \/ InCore(t)'
      BY <3>2, Zenon DEF InCore
    <3> QED
      BY <2>1, <3>1, <3>3, OwesIf, Zenon
  <2> QED
    BY <2>2, <2>3, Zenon
<1>10. ASSUME UNCHANGED <<caller, at, core>>, e.kind \notin Waiting PROVE Owes(e)
  BY <1>1, <1>10, OwesStill, Zenon
<1>11. CASE e.kind = "writeout" /\ RunWriteOut
  <2>1. ASSUME core' = WriteOut(core), UNCHANGED <<caller, at>> PROVE Owes(e)
    <3>1. core'.queries = core.queries /\ core'.flushes = core.flushes /\ core'.follows = core.follows
      BY <1>0, <2>1, Zenon DEF WriteOut, Cores
    <3>2. \A t \in Threads : InCore(t) => InCore(t)'
      BY <3>1, Zenon DEF InCore
    <3> QED
      BY <1>11, <2>1, <3>2, OwesStill, Zenon DEF Waiting
  <2>2. e.kind \notin Waiting
    BY <1>11, Zenon DEF Waiting
  <2> QED
    BY <1>0, <1>2, <1>10, <1>11, <2>1, <2>2, Zenon DEF RunWriteOut
<1>12. CASE e.kind = "drain" /\ RunDrain
  <2>1. e.kind \notin Waiting
    BY <1>12, Zenon DEF Waiting
  <2> QED
    BY <1>0, <1>2, <1>10, <1>12, <2>1, Zenon DEF RunDrain
<1>13. CASE e.kind = "due" /\ RunDue(e.by)
  <2> DEFINE waiting == core.queries \cup By(core.flushes) \cup By(core.follows)
  <2>1. /\ Hands(waiting \cap {e.by}, {})
        /\ core' = [core EXCEPT !.queries = @ \ {e.by}, !.flushes = Others(@, e.by), !.follows = Others(@, e.by)]
    BY <1>13, Zenon DEF RunDue
  <2>2. /\ core'.queries = core.queries \ {e.by}
        /\ core'.flushes = Others(core.flushes, e.by) /\ core'.follows = Others(core.follows, e.by)
    BY <1>0, <2>1, Zenon DEF Cores
  <2>3. \A t \in Threads : InCore(t) => t \in waiting \cap {e.by} \/ InCore(t)'
    BY <2>2, Zenon DEF InCore, By, Others
  <2> QED
    BY <1>13, <2>1, <2>3, OwesIf, Zenon DEF Waiting
<1>14. CASE e.kind = "written" /\ RunWritten
  <2> DEFINE c == [core EXCEPT !.written = IF @ < core.sent THEN @ + 1 ELSE @]
             flushed == Ended(c.flushes, c.written)
             wrote == Ended(c.follows, c.written)
             over == c.drain /\ c.upto <= c.written
  <2>1. c.queries = core.queries /\ c.flushes = core.flushes /\ c.follows = core.follows /\ c \in Cores
    BY <1>0 DEF Cores
  <2>2. /\ core' = [c EXCEPT !.flushes = @ \ flushed, !.follows = @ \ wrote, !.drain = @ /\ ~over, !.step = @ \/ over]
        /\ Hands(By(flushed \cup wrote), {})
    BY <1>14, Zenon DEF RunWritten
  <2> HIDE DEF c, flushed, wrote, over
  <2>3. core'.queries = core.queries /\ core'.flushes = core.flushes \ flushed /\ core'.follows = core.follows \ wrote
    BY <2>1, <2>2, Zenon DEF Cores
  <2>4. \A t \in Threads : InCore(t) => t \in By(flushed \cup wrote) \/ InCore(t)'
    BY <2>3, Zenon DEF InCore, By
  <2> QED
    BY <1>14, <2>2, <2>4, OwesIf, Zenon DEF Waiting
<1>15. CASE e.kind = "message" /\ RunMessage
  <2>1. \A t \in Threads : at'[t] = "blocked" => at[t] = "blocked"
    BY <1>15, Zenon DEF RunMessage, Types, Actors
  <2> QED
    BY <1>1, <1>15, <2>1, Zenon DEF RunMessage, Owes, Waiting, caller
<1>16. CASE e.kind = "closed" /\ RunClosed
  <2>1. \A t \in Threads : InCore(t) => InCore(t)'
    BY <1>0, <1>16, Zenon DEF RunClosed, InCore, Cores
  <2> QED
    BY <1>16, <2>1, OwesStill, Zenon DEF RunClosed, Waiting
<1> QED
  BY <1>3, <1>4, <1>5, <1>6, <1>7, <1>8, <1>9, <1>11, <1>12, <1>13, <1>14, <1>15, <1>16, Zenon DEF Handles

-----------------------------------------------------------------------------
(* post() and shutdown().                                                  *)

-----------------------------------------------------------------------------
(* The count, as far as it is one.                                         *)

\* The threads counted are finitely many, as many as posting says.
LEMMA CountedFinite ==
    ASSUME CountFacts, PostingExact
    PROVE  IsFiniteSet(Counted) /\ Cardinality(Counted) \in Nat /\ Cardinality(Counted) = posting
<1>1. IsFiniteSet(Threads) /\ Counted \subseteq Threads
  BY ClientAssumption, Zenon DEF Counted
<1>2. IsFiniteSet(Counted)
  BY <1>1, Zenon DEF CountFacts, SubsetCount
<1> QED
  BY <1>2, Zenon DEF PostingExact, CountFacts, NumberCount

\* When posting is 0 none is counted, and none is about to push.
LEMMA CountedNone ==
    ASSUME CountFacts, PostingExact, posting = 0
    PROVE  Counted = {}
  BY CountedFinite, Zenon DEF CountFacts, EmptyCount

LEMMA CountedOff ==
    ASSUME CountFacts, PostingExact
    PROVE  CountsOff
<1> SUFFICES ASSUME NEW t \in Threads, at[t] = "uncount" PROVE posting - 1 \in Nat
  BY Zenon DEF CountsOff
<1>1. t \in Counted
  BY Zenon DEF Counted
<1>2. Cardinality(Counted) # 0
  BY <1>1, CountedFinite, Zenon DEF CountFacts, EmptyCount
<1> QED
  BY <1>2, CountedFinite

\* One more, or one less.
LEMMA CountedMore ==
    ASSUME CountFacts, PostingExact, NEW t, t \notin Counted
    PROVE  Cardinality(Counted \cup {t}) = posting + 1
  BY CountedFinite, Zenon DEF CountFacts, AddCount

LEMMA CountedLess ==
    ASSUME CountFacts, PostingExact, NEW t, t \in Counted
    PROVE  Cardinality(Counted \ {t}) = posting - 1
  BY CountedFinite, Zenon DEF CountFacts, RemoveCount

LEMMA CountedNobody == ASSUME CountFacts PROVE Cardinality({}) = 0
  BY Zenon DEF CountFacts, EmptyCount

-----------------------------------------------------------------------------
(* One leads the shutdown, and its command is the last.                    *)

\* Where a call leads: nowhere into a shutdown, to a push only while the
\* client was not stopped, and into and out of the count only by counting.
LEMMA CallsGo ==
    ASSUME Types, NEW t \in Threads, Calls(t)
    PROVE  /\ at'[t] \notin Leads /\ (at'[t] = "push" => ~stopped)
           /\ \/ posted' = posted /\ pending' = pending
              \/ /\ at[t] = "push" /\ at'[t] = "look" /\ UNCHANGED todo
                 /\ posted' = Append(posted, Entry(Op(t), t)) /\ pending' = TRUE
           /\ Count(t) \/ Uncount(t) \/ (posting' = posting /\ (t \in Counted <=> t \in Counted'))
<1> USE DEF caller, shared, inbox, Leads
<1>0. t \in Actors
  BY Zenon DEF Actors
<1>1. CASE Push(t)
  <2>1. at[t] = "push" /\ at'[t] = "look" /\ UNCHANGED <<todo, posting>>
    BY <1>0, <1>1, GoesAlone, Zenon DEF Push
  <2>2. posted' = Append(posted, Entry(Op(t), t)) /\ pending' = TRUE
    BY <1>1, Zenon DEF Push
  <2> QED
    BY <2>1, <2>2, Zenon DEF Counted
<1>2. CASE Count(t) \/ Uncount(t)
  BY <1>0, <1>2, GoesAlone DEF Count, Uncount
<1>3. CASE Begin(t)
  <2>1. at[t] = "idle" /\ \E place \in {"check", "swap", "recv"} : Goes(t, place)
    BY <1>3, Zenon DEF Begin
  <2>2. UNCHANGED <<posted, pending, posting>>
    BY <1>3, Zenon DEF Begin
  <2>3. at'[t] \in {"check", "swap", "recv"}
    BY <1>0, <2>1, GoesAlone, Zenon
  <2> QED
    BY <2>1, <2>2, <2>3, Zenon DEF Counted
<1>4. CASE Check(t) \/ Recheck(t)
  <2>1. /\ \/ at[t] = "check" /\ at'[t] \in {"posted", "count"}
           \/ at[t] = "recheck" /\ at'[t] \in {"uncount", "push"}
        /\ at'[t] = "push" => ~stopped
    BY <1>0, <1>4, GoesAlone DEF Check, Recheck
  <2>2. UNCHANGED <<posted, pending, posting>>
    BY <1>4, Zenon DEF Check, Recheck
  <2> QED
    BY <2>1, <2>2, Zenon DEF Counted
<1>5. CASE Look(t) \/ Wake(t) \/ Last(t)
  BY <1>0, <1>5, GoesAlone DEF Look, Wake, Last, Counted
<1>6. CASE Notify(t)
  BY <1>0, <1>6, Zenon DEF Notify, Counted
<1>7. CASE PostDone(t)
  <2>1. at[t] = "posted" /\ \E place \in {"wait", "idle", "recv"} : Goes(t, place)
    BY <1>7, Zenon DEF PostDone, Returns
  <2>2. UNCHANGED <<posted, pending, posting>>
    BY <1>7, Zenon DEF PostDone
  <2> QED
    BY <1>0, <2>1, <2>2, GoesAlone, Zenon DEF Counted
<1>8. CASE Wait(t) \/ Join(t) \/ Recv(t)
  <2>1. /\ at[t] \in {"wait", "join", "recv"}
        /\ \E place \in {"blocked", "join", "idle", "reading"} : Goes(t, place)
    BY <1>8, Zenon DEF Wait, Join, Recv, Returns
  <2>2. UNCHANGED <<posted, pending, posting>>
    BY <1>8, Zenon DEF Wait, Join, Recv
  <2> QED
    BY <1>0, <2>1, <2>2, GoesAlone, Zenon DEF Counted
<1> QED
  BY <1>1, <1>2, <1>3, <1>4, <1>5, <1>6, <1>7, <1>8, Zenon DEF Calls

\* Only a shutdown's own command joins the inbox in it.
LEMMA ShutsPush ==
    ASSUME Types, NEW x \in Actors, Shuts(x)
    PROVE  PushesShutdown(x) \/ (posted' = posted /\ pending' = pending)
  BY Zenon DEF Shuts, Swap, Lock, Counts, Sleeps, Wakes, AsksEnded, inbox

\* The queues' types alone, and what the io thread pulls.
LEMMA QueueTypes ==
    ASSUME Types
    PROVE  posted \in Seq(Commands) /\ ready \in Seq(Commands) /\ events \subseteq Happenings
  BY Zenon DEF Types

LEMMA EmptyFacts == Contents(<<>>) = {} /\ Behind(<<>>) /\ \A S : <<>> \in Seq(S)
  BY DEF Contents, Behind

LEMMA PullsFacts ==
    ASSUME IoPulls
    PROVE  /\ posted' = posted /\ core' = core
           /\ ready' = ready \/ \E e \in events : ready' = Append(ready, e)
  BY Zenon DEF IoPulls, inbox

\* The steps of the io thread that leave the queues and the phase alone.
LEMMA IoQuiet ==
    ASSUME Types, IoThread
    PROVE  \/ IoTop \/ IoTakes \/ IoPulls \/ IoRuns
           \/ UNCHANGED <<posted, ready>> /\ core'.phase = core.phase /\ core'.step = core.step
                 /\ core'.drain = core.drain
<1> USE DEF inbox
<1>1. CASE IoLeaves
  BY <1>1, CoreTypes, Zenon DEF IoLeaves, Cores
<1>2. CASE IoPass \/ IoFalls \/ IoAsks \/ IoWaits \/ IoAwake \/ IoAfter \/ IoEnds \/ IoTells
  BY <1>2, ZenonT(40) DEF IoPass, IoFalls, IoAsks, IoWaits, IoAwake, IoAfter, IoEnds, IoTells
<1> QED
  BY <1>1, <1>2, Zenon DEF IoThread

\* What the io thread runs is a shutdown only when one was pushed.
LEMMA RunsPhase ==
    ASSUME Types, Ordered, IoRuns
    PROVE  /\ Head(ready) \in Commands /\ ready # <<>> /\ Tail(ready) \in Seq(Commands)
           /\ \/ /\ Head(ready) = WriteOutStep /\ core.phase # "open"
                 /\ ready' = Append(Tail(ready), WriteOutStep) /\ UNCHANGED <<caller, at, core, posted, pending>>
              \/ /\ ready' = Tail(ready) /\ Handles(Head(ready))
                 /\ Opens(Head(ready).kind) /\ Calledback /\ Owes(Head(ready))
<1>1. Head(ready) \in Commands /\ ready # <<>> /\ Tail(ready) \in Seq(Commands)
  BY TailFacts, Zenon DEF IoRuns, Types
<1>2. Head(ready) \in Contents(ready)
  BY <1>1, ContentsTail, Zenon DEF Types
<1>3. core.phase = "open" => ~core.step /\ ~core.drain /\ Head(ready).kind # "writeout"
  BY <1>2, Zenon DEF Ordered, WritesOut
<1>4. WriteOutStep.kind = "writeout"
  BY Zenon DEF WriteOutStep, Entry
<1>5. CASE Handles(Head(ready)) /\ ready' = Tail(ready)
  BY <1>1, <1>3, <1>5, HandlesPhase, HandlesPosts, HandlesOwes, Zenon
<1>6. CASE Head(ready) = WriteOutStep /\ ready' = Append(Tail(ready), WriteOutStep)
             /\ UNCHANGED <<caller, at, core, stream, posted, pending>>
  BY <1>1, <1>3, <1>4, <1>6, Zenon
<1> QED
  BY <1>5, <1>6, Zenon DEF IoRuns

LEMMA SendHarmless == Entry("send", Io) \in Harmless /\ Entry("send", Io).kind = "send"
  BY Zenon DEF Harmless, Commands, Entries, Kinds, Ops, Waiting, Entry, Actors

\* The io thread pushes no shutdown.
LEMMA IoPushed ==
    ASSUME Types, Ordered, IoThread
    PROVE  UNCHANGED <<stopped, posting>> /\ (Pushed' => Pushed)
<1>1. UNCHANGED <<stopped, posting>>
  BY Zenon DEF IoThread, IoTop, IoPass, IoTakes, IoPulls, IoFalls, IoAsks, IoWaits, IoAwake, IoRuns, IoAfter, IoLeaves,
         IoEnds, IoTells, shared
<1>2. CASE IoTop
  <2>1. core'.phase = core.phase /\ posted' = posted
    BY <1>2, CoreTypes, Zenon DEF IoTop, Cores, inbox
  <2>2. Contents(ready') \subseteq Contents(ready) \cup {WriteOutStep}
    BY <1>2, ContentsAppend, Zenon DEF IoTop, Types
  <2> QED
    BY <1>1, <2>1, <2>2 DEF Pushed, Shut, WriteOutStep, Entry
<1>3. CASE IoTakes
  <2>1. core' = core /\ Contents(ready') = Contents(ready) \cup Contents(posted) /\ Contents(posted') = {}
    BY <1>3, QueueTypes, ContentsConcat, EmptyFacts DEF IoTakes
  <2> QED
    BY <1>1, <2>1, Zenon DEF Pushed, Shut
<1>4. CASE IoPulls
  <2>1. core' = core /\ posted' = posted
    BY <1>4, Zenon DEF IoPulls, inbox
  <2>2. Contents(ready') \subseteq Contents(ready) \cup Happenings
    <3>1. \A e \in events : Contents(Append(ready, e)) = Contents(ready) \cup {e} /\ e \in Happenings
      BY QueueTypes, ContentsAppend, Zenon
    <3> QED
      BY <1>4, <3>1, PullsFacts, Zenon
  <2>3. \A e \in Happenings : e.kind # "shutdown"
    BY Zenon DEF Happenings
  <2> QED
    BY <1>1, <2>1, <2>2, <2>3, Zenon DEF Pushed, Shut
<1>5. CASE IoRuns
  <2>0. Contents(ready) = Contents(Tail(ready)) \cup {Head(ready)}
    BY <1>5, ContentsTail, Zenon DEF IoRuns, Types
  <2>1. CASE Head(ready) = WriteOutStep /\ ready' = Append(Tail(ready), WriteOutStep) /\ UNCHANGED <<core, posted>>
    <3>1. Contents(ready') = Contents(ready)
      BY <1>5, <2>0, <2>1, RunsPhase, ContentsAppend, Zenon
    <3> QED
      BY <1>1, <2>1, <3>1, Zenon DEF Pushed, Shut
  <2>2. CASE ready' = Tail(ready) /\ Opens(Head(ready).kind) /\ Calledback
    <3>1. Contents(posted') \subseteq Contents(posted) \cup {Entry("send", Io)}
      BY <2>2, ContentsAppend, Zenon DEF Calledback, Types
    <3>2. Shut(posted') => Shut(posted)
      BY <3>1, SendHarmless, Zenon DEF Shut
    <3>3. Shut(ready') => Shut(ready)
      BY <2>0, <2>2, Zenon DEF Shut
    <3>4. core'.phase # "open" => Pushed
      BY <2>0, <2>2, Zenon DEF Opens, Pushed, Shut
    <3> QED
      BY <1>1, <3>2, <3>3, <3>4, Zenon DEF Pushed
  <2> QED
    BY <1>5, <2>1, <2>2, RunsPhase, Zenon
<1>6. CASE UNCHANGED <<posted, ready>> /\ core'.phase = core.phase
  BY <1>1, <1>6, Zenon DEF Pushed
<1> QED
  BY <1>2, <1>3, <1>4, <1>5, <1>6, IoQuiet, Zenon

LEMMA NextLeading ==
    ASSUME CountFacts, Types, Operating, PostingExact, Ordered, Leading, [Next]_vars
    PROVE  Leading'
<1>1. ASSUME NEW t \in Threads, Calls(t) PROVE Leading'
  <2>0. t \in Actors /\ stopped' = stopped /\ ready' = ready /\ core' = core
    BY <1>1, CallsAlone, Zenon DEF Actors
  <2>1. Shut(posted') => Shut(posted)
    <3>1. CASE posted' = posted
      BY <3>1, Zenon
    <3>2. CASE at[t] = "push" /\ posted' = Append(posted, Entry(Op(t), t))
      <4>1. Op(t) # "shutdown" /\ Entry(Op(t), t).kind = Op(t)
        BY <1>1, <3>2, Zenon DEF Operating, Operates, Posts, Waiting, Entry
      <4>2. Contents(posted') = Contents(posted) \cup {Entry(Op(t), t)}
        BY <3>2, QueueTypes, ContentsAppend, Zenon
      <4> QED
        BY <4>1, <4>2, Zenon DEF Shut
    <3> QED
      BY <1>1, <3>1, <3>2, CallsGo, Zenon
  <2>2. Pushed' => Pushed
    BY <2>0, <2>1, Zenon DEF Pushed
  <2>3. \A y \in Actors : at'[y] \in Leads => y # t /\ at[y] \in Leads /\ (at'[y] = "pushes" => at[y] = "pushes")
    BY <1>1, CallsGo, CallsAlone, Zenon DEF Leads
  <2>4. \A u \in Threads : at'[u] = "push" => at[u] = "push" \/ ~stopped
    BY <1>1, CallsGo, CallsAlone, Zenon DEF Actors
  <2>5. Pushed' \/ (\E x \in Actors : at'[x] = "pushes") => \A u \in Threads : at'[u] # "push"
    BY <2>2, <2>3, <2>4, Zenon DEF Leading, Leads
  <2> QED
    BY <2>0, <2>2, <2>3, <2>5, Zenon DEF Leading
<1>2. ASSUME NEW x \in Actors, Shuts(x) PROVE Leading'
  <2>0. /\ core' = core /\ ready' = ready
        /\ \A y \in Actors : y # x => at'[y] = at[y]
        /\ \A u \in Threads : at'[u] = "push" => at[u] = "push"
    BY <1>2, ShutsAlone, Zenon DEF Leads, Actors
  <2>1. CASE Swap(x)
    <3>0. Goes(x, IF stopped THEN "ended" ELSE "lock") /\ stopped' = TRUE /\ posted' = posted
      BY <2>1, Zenon DEF Swap, inbox
    <3>1. at'[x] = (IF stopped THEN "ended" ELSE "lock") /\ stopped' = TRUE /\ posted' = posted
      BY <3>0, GoesAlone, Zenon
    <3>2. Pushed' => Pushed
      BY <2>0, <3>1, Zenon DEF Pushed
    <3> QED
      BY <2>0, <3>1, <3>2, Zenon DEF Leading, Leads, Types
  <2>2. CASE Lock(x) \/ Sleeps(x)
    <3>1. at[x] \in Leads /\ at'[x] \in Leads \ {"pushes"} /\ stopped' = stopped /\ posted' = posted
      BY <2>2, GoesAlone DEF Lock, Sleeps, inbox, Leads
    <3>2. Pushed' => Pushed
      BY <2>0, <3>1, Zenon DEF Pushed
    <3> QED
      BY <2>0, <3>1, <3>2, Zenon DEF Leading
  <2>3. CASE Counts(x)
    <3>0. /\ at[x] = "counts" /\ Goes(x, IF posting = 0 THEN "pushes" ELSE "sleeps")
          /\ stopped' = stopped /\ posted' = posted
      BY <2>3, Zenon DEF Counts, inbox
    <3>1. /\ at[x] \in Leads /\ at'[x] \in Leads /\ (at'[x] = "pushes" => posting = 0)
          /\ stopped' = stopped /\ posted' = posted
      BY <3>0, GoesAlone DEF Leads
    <3>2. Pushed' => Pushed
      BY <2>0, <3>1, Zenon DEF Pushed
    <3>3. posting = 0 => \A u \in Threads : at[u] # "push"
      BY CountedNone, Zenon DEF Counted
    <3> QED
      BY <2>0, <3>1, <3>2, <3>3, Zenon DEF Leading
  <2>4. CASE PushesShutdown(x)
    <3>1. at[x] = "pushes" /\ at'[x] = "wakes" /\ stopped' = stopped
      BY <2>4, GoesAlone, Zenon DEF PushesShutdown, shared
    <3> QED
      BY <2>0, <3>1, Zenon DEF Leading, Leads
  <2>5. CASE Wakes(x) \/ AsksEnded(x)
    <3>1. at'[x] \in {"ended", "idle", "wait"} /\ stopped' = stopped /\ posted' = posted
      BY <2>5, GoesAlone, Zenon DEF Wakes, AsksEnded, inbox, shared
    <3>2. Pushed' => Pushed
      BY <2>0, <3>1, Zenon DEF Pushed
    <3> QED
      BY <2>0, <3>1, <3>2, Zenon DEF Leading, Leads
  <2> QED
    BY <1>2, <2>1, <2>2, <2>3, <2>4, <2>5, Zenon DEF Shuts
<1>3. CASE IoThread
  <2>1. \A y \in Actors : (at'[y] \in Leads \cup {"push"} => at'[y] = at[y])
    BY <1>3, IoNudges, Zenon DEF Nudged, Leads
  <2> QED
    BY <1>3, <2>1, IoPushed, Zenon DEF Leading, Actors, Leads
<1>4. CASE (\E t \in Threads : QueryEnds(t) \/ DeadlinePasses(t))
             \/ WriteEnds \/ ConnectionsClose \/ DrainDue \/ MessageArrives
  BY <1>4, ArrivesOnly, Zenon DEF Leading, Pushed
<1>5. CASE UNCHANGED vars
  BY <1>5, Zenon DEF vars, shared, inbox, driver, Leading, Pushed
<1> QED
  BY <1>1, <1>2, <1>3, <1>4, <1>5, Zenon DEF Next, Progress

LEMMA NextPostingExact ==
    ASSUME CountFacts, Types, PostingExact, [Next]_vars
    PROVE  PostingExact'
<1>1. ASSUME posting' = posting, \A t \in Threads : t \in Counted' <=> t \in Counted PROVE PostingExact'
  <2>1. Counted' = Counted
    BY <1>1, Zenon DEF Counted
  <2> QED
    BY <1>1, <2>1, Zenon DEF PostingExact
<1>2. ASSUME NEW t \in Threads, Calls(t) PROVE PostingExact'
  <2>1. \A u \in Threads : u # t => (u \in Counted' <=> u \in Counted)
    BY <1>2, CallsAlone, Zenon DEF Counted, Actors
  <2>2. CASE Count(t)
    <3>1. posting' = posting + 1 /\ t \notin Counted /\ t \in Counted'
      BY <2>2, GoesAlone, Zenon DEF Count, Counted, Actors
    <3>2. Counted' = Counted \cup {t}
      BY <2>1, <3>1, Zenon DEF Counted
    <3>3. Cardinality(Counted \cup {t}) = posting + 1
      BY <3>1, CountedMore, Zenon
    <3> QED
      BY <3>1, <3>2, <3>3, Zenon DEF PostingExact
  <2>3. CASE Uncount(t)
    <3>1. posting' = posting - 1 /\ t \in Counted /\ t \notin Counted'
      BY <2>3, GoesAlone DEF Uncount, Counted, Actors
    <3>2. Counted' = Counted \ {t}
      BY <2>1, <3>1, Zenon DEF Counted
    <3>3. Cardinality(Counted \ {t}) = posting - 1
      BY <3>1, CountedLess, Zenon
    <3> QED
      BY <3>1, <3>2, <3>3, Zenon DEF PostingExact
  <2>4. CASE posting' = posting /\ (t \in Counted <=> t \in Counted')
    BY <1>1, <2>1, <2>4, Zenon
  <2> QED
    BY <1>2, <2>2, <2>3, <2>4, CallsGo, Zenon
<1>3. ASSUME NEW x \in Actors, Shuts(x) PROVE PostingExact'
  <2>1. posting' = posting /\ \A t \in Threads : t \in Counted' <=> t \in Counted
    BY <1>3, ShutsAlone, Zenon DEF Counted, Leads, Actors
  <2> QED
    BY <1>1, <2>1, Zenon
<1>4. CASE IoThread
  <2>1. posting' = posting
    BY <1>4, Zenon DEF IoThread, IoTop, IoPass, IoTakes, IoPulls, IoFalls, IoAsks, IoWaits, IoAwake, IoRuns, IoAfter,
         IoLeaves, IoEnds, IoTells, shared
  <2>2. \A t \in Threads : t \in Counted' <=> t \in Counted
    BY <1>4, IoNudges, ClientAssumption, Zenon DEF Nudged, Counted, Actors
  <2> QED
    BY <1>1, <2>1, <2>2, Zenon
<1>5. CASE (\E t \in Threads : QueryEnds(t) \/ DeadlinePasses(t))
             \/ WriteEnds \/ ConnectionsClose \/ DrainDue \/ MessageArrives
  BY <1>1, <1>5, ArrivesOnly, Zenon DEF Counted
<1>6. CASE UNCHANGED vars
  BY <1>1, <1>6, Zenon DEF vars, shared, Counted
<1> QED
  BY <1>2, <1>3, <1>4, <1>5, <1>6, Zenon DEF Next, Progress

\* What is appended to a queue of harmless entries leaves it one.
LEMMA HarmlessAppend ==
    ASSUME NEW s \in Seq(Harmless), NEW e \in Harmless
    PROVE  Append(s, e) \in Seq(Harmless)
  BY AppendFacts, Zenon

LEMMA HarmlessTail ==
    ASSUME NEW s \in Seq(Harmless), s # <<>>
    PROVE  Tail(s) \in Seq(Harmless)
  BY TailFacts, Zenon

\* A command joins the inbox ahead of the shutdown, or as the shutdown.
LEMMA PushOrdered ==
    ASSUME Types, Ordered, ~Pushed, NEW e \in Commands, e.kind # "writeout",
           posted' = Append(posted, e), ready' = ready, core' = core
    PROVE  Ordered'
<1>1. ~Shut(posted) /\ ~Shut(ready) /\ core.phase = "open"
  BY Zenon DEF Pushed
<1>2. Behind(posted')
  BY <1>1, QueueTypes, BehindAppend, Zenon DEF Ordered
<1>3. Contents(posted') = Contents(posted) \cup {e}
  BY QueueTypes, ContentsAppend, Zenon
<1> QED
  BY <1>1, <1>2, <1>3, Zenon DEF Ordered, WritesOut

\* The io thread keeps the order.
LEMMA IoOrdered ==
    ASSUME Types, Ordered, IoThread
    PROVE  Ordered'
<1>0. WriteOutStep \in Harmless /\ Harmless \subseteq Commands /\ Happenings \subseteq Harmless
  BY HappeningsHarmless, Zenon DEF Harmless
<1>1. CASE IoTop
  <2>1. core'.phase = core.phase /\ ~core'.step /\ core'.drain = core.drain /\ posted' = posted
    BY <1>1, CoreTypes, Zenon DEF IoTop, Cores, inbox
  <2>2. CASE core.step
    <3>1. core.phase # "open" /\ ready' = Append(ready, WriteOutStep)
      BY <1>1, <2>2, Zenon DEF Ordered, IoTop
    <3>2. Behind(ready') /\ ready' \in Seq(Harmless)
      BY <1>0, <3>1, QueueTypes, BehindAppend, HarmlessAppend, Zenon DEF Ordered
    <3> QED
      BY <2>1, <3>1, <3>2, Zenon DEF Ordered
  <2>3. CASE ~core.step
    <3>1. ready' = ready
      BY <1>1, <2>3, Zenon DEF IoTop
    <3> QED
      BY <2>1, <3>1, Zenon DEF Ordered
  <2> QED
    BY <2>2, <2>3, Zenon
<1>2. CASE IoTakes
  <2>0. ready' = ready \o posted /\ posted' = <<>> /\ core' = core
    BY <1>2, Zenon DEF IoTakes
  <2>1. Behind(ready')
    BY <2>0, QueueTypes, BehindConcat, Zenon DEF Ordered
  <2>2. Behind(posted') /\ posted' \in Seq(Harmless) /\ ~WritesOut(posted')
    BY <2>0, EmptyFacts, Zenon DEF WritesOut
  <2>3. core.phase # "open" => ready' \in Seq(Harmless)
    BY <2>0, ConcatFacts, Zenon DEF Ordered
  <2>4. core.phase = "open" => ~WritesOut(ready')
    BY <2>0, QueueTypes, ContentsConcat DEF Ordered, WritesOut
  <2> QED
    BY <2>0, <2>1, <2>2, <2>3, <2>4, Zenon DEF Ordered
<1>3. CASE IoPulls
  <2>1. CASE ready' = ready
    BY <1>3, <2>1, PullsFacts, Zenon DEF Ordered
  <2>2. ASSUME NEW e \in events, ready' = Append(ready, e) PROVE Ordered'
    <3>1. e \in Harmless /\ e \in Commands /\ e.kind # "writeout" /\ e.kind # "shutdown"
      BY <1>0, <2>2, QueueTypes, Zenon DEF Happenings
    <3>2. Behind(ready')
      BY <2>2, <3>1, QueueTypes, BehindAppend, Zenon DEF Ordered
    <3>3. Contents(ready') = Contents(ready) \cup {e}
      BY <2>2, QueueTypes, ContentsAppend, Zenon
    <3>4. (Shut(ready') => Shut(ready)) /\ (WritesOut(ready') => WritesOut(ready))
      BY <3>1, <3>3, Zenon DEF Shut, WritesOut
    <3>5. core.phase # "open" => ready' \in Seq(Harmless)
      BY <2>2, <3>1, HarmlessAppend, Zenon DEF Ordered
    <3> QED
      BY <1>3, <3>2, <3>4, <3>5, PullsFacts, Zenon DEF Ordered
  <2> QED
    BY <1>3, <2>1, <2>2, PullsFacts, Zenon
<1>4. CASE IoRuns
  <2>0. /\ ready # <<>> /\ Head(ready) \in Commands /\ Tail(ready) \in Seq(Commands)
        /\ Contents(ready) = Contents(Tail(ready)) \cup {Head(ready)}
        /\ Behind(Tail(ready)) /\ (Head(ready).kind = "shutdown" => Tail(ready) \in Seq(Harmless))
    BY <1>4, RunsPhase, QueueTypes, ContentsTail, BehindTail, Zenon DEF Ordered
  <2>1. CASE /\ Head(ready) = WriteOutStep /\ core.phase # "open"
             /\ ready' = Append(Tail(ready), WriteOutStep) /\ UNCHANGED <<core, posted>>
    <3>1. Behind(ready')
      BY <1>0, <2>0, <2>1, BehindAppend, Zenon
    <3>2. ready' \in Seq(Harmless)
      BY <1>0, <2>0, <2>1, HarmlessTail, HarmlessAppend, Zenon DEF Ordered
    <3> QED
      BY <2>1, <3>1, <3>2, Zenon DEF Ordered
  <2>2. CASE ready' = Tail(ready) /\ Opens(Head(ready).kind) /\ Calledback
    <3>0. Entry("send", Io) \in Harmless /\ Entry("send", Io) \in Commands /\ Entry("send", Io).kind = "send"
      BY <1>0, SendHarmless, Zenon
    <3>1. Behind(posted')
      BY <2>2, <3>0, QueueTypes, BehindAppend, Zenon DEF Calledback, Ordered
    <3>2. posted \in Seq(Harmless) => posted' \in Seq(Harmless)
      BY <2>2, <3>0, HarmlessAppend, Zenon DEF Calledback
    <3>3. ~WritesOut(posted')
      <4>1. Contents(posted') \subseteq Contents(posted) \cup {Entry("send", Io)}
        BY <2>2, QueueTypes, ContentsAppend, Zenon DEF Calledback
      <4> QED
        BY <3>0, <4>1, Zenon DEF Ordered, WritesOut
    <3>4. Shut(ready') => Shut(ready)
      BY <2>0, <2>2, Zenon DEF Shut
    <3>5. core'.phase # "open" => ready' \in Seq(Harmless) /\ posted \in Seq(Harmless)
      <4>1. CASE core.phase # "open"
        BY <2>0, <2>2, <4>1, HarmlessTail, Zenon DEF Ordered
      <4>2. CASE Head(ready).kind = "shutdown"
        <5>1. Shut(ready)
          BY <2>0, <4>2, Zenon DEF Shut
        <5> QED
          BY <2>0, <2>2, <4>2, <5>1, Zenon DEF Ordered
      <4> QED
        BY <2>2, <4>1, <4>2, Zenon DEF Opens
    <3>6. core'.phase = "open" => ~core'.step /\ ~core'.drain /\ ~WritesOut(ready')
      BY <2>0, <2>2, Zenon DEF Opens, Ordered, WritesOut
    <3> QED
      BY <2>0, <2>2, <3>1, <3>2, <3>3, <3>4, <3>5, <3>6, Zenon DEF Ordered
  <2> QED
    BY <1>4, <2>1, <2>2, RunsPhase, Zenon
<1>5. CASE UNCHANGED <<posted, ready>> /\ core'.phase = core.phase /\ core'.step = core.step
                 /\ core'.drain = core.drain
  BY <1>5, Zenon DEF Ordered
<1> QED
  BY <1>1, <1>2, <1>3, <1>4, <1>5, IoQuiet, Zenon

LEMMA NextOrdered ==
    ASSUME Types, Operating, Leading, Ordered, [Next]_vars
    PROVE  Ordered'
<1>0. ASSUME UNCHANGED <<posted, ready, core>> PROVE Ordered'
  BY <1>0, Zenon DEF Ordered
<1>1. ASSUME NEW t \in Threads, Calls(t) PROVE Ordered'
  <2>1. CASE posted' = posted
    BY <1>0, <1>1, <2>1, CallsAlone, Zenon
  <2>2. CASE at[t] = "push" /\ posted' = Append(posted, Entry(Op(t), t))
    <3>1. Entry(Op(t), t) \in Commands /\ Entry(Op(t), t).kind # "writeout"
      BY <2>2, Zenon DEF Operating, Operates, Posts, Entry, Commands, Entries, Kinds, Ops, Waiting, Actors
    <3>2. ~Pushed
      BY <2>2, Zenon DEF Leading
    <3> QED
      BY <1>1, <2>2, <3>1, <3>2, CallsAlone, PushOrdered, ZenonT(40)
  <2> QED
    BY <1>1, <2>1, <2>2, CallsGo, Zenon
<1>2. ASSUME NEW x \in Actors, Shuts(x) PROVE Ordered'
  <2>1. CASE posted' = posted
    BY <1>0, <1>2, <2>1, ShutsAlone, Zenon
  <2>2. CASE PushesShutdown(x)
    <3>1. Entry("shutdown", x) \in Commands /\ Entry("shutdown", x).kind # "writeout"
      BY Zenon DEF Entry, Commands, Entries, Kinds, Ops, Waiting
    <3>2. ~Pushed /\ posted' = Append(posted, Entry("shutdown", x))
      BY <2>2, Zenon DEF Leading, PushesShutdown, Leads
    <3> QED
      BY <1>2, <3>1, <3>2, ShutsAlone, PushOrdered, Zenon
  <2> QED
    BY <1>2, <2>1, <2>2, ShutsPush, Zenon
<1>3. CASE IoThread
  BY <1>3, IoOrdered, Zenon
<1>4. CASE (\E t \in Threads : QueryEnds(t) \/ DeadlinePasses(t))
             \/ WriteEnds \/ ConnectionsClose \/ DrainDue \/ MessageArrives
  BY <1>0, <1>4, ArrivesOnly, Zenon
<1>5. CASE UNCHANGED vars
  BY <1>0, <1>5, Zenon DEF vars, inbox, driver
<1> QED
  BY <1>1, <1>2, <1>3, <1>4, <1>5, Zenon DEF Next, Progress

\* Once the shutdown ran, the io thread empties the inbox whenever it is
\* done with an entry, so that it ends with nothing queued.
LEMMA NextEmptied ==
    ASSUME Types, Leading, Wakeful, Ordered, Emptied, [Next]_vars
    PROVE  Emptied'
<1>0. ASSUME UNCHANGED <<posted, ready, core, io>> PROVE Emptied'
  BY <1>0, Zenon DEF Emptied
<1>1. ASSUME NEW t \in Threads, Calls(t) PROVE Emptied'
  <2>1. io' = io /\ core' = core /\ ready' = ready
    BY <1>1, CallsAlone, Zenon
  <2>2. core.phase # "open" => posted' = posted
    BY <1>1, CallsGo, Zenon DEF Leading, Pushed
  <2> QED
    BY <2>1, <2>2, Zenon DEF Emptied
<1>2. ASSUME NEW x \in Actors, Shuts(x) PROVE Emptied'
  <2>1. io' = io /\ core' = core /\ ready' = ready
    BY <1>2, ShutsAlone, Zenon
  <2>2. core.phase # "open" => posted' = posted
    BY <1>2, ShutsPush, Zenon DEF PushesShutdown, Leading, Leads, Pushed
  <2> QED
    BY <2>1, <2>2, Zenon DEF Emptied
<1>3. CASE IoTop
  <2>1. core'.phase = core.phase /\ posted' = posted
    BY <1>3, CoreTypes, Zenon DEF IoTop, Cores, inbox
  <2>2. io = "top" /\ io' = IF core.phase = "closed" /\ ready' = <<>> THEN "leaves" ELSE "head"
    BY <1>3, Zenon DEF IoTop
  <2> QED
    BY <2>1, <2>2, Zenon DEF Emptied, Ending
<1>4. CASE IoTakes
  BY <1>4, Zenon DEF IoTakes, Emptied, Ending
<1>5. CASE IoPulls
  <2>1. io = "pulls" /\ io' \in {"head", "top", "falls"}
    BY <1>5, Zenon DEF IoPulls
  <2> QED
    BY <1>5, <2>1, PullsFacts, Zenon DEF Emptied, Ending
<1>6. CASE IoRuns
  BY <1>6, Zenon DEF IoRuns, Emptied, Ending
<1>7. CASE IoAfter
  BY <1>7, Zenon DEF IoAfter, inbox, Emptied, Ending, Wakeful, PostWakes
<1>8. CASE IoLeaves \/ IoEnds \/ IoTells
  <2>1. UNCHANGED <<posted, ready>> /\ core'.phase = core.phase
    BY <1>8, CoreTypes, Zenon DEF IoLeaves, IoEnds, IoTells, inbox, Cores
  <2>2. io \in Ending /\ io \notin {"after", "afterTake"}
    BY <1>8, Zenon DEF IoLeaves, IoEnds, IoTells, Ending
  <2> QED
    BY <2>1, <2>2, Zenon DEF Emptied
<1>9. CASE IoPass \/ IoFalls \/ IoAsks \/ IoWaits \/ IoAwake
  BY <1>9, Zenon DEF IoPass, IoFalls, IoAsks, IoWaits, IoAwake, Emptied, Ending
<1>10. CASE (\E t \in Threads : QueryEnds(t) \/ DeadlinePasses(t))
             \/ WriteEnds \/ ConnectionsClose \/ DrainDue \/ MessageArrives
  BY <1>0, <1>10, ArrivesOnly, Zenon
<1>11. CASE UNCHANGED vars
  BY <1>0, <1>11, ZenonT(40) DEF vars, inbox, driver
<1> QED
  BY <1>1, <1>2, <1>3, <1>4, <1>5, <1>6, <1>7, <1>8, <1>9, <1>10, <1>11, Zenon DEF Next, Progress, IoThread

-----------------------------------------------------------------------------
(* The io thread is woken, and whoever waits is told.                      *)

\* Steps that leave alone the inbox and those about to wake the io thread.
LEMMA StillWakeful ==
    ASSUME Wakeful, UNCHANGED <<posted, pending, asleep, signal, io>>,
           \A y \in Actors : at[y] \in {"wake", "wakes", "look"} => at'[y] = at[y]
    PROVE  Wakeful'
  BY Zenon DEF Wakeful, PostWakes

LEMMA CallsWakeful ==
    ASSUME Types, Wakeful, NEW t \in Threads, Calls(t)
    PROVE  Wakeful'
<1> USE DEF inbox
<1>0. t \in Actors /\ io' = io /\ \A y \in Actors : y # t /\ at[y] \in {"wake", "wakes", "look"} => at'[y] = at[y]
  BY CallsAlone, Zenon DEF Actors
<1>1. CASE Push(t)
  <2>1. /\ at[t] = "push" /\ at'[t] = "look" /\ pending' = TRUE /\ UNCHANGED <<asleep, signal>>
    BY <1>0, <1>1, GoesAlone, Zenon DEF Push
  <2> QED
    BY <1>0, <2>1, Zenon DEF Wakeful, PostWakes
<1>2. CASE Look(t)
  <2>1. /\ at[t] = "look" /\ at'[t] = (IF asleep THEN "wake" ELSE "uncount") /\ asleep' = FALSE
        /\ UNCHANGED <<posted, pending, signal>>
    BY <1>0, <1>2, GoesAlone, ZenonT(40) DEF Look
  <2> QED
    BY <1>0, <2>1, Zenon DEF Wakeful, PostWakes
<1>3. CASE Wake(t)
  <2>1. signal' = TRUE /\ UNCHANGED <<posted, pending, asleep>>
    BY <1>3, Zenon DEF Wake
  <2> QED
    BY <2>1, Zenon DEF Wakeful, PostWakes
<1>4. CASE Begin(t) \/ Check(t) \/ Count(t) \/ Recheck(t) \/ Uncount(t) \/ Last(t) \/ Notify(t)
  <2>1. UNCHANGED <<posted, pending, asleep, signal>> /\ at[t] \notin {"wake", "wakes", "look"}
    BY <1>4, Zenon DEF Begin, Check, Count, Recheck, Uncount, Last, Notify
  <2> QED
    BY <1>0, <2>1, StillWakeful, Zenon
<1>5. CASE PostDone(t) \/ Wait(t) \/ Join(t) \/ Recv(t)
  <2>1. UNCHANGED <<posted, pending, asleep, signal>> /\ at[t] \notin {"wake", "wakes", "look"}
    BY <1>5, Zenon DEF PostDone, Wait, Join, Recv
  <2> QED
    BY <1>0, <2>1, StillWakeful, Zenon
<1> QED
  BY <1>1, <1>2, <1>3, <1>4, <1>5, Zenon DEF Calls

LEMMA NextWakeful ==
    ASSUME Types, Ordered, Wakeful, [Next]_vars
    PROVE  Wakeful'
<1> USE DEF inbox
<1>1. CASE \E t \in Threads : Calls(t)
  BY <1>1, CallsWakeful, Zenon
<1>2. ASSUME NEW x \in Actors, Shuts(x) PROVE Wakeful'
  <2>0. io' = io /\ \A y \in Actors : y # x => at'[y] = at[y]
    BY <1>2, ShutsAlone, Zenon
  <2>1. CASE PushesShutdown(x)
    <3>1. at'[x] = "wakes" /\ pending' = TRUE
      BY <2>1, GoesAlone, ZenonT(40) DEF PushesShutdown
    <3> QED
      BY <2>0, <3>1, Zenon DEF Wakeful, PostWakes
  <2>2. CASE Wakes(x)
    <3>1. signal' = TRUE /\ UNCHANGED <<posted, pending, asleep>>
      BY <2>2, Zenon DEF Wakes
    <3> QED
      BY <3>1, Zenon DEF Wakeful, PostWakes
  <2>3. CASE Swap(x) \/ Lock(x) \/ Counts(x) \/ Sleeps(x) \/ AsksEnded(x)
    <3>1. UNCHANGED <<posted, pending, asleep, signal>> /\ at[x] \notin {"wake", "wakes", "look"}
      BY <2>3, Zenon DEF Swap, Lock, Counts, Sleeps, AsksEnded
    <3> QED
      BY <2>0, <3>1, StillWakeful, Zenon
  <2> QED
    BY <1>2, <2>1, <2>2, <2>3, Zenon DEF Shuts
<1>3. ASSUME posted' # <<>> => pending', io' \notin {"asks", "waits"} PROVE Wakeful'
  BY <1>3, Zenon DEF Wakeful, PostWakes
<1>4. CASE IoTop \/ IoPass \/ IoTakes \/ IoAwake \/ IoAfter \/ IoLeaves \/ IoEnds \/ IoTells
  BY <1>3, <1>4, Zenon DEF IoTop, IoPass, IoTakes, IoAwake, IoAfter, IoLeaves, IoEnds, IoTells, Wakeful, PostWakes
<1>5. CASE IoPulls \/ IoWaits
  BY <1>3, <1>5, Zenon DEF IoPulls, IoWaits, Wakeful, PostWakes
<1>6. CASE IoRuns
  <2>1. (posted' = posted /\ pending' = pending) \/ pending' = TRUE
    BY <1>6, RunsPhase, Zenon DEF Calledback
  <2>2. io' = "after"
    BY <1>6, Zenon DEF IoRuns
  <2> QED
    BY <1>3, <2>1, <2>2, Zenon DEF Wakeful, PostWakes
<1>7. CASE IoFalls
  BY <1>7, Zenon DEF IoFalls, Wakeful, PostWakes
<1>8. CASE IoAsks
  BY <1>8, Zenon DEF IoAsks, Wakeful, PostWakes, Types
<1>9. CASE (\E t \in Threads : QueryEnds(t) \/ DeadlinePasses(t))
             \/ WriteEnds \/ ConnectionsClose \/ DrainDue \/ MessageArrives
  BY <1>9, ArrivesOnly, StillWakeful, Zenon
<1>10. CASE UNCHANGED vars
  BY <1>10, StillWakeful, Zenon DEF vars, driver
<1> QED
  BY <1>1, <1>2, <1>4, <1>5, <1>6, <1>7, <1>8, <1>9, <1>10, Zenon DEF Next, Progress, IoThread

\* What a thread is told, one thread at a time.
TellsTo(t) ==
    /\ Awaits(t) => Owed(t)
    /\ at[t] \in {"wait", "blocked"} /\ Op(t) \notin Waiting => t \in results \cup completers
    /\ at[t] = "blocked" => t \notin results

\* The posted commands stay queued when one joins them.
LEMMA PostedStay ==
    ASSUME Types, NEW e, posted' = posted \/ posted' = Append(posted, e)
    PROVE  Contents(posted) \subseteq Contents(posted')
  BY QueueTypes, ContentsAppend, Zenon

LEMMA CallsTold ==
    ASSUME Types, Operating, Told, NEW t \in Threads, Calls(t)
    PROVE  Told'
<1> USE DEF caller
<1>0. t \in Actors /\ core' = core /\ ready' = ready /\ completers' = completers
  BY CallsAlone, Zenon DEF Actors
<1>1. Contents(posted) \subseteq Contents(posted')
  BY CallsGo, PostedStay, ZenonT(40)
<1>2. ASSUME NEW u \in Threads, u # t PROVE TellsTo(u)'
  <2>1. /\ todo'[u] = todo[u] /\ (u \in refused' <=> u \in refused) /\ (u \in results' <=> u \in results)
        /\ at'[u] = at[u] \/ at'[u] = "lock"
    BY <1>2, CallsAlone, Zenon DEF Actors
  <2>2. InCore(u)' <=> InCore(u)
    BY <1>0, ZenonT(40) DEF InCore
  <2> QED
    BY <1>0, <1>1, <2>1, <2>2, Zenon DEF Told, TellsTo, Awaits, Owed, Op
<1> SUFFICES TellsTo(t)'
  BY <1>2, Zenon DEF Told, TellsTo
<1>3. ASSUME at'[t] \notin {"look", "wake", "uncount", "last", "notify", "posted", "wait", "blocked"}
      PROVE  TellsTo(t)'
  BY <1>3, Zenon DEF TellsTo, Awaits
<1>4. ASSUME at'[t] \in {"uncount", "last", "notify", "posted"}, t \in refused' PROVE TellsTo(t)'
  BY <1>4, Zenon DEF TellsTo, Awaits
<1>5. ASSUME at[t] \in {"look", "wake", "uncount", "last", "notify", "posted"}, UNCHANGED <<todo, results>>,
             at'[t] \in {"look", "wake", "uncount", "last", "notify", "posted", "wait"},
             t \in refused => t \in refused',
             at'[t] = "wait" => Op(t) \in Waiting
      PROVE  TellsTo(t)'
  <2>1. InCore(t)' <=> InCore(t)
    BY <1>0, Zenon DEF InCore
  <2> QED
    BY <1>0, <1>1, <1>5, <2>1, Zenon DEF Told, TellsTo, Awaits, Owed, Op
<1>6. CASE Begin(t) \/ Count(t)
  BY <1>0, <1>3, <1>6, GoesAlone DEF Begin, Count
<1>7. CASE Check(t) \/ Recheck(t)
  <2>1. at'[t] \in {"count", "push"} \/ (at'[t] \in {"posted", "uncount"} /\ t \in refused')
    BY <1>0, <1>7, GoesAlone, Zenon DEF Check, Recheck
  <2> QED
    BY <1>3, <1>4, <2>1, ZenonT(40)
<1>8. CASE Push(t)
  <2>1. at'[t] = "look" /\ todo' = todo /\ posted' = Append(posted, Entry(Op(t), t))
    BY <1>0, <1>8, GoesAlone, Zenon DEF Push
  <2>2. Entry(Op(t), t) \in Contents(posted')
    BY <2>1, QueueTypes, ContentsAppend
  <2> QED
    BY <2>1, <2>2, ZenonT(20) DEF TellsTo, Owed, Op
<1>9. CASE Look(t) \/ Wake(t) \/ Uncount(t) \/ Last(t)
  <2>1. /\ at[t] \in {"look", "wake", "uncount", "last", "notify", "posted"} /\ UNCHANGED <<todo, results, refused>>
        /\ \E place \in {"wake", "uncount", "last", "notify", "posted"} : Goes(t, place)
    BY <1>9, Zenon DEF Look, Wake, Uncount, Last
  <2> QED
    BY <1>0, <1>5, <2>1, GoesAlone, Zenon
<1>10. CASE Notify(t)
  <2>1. at[t] = "notify" /\ at'[t] = "posted" /\ UNCHANGED <<todo, results, refused>>
    BY <1>0, <1>10, ZenonT(40) DEF Notify, Types
  <2> QED
    BY <1>5, <2>1, Zenon
<1>11. CASE PostDone(t)
  <2>1. \/ /\ at[t] = "posted" /\ Goes(t, "wait") /\ UNCHANGED <<todo, results>>
           /\ t \notin refused /\ Op(t) \in Waiting
        \/ Goes(t, "idle") \/ Goes(t, "recv")
    BY <1>11, Zenon DEF PostDone, Returns
  <2> QED
    BY <1>0, <1>3, <1>5, <2>1, GoesAlone
<1>12. CASE Wait(t)
  <2>1. \/ /\ at[t] = "wait" /\ Goes(t, "blocked") /\ UNCHANGED <<todo, results, refused>> /\ t \notin results
        \/ Goes(t, "idle") \/ Goes(t, "join")
    BY <1>12, Zenon DEF Wait, Returns
  <2>2. InCore(t)' <=> InCore(t)
    BY <1>0, Zenon DEF InCore
  <2>3. CASE /\ at[t] = "wait" /\ Goes(t, "blocked") /\ UNCHANGED <<todo, results, refused>> /\ t \notin results
    <3>1. at'[t] = "blocked"
      BY <1>0, <2>3, GoesAlone, Zenon
    <3> QED
      BY <1>0, <1>1, <2>2, <2>3, <3>1, Zenon DEF Told, TellsTo, Awaits, Owed, Op
  <2> QED
    BY <1>0, <1>3, <2>1, <2>3, GoesAlone
<1>13. CASE Join(t) \/ Recv(t)
  <2>1. Goes(t, "idle") \/ Goes(t, "reading")
    BY <1>13, Zenon DEF Join, Recv, Returns
  <2> QED
    BY <1>0, <1>3, <2>1, GoesAlone
<1> QED
  BY <1>6, <1>7, <1>8, <1>9, <1>10, <1>11, <1>12, <1>13, Zenon DEF Calls

LEMMA ShutsTold ==
    ASSUME Types, Operating, Told, NEW x \in Actors, Shuts(x)
    PROVE  Told'
<1>0. /\ core' = core /\ ready' = ready /\ todo' = todo /\ refused' = refused
      /\ \A y \in Actors : y # x => at'[y] = at[y]
  BY ShutsAlone, Zenon
<1>1. Contents(posted) \subseteq Contents(posted')
  BY ShutsPush, PostedStay, ZenonT(40) DEF PushesShutdown
<1>2. /\ completers \subseteq completers' /\ results \subseteq results'
      /\ \A t \in Threads : t # x => (t \in results' => t \in results)
  BY Zenon DEF Shuts, Swap, Lock, Counts, Sleeps, PushesShutdown, Wakes, AsksEnded, caller, shared
<1>3. ASSUME NEW t \in Threads, t # x PROVE TellsTo(t)'
  <2>1. InCore(t)' <=> InCore(t)
    BY <1>0, Zenon DEF InCore
  <2>2. at'[t] = at[t]
    BY <1>0, <1>3, Zenon DEF Actors
  <2> QED
    BY <1>0, <1>1, <1>2, <2>1, <2>2, <1>3, Zenon DEF Told, TellsTo, Awaits, Owed, Op
<1>4. ASSUME x \in Threads PROVE TellsTo(x)'
  <2>1. CASE at'[x] \in Leads \cup {"wakes", "ended"}
    BY <2>1, Zenon DEF TellsTo, Awaits, Leads
  <2>2. CASE AsksEnded(x)
    <3>1. at[x] = "ended" /\ at'[x] = "wait" /\ x \in results' \cup completers'
      BY <1>4, <2>2, GoesAlone, ClientAssumption, Zenon DEF AsksEnded
    <3>2. Op(x) \notin Waiting /\ Op(x)' = Op(x)
      BY <1>0, <1>4, <3>1, Zenon DEF Operating, Operates, Op
    <3> QED
      BY <3>1, <3>2, Zenon DEF TellsTo, Awaits
  <2>3. AsksEnded(x) \/ at[x] # "ended"
    BY Zenon DEF Shuts, Swap, Lock, Counts, Sleeps, PushesShutdown, Wakes
  <2> QED
    BY <2>1, <2>2, <2>3, ShutsAlone, Zenon
<1> QED
  BY <1>3, <1>4, Zenon DEF Told, TellsTo

\* A step of the io thread that leaves whoever is owed owed.
LEMMA StillTold ==
    ASSUME Told, Nudged, todo' = todo, refused' = refused,
           \A t \in Threads : /\ t \in results => t \in results'
                              /\ t \in completers => t \in completers' \/ t \in results'
                              /\ at'[t] = "blocked" => (t \in results' => t \in results)
                              /\ Op(t) \in Waiting /\ Owed(t) => Owed(t)'
    PROVE  Told'
<1> SUFFICES ASSUME NEW t \in Threads PROVE TellsTo(t)'
  BY ZenonT(40) DEF Told, TellsTo
<1>1. /\ at'[t] \in {"look", "wake", "uncount", "last", "notify", "posted", "wait"} =>
            at[t] \in {"look", "wake", "uncount", "last", "notify", "posted", "wait", "blocked"}
      /\ at'[t] = "wait" => at[t] \in {"wait", "blocked"}
      /\ at'[t] = "blocked" => at[t] = "blocked"
  BY ClientAssumption, Zenon DEF Nudged, Actors
<1>2. Op(t)' = Op(t)
  BY Zenon DEF Op
<1>3. Awaits(t)' => Awaits(t)
  BY <1>1, <1>2, Zenon DEF Awaits
<1>4. Awaits(t)' => Owed(t)'
  BY <1>3, Zenon DEF Told, Awaits
<1>5. (at[t] \in {"wait", "blocked"} /\ Op(t) \notin Waiting => t \in results \cup completers)'
  BY <1>1, <1>2, ZenonT(40) DEF Told
<1>6. at'[t] = "blocked" => t \notin results'
  BY <1>1, Zenon DEF Told
<1> QED
  BY <1>4, <1>5, <1>6, Zenon DEF TellsTo

LEMMA IoTold ==
    ASSUME Types, Ordered, Told, IoThread
    PROVE  Told'
<1>0. Nudged /\ todo' = todo /\ refused' = refused
  BY IoNudges, Zenon
<1>1. ASSUME UNCHANGED <<results, at, completers, core>>,
             Contents(ready) \cup Contents(posted) \subseteq Contents(ready') \cup Contents(posted')
      PROVE  Told'
  <2>1. \A t \in Threads : Op(t)' = Op(t) /\ (InCore(t)' <=> InCore(t))
    BY <1>0, <1>1, Zenon DEF InCore, Op
  <2>2. \A t \in Threads : Owed(t) => Owed(t)'
    BY <1>1, <2>1, Zenon DEF Owed
  <2> QED
    BY <1>0, <1>1, <2>2, StillTold, Zenon
<1>2. CASE IoTop
  <2>1. /\ core'.queries = core.queries /\ core'.flushes = core.flushes /\ core'.follows = core.follows
        /\ UNCHANGED <<results, at, completers, posted>>
    BY <1>2, CoreTypes, Zenon DEF IoTop, Cores, caller, inbox
  <2>2. Contents(ready) \subseteq Contents(ready')
    BY <1>2, QueueTypes, ContentsAppend, Zenon DEF IoTop
  <2>3. \A t \in Threads : Op(t)' = Op(t) /\ (InCore(t)' <=> InCore(t))
    BY <1>0, <2>1, Zenon DEF InCore, Op
  <2>4. \A t \in Threads : Owed(t) => Owed(t)'
    BY <2>1, <2>2, <2>3, Zenon DEF Owed
  <2> QED
    BY <1>0, <2>1, <2>4, StillTold, Zenon
<1>3. CASE IoTakes
  <2>1. Contents(ready') = Contents(ready) \cup Contents(posted)
    BY <1>3, QueueTypes, ContentsConcat, ZenonT(40) DEF IoTakes
  <2> QED
    BY <1>1, <1>3, <2>1, Zenon DEF IoTakes, caller, shared
<1>4. CASE IoPulls
  <2>1. \A e \in events : Contents(Append(ready, e)) = Contents(ready) \cup {e}
    BY QueueTypes, ContentsAppend, Zenon
  <2>2. Contents(ready) \subseteq Contents(ready') /\ posted' = posted
    BY <1>4, <2>1, PullsFacts, Zenon
  <2>3. UNCHANGED <<results, at, completers, core>>
    BY <1>4, Zenon DEF IoPulls, caller, shared
  <2> QED
    BY <1>1, <2>2, <2>3, Zenon
<1>5. CASE IoRuns
  <2>0. /\ Contents(ready) = Contents(Tail(ready)) \cup {Head(ready)} /\ completers' = completers
        /\ ready # <<>> /\ Tail(ready) \in Seq(Commands)
    BY <1>5, RunsPhase, QueueTypes, ContentsTail, Zenon DEF IoRuns, shared
  <2>1. CASE /\ Head(ready) = WriteOutStep /\ ready' = Append(Tail(ready), WriteOutStep)
             /\ UNCHANGED <<caller, at, core, posted>>
    <3>1. Contents(ready') = Contents(ready)
      BY <2>0, <2>1, ContentsAppend, ZenonT(40)
    <3> QED
      BY <1>1, <2>0, <2>1, <3>1, Zenon DEF caller
  <2>2. CASE ready' = Tail(ready) /\ Calledback /\ Owes(Head(ready))
    <3>1. Contents(posted) \subseteq Contents(posted')
      BY <2>2, PostedStay, Zenon DEF Calledback
    <3>2. ASSUME NEW t \in Threads, Op(t) \in Waiting, Owed(t) PROVE Owed(t)'
      <4>1. Op(t)' = Op(t)
        BY <1>0, Zenon DEF Op
      <4>2. CASE t \in results \/ InCore(t)
        BY <2>2, <4>2, Zenon DEF Owes, Owed
      <4>3. CASE Entry(Op(t), t) = Head(ready)
        <5>1. Head(ready).kind \in Waiting /\ Head(ready).by = t
          BY <3>2, <4>3 DEF Entry
        <5> QED
          BY <2>2, <5>1, ZenonT(40) DEF Owes, Owed
      <4>4. CASE Entry(Op(t), t) \in Contents(Tail(ready)) \cup Contents(posted)
        BY <2>2, <3>1, <4>1, <4>4, Zenon DEF Owed
      <4> QED
        BY <2>0, <3>2, <4>2, <4>3, <4>4, Zenon DEF Owed
    <3> QED
      BY <1>0, <2>0, <2>2, <3>2, StillTold, Zenon DEF Owes
  <2> QED
    BY <1>5, <2>1, <2>2, RunsPhase, Zenon
<1>6. ASSUME NEW S, Hands(S, {}), UNCHANGED <<posted, ready>>,
             \A t \in Threads : /\ InCore(t) => t \in S \/ InCore(t)'
                                /\ t \in completers => t \in completers' \/ t \in S
      PROVE  Told'
  <2>1. /\ results' = results \cup S
        /\ \A t \in Threads : at'[t] = "blocked" => (t \in results' => t \in results)
    BY <1>6, HandsTold, Zenon
  <2>2. \A t \in Threads : Owed(t) => Owed(t)'
    BY <1>0, <1>6, <2>1, Zenon DEF Owed, Op
  <2> QED
    BY <1>0, <1>6, <2>1, <2>2, StillTold, Zenon
<1>7. CASE IoLeaves
  BY <1>6, <1>7, Zenon DEF IoLeaves, InCore, shared, inbox
<1>8. CASE IoTells
  <2>1. \A t \in Threads : t # Io
    BY ClientAssumption, ZenonT(40)
  <2>2. \A t \in Threads : InCore(t)' <=> InCore(t)
    BY <1>8, Zenon DEF IoTells, InCore
  <2>3. Hands(completers \ {Io}, {}) /\ UNCHANGED <<posted, ready>>
    BY <1>8, Zenon DEF IoTells, inbox
  <2> QED
    BY <1>6, <2>1, <2>2, <2>3, Zenon
<1>9. CASE IoPass \/ IoFalls \/ IoAsks \/ IoWaits \/ IoAwake \/ IoAfter \/ IoEnds
  <2>1. UNCHANGED <<results, at, completers, core, ready, posted>>
    BY <1>9, Zenon DEF IoPass, IoFalls, IoAsks, IoWaits, IoAwake, IoAfter, IoEnds, caller, shared, inbox
  <2> QED
    BY <1>1, <2>1, ZenonT(40)
<1> QED
  BY <1>2, <1>3, <1>4, <1>5, <1>7, <1>8, <1>9, Zenon DEF IoThread

LEMMA NextTold ==
    ASSUME Types, Operating, Ordered, Told, [Next]_vars
    PROVE  Told'
<1>0. ASSUME UNCHANGED <<todo, refused, results, at, completers, core, ready, posted>> PROVE Told'
  BY <1>0, Zenon DEF Told, Awaits, Owed, InCore, Op
<1>1. CASE \E t \in Threads : Calls(t)
  BY <1>1, CallsTold, Zenon
<1>2. CASE \E x \in Actors : Shuts(x)
  BY <1>2, ShutsTold, Zenon
<1>3. CASE IoThread
  BY <1>3, IoTold, Zenon
<1>4. CASE (\E t \in Threads : QueryEnds(t) \/ DeadlinePasses(t))
             \/ WriteEnds \/ ConnectionsClose \/ DrainDue \/ MessageArrives
  BY <1>0, <1>4, ArrivesOnly, Zenon
<1>5. CASE UNCHANGED vars
  BY <1>0, <1>5, Zenon DEF vars, caller, shared, inbox, driver
<1> QED
  BY <1>1, <1>2, <1>3, <1>4, <1>5, Zenon DEF Next, Progress

-----------------------------------------------------------------------------
(* The invariant, whole.                                                   *)

LEMMA InitIInv == ASSUME CountFacts, Init PROVE IInv
<1>0. Contents(ready) = {} /\ Contents(posted) = {} /\ Behind(ready) /\ Behind(posted)
  BY EmptyFacts, Zenon DEF Init
<1>1. Types
  <2>a. core = [phase |-> "open", queries |-> {}, flushes |-> {}, follows |-> {}, sent |-> 0, written |-> 0,
                upto |-> 0, drain |-> FALSE, step |-> FALSE]
    BY Zenon DEF Init
  <2>b. stream = [made |-> FALSE, maker |-> None, registered |-> FALSE, closed |-> FALSE, held |-> 0]
    BY Zenon DEF Init
  <2>c. program \in Programs /\ todo = program.ops /\ arrived = 0 /\ lifecycle = None
    BY Zenon DEF Init
  <2>d. at = [x \in Actors |-> "idle"] /\ posted = <<>> /\ ready = <<>>
    BY Zenon DEF Init
  <2>1. core \in Cores /\ core.written <= core.sent /\ core.upto <= core.sent
    BY <2>a DEF Cores, Phases
  <2>2. stream \in Streams
    BY <2>b, ClientAssumption DEF Streams
  <2>3. todo \in [Threads -> Seq(Ops)] /\ arrived \in 0 .. program.messages /\ lifecycle \in Actors \cup {None}
    BY <2>c, ClientAssumption
  <2>4. at \in [Actors -> Places] /\ posted \in Seq(Commands) /\ ready \in Seq(Commands)
    BY <2>d DEF Places
  <2> QED
    BY <2>1, <2>2, <2>3, <2>4, Zenon DEF Init, Types
<1>2. \A x \in Actors : at[x] = "idle"
  BY Zenon DEF Init
<1>3. Operating
  BY <1>2, Zenon DEF Init, Operating, Operates, Actors, Posts, Leads
<1>4. Leading
  BY <1>0, <1>2, Zenon DEF Init, Leading, Leads, Pushed, Shut, Actors
<1>5. PostingExact
  <2>1. Counted = {}
    BY <1>2, Zenon DEF Counted, Actors
  <2> QED
    BY <2>1, CountedNobody, Zenon DEF Init, PostingExact
<1>6. Ordered
  BY <1>0, Zenon DEF Init, Ordered, Shut, WritesOut
<1>7. Emptied /\ Wakeful
  BY Zenon DEF Init, Emptied, Ending, Wakeful, PostWakes
<1>8. Told
  BY <1>2, Zenon DEF Told, Awaits, Actors
<1> QED
  BY <1>1, <1>3, <1>4, <1>5, <1>6, <1>7, <1>8, Zenon DEF IInv

LEMMA NextIInv == ASSUME CountFacts, IInv, [Next]_vars PROVE IInv'
  BY NextTypes, NextOperating, NextLeading, NextPostingExact, NextOrdered, NextEmptied, NextWakeful, NextTold,
     CountedOff, Zenon DEF IInv

LEMMA IInvNoPostLost == IInv => NoPostLost
<1> SUFFICES ASSUME IInv PROVE NoPostLost
  BY Zenon
<1> USE DEF IInv
<1>1. ClientTypeOK
  <2>1. \A S : S \in {posted, ready} => S \in Seq(Entries)
    <3>1. Commands \subseteq Entries
      BY Zenon DEF Commands
    <3> QED
      BY <3>1, QueueTypes, Elements, Zenon
  <2>2. events \subseteq Entries
    BY QueueTypes, Zenon DEF Happenings, Entries, Kinds
  <2>3. core.queries \subseteq Threads /\ core.written \in 0 .. core.sent /\ core.upto <= core.sent
    BY CoreTypes DEF Cores
  <2>4. stream.held \in 0 .. Capacity
    BY Zenon DEF Types, Streams
  <2> QED
    BY <2>1, <2>2, <2>3, <2>4, Zenon DEF Types, ClientTypeOK
<1>2. \A i \in DOMAIN Queued : Queued[i] \in Contents(ready) \cup Contents(posted)
  <2>1. Contents(Queued) = Contents(ready) \cup Contents(posted)
    BY QueueTypes, ContentsConcat, ZenonT(40) DEF Queued
  <2> QED
    BY <2>1, Zenon DEF Contents
<1>3. NothingBehindShutdown
  <2>1. Behind(Queued)
    BY QueueTypes, BehindConcat, Zenon DEF Queued, Ordered
  <2>2. core.phase # "open" => Contents(ready) \cup Contents(posted) \subseteq Harmless
    BY QueueTypes, Elements, Zenon DEF Ordered
  <2> QED
    BY <1>2, <2>1, <2>2, Zenon DEF NothingBehindShutdown, Behind, Harmless
<1>4. NobodyForgotten
  <2>1. ASSUME NEW e, e \in Contents(ready) \cup Contents(posted) PROVE \E i \in DOMAIN Queued : Queued[i] = e
    <3>1. Contents(Queued) = Contents(ready) \cup Contents(posted)
      BY QueueTypes, ContentsConcat DEF Queued
    <3> QED
      BY <2>1, <3>1, Zenon DEF Contents
  <2>2. \A t \in Threads : at[t] \in {"wait", "blocked"} /\ t \in refused => FALSE
    BY Zenon DEF Operating, Operates
  <2> SUFFICES ASSUME NEW t \in Threads
               PROVE  /\ at[t] \in {"wait", "blocked"} =>
                           \/ t \in results \cup completers \cup core.queries \cup By(core.flushes \cup core.follows)
                           \/ \E i \in DOMAIN Queued : Queued[i] = Entry(Op(t), t)
                      /\ at[t] = "blocked" => t \notin results
    BY Zenon DEF NobodyForgotten
  <2>3. CASE Op(t) \in Waiting
    BY <2>1, <2>2, <2>3, Zenon DEF Told, Awaits, Owed, InCore
  <2>4. CASE Op(t) \notin Waiting
    BY <2>4, Zenon DEF Told
  <2> QED
    BY <2>3, <2>4, Zenon
<1>5. io \in {"leaves", "ends", "tells", "gone"} => ready = <<>> /\ posted = <<>>
  BY Zenon DEF Emptied, Ending
<1> QED
  BY <1>1, <1>3, <1>4, <1>5, Zenon DEF NoPostLost, PostingExact, Wakeful

-----------------------------------------------------------------------------
(* The stream.                                                             *)

\* The stream messages() reads.  A thread that posts a `read' is the one who
\* makes it, and nobody reads one that is not made.
Making ==
    \A t \in Threads :
        /\ at[t] \in Posts /\ Op(t) = "read" => stream.maker = t /\ ~stream.made
        /\ at[t] \in {"recv", "reading"} => stream.made

\* It has been posted, and its command is in a queue, or has run.
Bound(t) == at[t] \in {"look", "wake", "uncount", "last", "notify", "posted"} /\ Op(t) = "read" /\ t \notin refused
Queues == Contents(ready) \cup Contents(posted)
Given == stream.registered \/ stream.closed \/ \E e \in Queues : e.kind = "read"
Registering ==
    /\ stream.made => Given
    /\ \A t \in Threads : Bound(t) => Given
    /\ TornDown /\ stream.registered => stream.closed

\* Whoever waits for a message has reason to.
Looking == {t \in Threads : at[t] = "recv"}
Drowsing(t) == at[t] = "reading" => ~stream.closed /\ stream.held <= Cardinality(Looking)

Listening == Making /\ Registering /\ \A t \in Threads : Drowsing(t)

\* What a handler of the given kind does to the stream: one that registers
\* it does, or closes it; closing it leaves nobody asleep over it; and what
\* joins it wakes one who is.
Streamed(kind) ==
    /\ stream'.made = stream.made /\ stream'.maker = stream.maker
    /\ stream.closed => stream'.closed
    /\ stream.registered \/ kind = "read" => stream'.registered \/ stream'.closed
    /\ TornDown' /\ stream'.registered => stream'.closed
    /\ stream'.closed => stream.closed \/ \A t \in Threads : at'[t] # "reading"
    /\ \/ stream'.held = stream.held
       \/ \E t \in Threads : at[t] = "reading" /\ at'[t] = "recv" /\ stream'.held = stream.held + 1
       \/ \A t \in Threads : at'[t] # "reading"

LEMMA StreamLeft ==
    ASSUME Registering, NEW kind, kind # "read", stream' = stream, TornDown' => TornDown
    PROVE  Streamed(kind)
  BY Zenon DEF Registering, Streamed

LEMMA StreamType ==
    ASSUME Types
    PROVE  stream \in Streams /\ Capacity \in Nat /\ stream.held \in Nat
  BY ClientAssumption DEF Types, Streams

LEMMA TeardownStreamed ==
    ASSUME Types, NEW c \in Cores, NEW S, Teardown(c, S), NEW kind, kind # "read"
    PROVE  Streamed(kind)
<1>1. stream' = [stream EXCEPT !.closed = @ \/ stream.registered]
  BY Zenon DEF Teardown
<1>2. /\ stream'.made = stream.made /\ stream'.maker = stream.maker /\ stream'.registered = stream.registered
      /\ stream'.held = stream.held /\ stream'.closed = (stream.closed \/ stream.registered)
  BY <1>1, StreamType, Zenon DEF Streams
<1>3. stream.registered => \A t \in Threads : at'[t] # "reading"
  <2>1. Hands(S \cup By(c.flushes), IF stream.registered THEN Threads ELSE {})
    BY Zenon DEF Teardown
  <2> QED
    BY <2>1, Zenon DEF Hands, Actors, Types
<1> QED
  BY <1>2, <1>3, Zenon DEF Streamed

LEMMA ReadStreamed ==
    ASSUME Types, NEW t \in Actors, RunRead(t)
    PROVE  Streamed("read")
<1>1. /\ stream'.made = stream.made /\ stream'.maker = stream.maker /\ stream'.registered = ~TornDown
      /\ stream'.held = stream.held /\ stream'.closed = (stream.closed \/ TornDown)
  BY StreamType, Zenon DEF RunRead, Streams
<1>2. TornDown => \A u \in Threads : at'[u] # "reading"
  BY Zenon DEF RunRead, Hands, Actors, Types
<1>3. TornDown' <=> TornDown
  BY Zenon DEF RunRead, TornDown
<1> QED
  BY <1>1, <1>2, <1>3, Zenon DEF Streamed

LEMMA MessageStreamed ==
    ASSUME Types, Registering, RunMessage
    PROVE  Streamed("message")
<1> DEFINE taken == stream.registered /\ ~stream.closed
           readers == {t \in Threads : at[t] = "reading"}
<1>0. core' = core
  BY Zenon DEF RunMessage
<1>1. PICK R \in IF taken /\ readers # {} THEN {{t} : t \in readers} ELSE {{}} :
             at' = [x \in Actors |-> IF x \in R THEN "recv"
                                     ELSE IF x = Io /\ program.callback = "shutdown" THEN "swap" ELSE at[x]]
  BY Zenon DEF RunMessage
<1>2. stream' = IF taken /\ stream.held < Capacity THEN [stream EXCEPT !.held = @ + 1] ELSE stream
  BY Zenon DEF RunMessage
<1>3. CASE stream' = stream
  BY <1>0, <1>3, StreamLeft, Zenon DEF TornDown
<1>4. CASE taken /\ stream' = [stream EXCEPT !.held = @ + 1]
  <2>1. /\ stream'.made = stream.made /\ stream'.maker = stream.maker /\ stream'.registered = stream.registered
        /\ stream'.held = stream.held + 1 /\ stream'.closed = stream.closed
    BY <1>4, StreamType, Zenon DEF Streams
  <2>2. \/ \E t \in Threads : at[t] = "reading" /\ at'[t] = "recv"
        \/ \A t \in Threads : at'[t] # "reading"
    <3>1. CASE readers = {}
      <4>1. \A t \in Threads : at[t] # "reading" /\ t \in Actors
        BY <3>1, Zenon DEF Actors
      <4> QED
        BY <1>1, <4>1, Zenon
    <3>2. CASE readers # {}
      <4>1. PICK t \in readers : R = {t}
        BY <1>1, <1>4, <3>2, Zenon
      <4>2. t \in Threads /\ t \in Actors /\ at[t] = "reading"
        BY <4>1, Zenon DEF Actors
      <4>3. at'[t] = "recv"
        BY <1>1, <4>1, <4>2, Zenon
      <4> QED
        BY <4>2, <4>3, Zenon
    <3> QED
      BY <3>1, <3>2, Zenon
  <2>3. TornDown' <=> TornDown
    BY <1>0, Zenon DEF TornDown
  <2> QED
    BY <2>1, <2>2, <2>3, Zenon DEF Registering, Streamed
<1> QED
  BY <1>2, <1>3, <1>4, Zenon

LEMMA HandlesStreamed ==
    ASSUME Types, Registering, NEW e \in Commands, Handles(e)
    PROVE  Streamed(e.kind)
<1>0. core \in Cores /\ e.by \in Actors
  BY CoreTypes, Zenon DEF Commands, Entries
<1>1. ASSUME stream' = stream, core'.phase = core.phase, e.kind # "read" PROVE Streamed(e.kind)
  BY <1>1, StreamLeft, Zenon DEF TornDown
<1>2. ASSUME stream' = stream, core'.phase = "writing", e.kind # "read" PROVE Streamed(e.kind)
  <2>1. ~TornDown'
    BY <1>2, Zenon DEF TornDown
  <2> QED
    BY <1>2, <2>1, StreamLeft, Zenon
<1>3. ASSUME NEW c \in Cores PROVE WriteOut(c).phase = "writing"
  BY Zenon DEF WriteOut, Cores
<1>4. CASE e.kind = "read" /\ RunRead(e.by)
  BY <1>0, <1>4, ReadStreamed, Zenon
<1>5. CASE e.kind = "message" /\ RunMessage
  BY <1>5, MessageStreamed, Zenon
<1>6. CASE e.kind = "send" /\ RunSend(e.by)
  <2>1. stream' = stream /\ core'.phase = core.phase
    BY <1>0, <1>6, Zenon DEF RunSend, Cores
  <2> QED
    BY <1>1, <1>6, <2>1, Zenon
<1>7. CASE e.kind = "write" /\ RunWrite(e.by)
  <2>1. stream' = stream /\ core'.phase = core.phase
    BY <1>0, <1>7, Zenon DEF RunWrite, Cores
  <2> QED
    BY <1>1, <1>7, <2>1, Zenon
<1>8. CASE e.kind = "call" /\ RunCall(e.by)
  BY <1>1, <1>8, Zenon DEF RunCall
<1>9. CASE e.kind = "query" /\ RunQuery(e.by)
  <2>1. stream' = stream /\ core'.phase = core.phase
    BY <1>0, <1>9, Zenon DEF RunQuery, Cores
  <2> QED
    BY <1>1, <1>9, <2>1, Zenon
<1>10. CASE e.kind = "flush" /\ RunFlush(e.by)
  <2>1. stream' = stream /\ core'.phase = core.phase
    BY <1>0, <1>10, Zenon DEF RunFlush, Cores
  <2> QED
    BY <1>1, <1>10, <2>1, Zenon
<1>11. CASE e.kind = "shutdown" /\ RunShutdown(e.by)
  <2>1. [core EXCEPT !.queries = {}] \in Cores
    BY <1>0, Zenon DEF Cores
  <2>2. \/ Teardown([core EXCEPT !.queries = {}], core.queries)
        \/ core' = WriteOut([core EXCEPT !.queries = {}]) /\ stream' = stream
    BY <1>11, Zenon DEF RunShutdown
  <2> QED
    BY <1>2, <1>3, <1>11, <2>1, <2>2, TeardownStreamed, Zenon
<1>12. CASE e.kind = "writeout" /\ RunWriteOut
  <2>1. \/ Teardown(core, {})
        \/ (core' = core \/ core' = WriteOut(core)) /\ stream' = stream
    BY <1>12, Zenon DEF RunWriteOut
  <2> QED
    BY <1>0, <1>1, <1>2, <1>3, <1>12, <2>1, TeardownStreamed, Zenon
<1>13. CASE e.kind = "due" /\ RunDue(e.by)
  <2>1. stream' = stream /\ core'.phase = core.phase
    BY <1>0, <1>13, Zenon DEF RunDue, Cores
  <2> QED
    BY <1>1, <1>13, <2>1, Zenon
<1>14. CASE e.kind = "written" /\ RunWritten
  <2>1. stream' = stream
    BY <1>14, Zenon DEF RunWritten
  <2> DEFINE c == [core EXCEPT !.written = IF @ < core.sent THEN @ + 1 ELSE @]
             over == c.drain /\ c.upto <= c.written
  <2>2. c \in Cores /\ c.phase = core.phase
    BY <1>0 DEF Cores
  <2>3. core' = [c EXCEPT !.flushes = @ \ Ended(c.flushes, c.written), !.follows = @ \ Ended(c.follows, c.written),
                          !.drain = @ /\ ~over, !.step = @ \/ over]
    BY <1>14, Zenon DEF RunWritten
  <2> HIDE DEF c, over
  <2>4. core'.phase = core.phase
    BY <2>2, <2>3, Zenon DEF Cores
  <2> QED
    BY <1>1, <1>14, <2>1, <2>4, Zenon
<1>15. CASE e.kind = "drain" /\ RunDrain
  <2>1. Teardown(core, {}) \/ (core' = core /\ stream' = stream)
    BY <1>15, Zenon DEF RunDrain
  <2> QED
    BY <1>0, <1>1, <1>15, <2>1, TeardownStreamed, Zenon
<1>16. CASE e.kind = "closed" /\ RunClosed
  <2>1. stream' = stream
    BY <1>16, Zenon DEF RunClosed
  <2>2. TornDown' => TornDown
    BY <1>0, <1>16, Zenon DEF RunClosed, TornDown, Cores
  <2> QED
    BY <1>16, <2>1, <2>2, StreamLeft, Zenon
<1> QED
  BY <1>4, <1>5, <1>6, <1>7, <1>8, <1>9, <1>10, <1>11, <1>12, <1>13, <1>14, <1>15, <1>16, Zenon DEF Handles

\* A step of the io thread runs one command at most, and the others stay.
LEMMA IoStreamed ==
    ASSUME Types, Ordered, Registering, IoThread
    PROVE  \E kind : Streamed(kind) /\ \A e \in Queues : e \in Queues' \/ e.kind = kind
<1>0. ASSUME stream' = stream, core'.phase = core.phase, Queues \subseteq Queues'
      PROVE  \E kind : Streamed(kind) /\ \A e \in Queues : e \in Queues' \/ e.kind = kind
  <2>1. Streamed("none")
    BY <1>0, StreamLeft, Zenon DEF TornDown
  <2> QED
    BY <1>0, <2>1, Zenon
<1>1. CASE IoTop
  <2>1. core'.phase = core.phase /\ stream' = stream /\ posted' = posted
    BY <1>1, CoreTypes, Zenon DEF IoTop, Cores, inbox
  <2>2. Contents(ready) \subseteq Contents(ready')
    BY <1>1, QueueTypes, ContentsAppend, Zenon DEF IoTop
  <2> QED
    BY <1>0, <2>1, <2>2, Zenon DEF Queues
<1>2. CASE IoTakes
  <2>1. Contents(ready') = Contents(ready) \cup Contents(posted)
    BY <1>2, QueueTypes, ContentsConcat, ZenonT(20) DEF IoTakes
  <2> QED
    BY <1>0, <1>2, <2>1, Zenon DEF IoTakes, Queues
<1>3. CASE IoPulls
  <2>1. \A e \in events : Contents(Append(ready, e)) = Contents(ready) \cup {e}
    BY QueueTypes, ContentsAppend, Zenon
  <2>2. Contents(ready) \subseteq Contents(ready') /\ posted' = posted
    BY <1>3, <2>1, PullsFacts, Zenon
  <2> QED
    BY <1>0, <1>3, <2>2, Zenon DEF IoPulls, Queues
<1>4. CASE IoRuns
  <2>0. /\ Head(ready) \in Commands /\ Tail(ready) \in Seq(Commands)
        /\ Contents(ready) = Contents(Tail(ready)) \cup {Head(ready)}
    BY <1>4, RunsPhase, QueueTypes, ContentsTail, Zenon
  <2>1. CASE /\ Head(ready) = WriteOutStep /\ ready' = Append(Tail(ready), WriteOutStep)
             /\ UNCHANGED <<core, stream, posted>>
    <3>1. Contents(ready') = Contents(ready)
      BY <2>0, <2>1, ContentsAppend, Zenon
    <3> QED
      BY <1>0, <2>1, <3>1, Zenon DEF Queues
  <2>2. CASE ready' = Tail(ready) /\ Handles(Head(ready))
    <3>1. Streamed(Head(ready).kind) /\ Calledback
      BY <2>0, <2>2, HandlesStreamed, HandlesPosts, Zenon
    <3>2. Contents(posted) \subseteq Contents(posted')
      BY <3>1, PostedStay, Zenon DEF Calledback
    <3>3. \A e \in Queues : e \in Queues' \/ e.kind = Head(ready).kind
      BY <2>0, <2>2, <3>2, Zenon DEF Queues
    <3> QED
      BY <3>1, <3>3, Zenon
  <2> QED
    BY <1>4, <2>1, <2>2, Zenon DEF IoRuns
<1>5. CASE IoLeaves
  <2>1. core'.phase = core.phase
    BY <1>5, CoreTypes, Zenon DEF IoLeaves, Cores
  <2> QED
    BY <1>0, <1>5, <2>1, Zenon DEF IoLeaves, inbox, Queues
<1>6. CASE IoPass \/ IoFalls \/ IoAsks \/ IoWaits \/ IoAwake \/ IoAfter \/ IoEnds \/ IoTells
  <2>1. UNCHANGED <<core, stream, ready, posted>>
    BY <1>6, Zenon DEF IoPass, IoFalls, IoAsks, IoWaits, IoAwake, IoAfter, IoEnds, IoTells, inbox
  <2> QED
    BY <1>0, <2>1, Zenon DEF Queues
<1> QED
  BY <1>1, <1>2, <1>3, <1>4, <1>5, <1>6, Zenon DEF IoThread

\* Those who look are finitely many.
LEMMA LookingCount ==
    ASSUME CountFacts
    PROVE  /\ IsFiniteSet(Looking) /\ Cardinality(Looking) \in Nat
           /\ IsFiniteSet(Looking') /\ Cardinality(Looking') \in Nat
<1>1. Looking \subseteq Threads /\ Looking' \subseteq Threads
  BY Zenon DEF Looking
<1>2. \A T \in SUBSET Threads : IsFiniteSet(T)
  BY ClientAssumption, Zenon DEF CountFacts, SubsetCount
<1>3. IsFiniteSet(Looking) /\ IsFiniteSet(Looking')
  BY <1>1, <1>2, Zenon
<1> QED
  BY <1>3, Zenon DEF CountFacts, NumberCount

LEMMA IoListening ==
    ASSUME CountFacts, Types, Ordered, Listening, IoThread
    PROVE  Listening'
<1>0. Nudged /\ todo' = todo /\ refused' = refused
  BY IoNudges, Zenon
<1>1. PICK kind : Streamed(kind) /\ \A e \in Queues : e \in Queues' \/ e.kind = kind
  BY IoStreamed, Zenon DEF Listening
<1>2. \A t \in Threads : /\ at'[t] \in Posts => at'[t] = at[t]
                         /\ at'[t] \in {"recv", "reading"} => at[t] \in {"recv", "reading"}
                         /\ at'[t] = "reading" => at[t] = "reading"
                         /\ at[t] = "recv" => at'[t] = "recv"
                         /\ Op(t)' = Op(t)
  <2>1. \A t \in Threads : Op(t)' = Op(t)
    BY <1>0, Zenon DEF Op
  <2>2. \A t \in Threads : t \in Actors /\ t # Io
    BY ClientAssumption, Zenon DEF Actors
  <2> QED
    BY <1>0, <2>1, <2>2, Zenon DEF Nudged, Posts
<1>3. Making'
  BY <1>1, <1>2, Zenon DEF Listening, Making, Streamed
<1>4. Registering'
  <2>1. Given => Given'
    <3>1. CASE stream.registered \/ stream.closed
      BY <1>1, <3>1, Zenon DEF Given, Streamed
    <3>2. CASE \E e \in Queues : e.kind = "read"
      <4>1. PICK e \in Queues : e.kind = "read"
        BY <3>2, Zenon
      <4>2. CASE e \in Queues'
        BY <4>1, <4>2, Zenon DEF Given
      <4>3. CASE kind = "read"
        BY <1>1, <4>3, Zenon DEF Given, Streamed
      <4> QED
        BY <1>1, <4>1, <4>2, <4>3, Zenon
    <3> QED
      BY <3>1, <3>2, Zenon DEF Given
  <2>2. \A t \in Threads : Bound(t)' => Bound(t)
    BY <1>0, <1>2, Zenon DEF Bound, Posts
  <2>3. stream'.made = stream.made /\ (TornDown' /\ stream'.registered => stream'.closed)
    BY <1>1, Zenon DEF Streamed
  <2> QED
    BY <2>1, <2>2, <2>3, Zenon DEF Listening, Registering
<1>5. ASSUME NEW t \in Threads, at'[t] = "reading" PROVE ~stream'.closed /\ stream'.held <= Cardinality(Looking')
  <2>1. at[t] = "reading" /\ ~stream.closed /\ stream.held <= Cardinality(Looking)
    BY <1>2, <1>5, Zenon DEF Listening, Drowsing
  <2>2. ~stream'.closed
    BY <1>1, <1>5, <2>1, Zenon DEF Streamed
  <2>3. Looking \subseteq Looking'
    BY <1>2, Zenon DEF Looking
  <2>4. Cardinality(Looking) <= Cardinality(Looking') /\ stream.held \in Nat
    BY <2>3, LookingCount, StreamType, Zenon DEF CountFacts, SubsetCount
  <2>5. CASE stream'.held = stream.held
    BY <2>1, <2>2, <2>4, <2>5, LookingCount
  <2>6. CASE \E u \in Threads : at[u] = "reading" /\ at'[u] = "recv" /\ stream'.held = stream.held + 1
    <3>1. PICK u \in Threads : at[u] = "reading" /\ at'[u] = "recv" /\ stream'.held = stream.held + 1
      BY <2>6, Zenon
    <3>2. u \notin Looking /\ Looking \cup {u} \subseteq Looking'
      BY <2>3, <3>1, Zenon DEF Looking
    <3>3. Cardinality(Looking \cup {u}) = Cardinality(Looking) + 1
      BY <3>2, LookingCount, Zenon DEF CountFacts, AddCount
    <3>4. Cardinality(Looking \cup {u}) <= Cardinality(Looking')
      BY <3>2, LookingCount, Zenon DEF CountFacts, SubsetCount
    <3> QED
      BY <2>1, <2>2, <2>4, <3>1, <3>3, <3>4, LookingCount
  <2> QED
    BY <1>1, <1>5, <2>5, <2>6, Zenon DEF Streamed
<1> QED
  BY <1>3, <1>4, <1>5, Zenon DEF Listening, Drowsing

\* A thread's own step, as far as the others go.
LEMMA CallsListening ==
    ASSUME CountFacts, Types, Operating, Listening, NEW t \in Threads, Calls(t)
    PROVE  Listening'
<1> USE DEF caller
<1>0. t \in Actors /\ t # None /\ core' = core /\ ready' = ready
  BY CallsAlone, ClientAssumption, Zenon DEF Actors
<1>a. Queues \subseteq Queues'
  <2>1. Contents(posted) \subseteq Contents(posted')
    BY CallsGo, PostedStay, Zenon
  <2> QED
    BY <1>0, <2>1, Zenon DEF Queues
<1>b. \A u \in Threads : u # t =>
         /\ at'[u] \in Posts \cup {"recv", "reading"} => at'[u] = at[u]
         /\ at[u] = "recv" => at'[u] = "recv"
         /\ Op(u)' = Op(u) /\ (u \in refused' <=> u \in refused)
  <2>1. ASSUME NEW u \in Threads, u # t
        PROVE  /\ at'[u] = at[u] \/ (at[u] = "sleeping" /\ at'[u] = "lock")
               /\ Op(u)' = Op(u) /\ (u \in refused' <=> u \in refused)
    BY <2>1, CallsAlone, Zenon DEF Actors, Op
  <2> QED
    BY <2>1, Zenon DEF Posts
<1>c. Looking \ {t} \subseteq Looking' /\ Looking' \subseteq Looking \cup {t}
  BY <1>b, Zenon DEF Looking
<1>d. ASSUME stream.closed => stream'.closed, stream'.registered = stream.registered PROVE Given => Given'
  BY <1>a, <1>d, Zenon DEF Given
<1>e. \A u \in Threads : u # t /\ Bound(u)' => Bound(u)
  BY <1>b, Zenon DEF Bound, Posts
<1>1. ASSUME stream' = stream,
             at'[t] \in Posts /\ Op(t)' = "read" => at[t] \in Posts /\ Op(t) = "read",
             at'[t] \in {"recv", "reading"} => stream.made,
             at'[t] # "reading", at[t] = "recv" => at'[t] = "recv",
             Bound(t)' => Bound(t) \/ Given'
      PROVE  Listening'
  <2>1. Making'
    BY <1>b, <1>1, Zenon DEF Listening, Making
  <2>2. Given => Given'
    BY <1>d, <1>1, Zenon
  <2>3. Registering'
    BY <1>0, <1>e, <1>1, <2>2, Zenon DEF Listening, Registering, TornDown
  <2>4. Looking \subseteq Looking'
    BY <1>b, <1>1, Zenon DEF Looking
  <2>5. Cardinality(Looking) <= Cardinality(Looking') /\ stream.held \in Nat
    BY <2>4, LookingCount, StreamType, Zenon DEF CountFacts, SubsetCount
  <2>6. ASSUME NEW u \in Threads, at'[u] = "reading" PROVE ~stream'.closed /\ stream'.held <= Cardinality(Looking')
    <3>1. ~stream.closed /\ stream.held <= Cardinality(Looking)
      BY <1>b, <1>1, <2>6, Zenon DEF Listening, Drowsing
    <3> QED
      BY <1>1, <2>5, <3>1, LookingCount
  <2> QED
    BY <2>1, <2>3, <2>6, Zenon DEF Listening, Drowsing
<1>2. CASE Begin(t) /\ stream' = stream
  <2>1. /\ Op(t)' = Op(t) /\ at[t] = "idle"
        /\ \E place \in {"check", "swap", "recv"} : Goes(t, place) /\ (place = "check" => Op(t) # "read")
                                                                   /\ (place = "recv" => stream.made)
    <3>1. Op(t)' = Op(t) /\ at[t] = "idle"
      BY <1>2, Zenon DEF Begin, Op
    <3> QED
      BY <1>2, <3>1, StreamType, ClientAssumption, Zenon DEF Begin, Waiting, Streams
  <2>2. at'[t] \in {"check", "swap", "recv"} /\ (at'[t] = "check" => Op(t) # "read") /\ (at'[t] = "recv" => stream.made)
    BY <1>0, <2>1, GoesAlone, Zenon
  <2> QED
    BY <1>1, <1>2, <2>1, <2>2, Zenon DEF Bound, Posts
<1>3. CASE Begin(t) /\ stream' = [stream EXCEPT !.maker = t] /\ ~stream.made /\ stream.maker = None /\ Goes(t, "check")
  <2>1. /\ stream'.made = stream.made /\ stream'.maker = t /\ stream'.registered = stream.registered
        /\ stream'.held = stream.held /\ stream'.closed = stream.closed
    BY <1>3, StreamType, Zenon DEF Streams
  <2>2. at'[t] = "check"
    BY <1>0, <1>3, GoesAlone, Zenon
  <2>3. \A u \in Threads : at[u] \notin {"recv", "reading"} /\ ~(at[u] \in Posts /\ Op(u) = "read")
    <3>1. \A u \in Threads : u # None
      BY ClientAssumption, Zenon
    <3> QED
      BY <1>3, <3>1, Zenon DEF Listening, Making
  <2>4. \A u \in Threads : at'[u] \notin {"recv", "reading"} /\ (u # t => ~(at'[u] \in Posts /\ Op(u)' = "read"))
    BY <1>b, <2>2, <2>3, Zenon
  <2>5. Making'
    BY <1>3, <2>1, <2>4, Zenon DEF Making
  <2>6. Registering'
    <3>1. ~Bound(t)'
      BY <2>2, Zenon DEF Bound
    <3> QED
      BY <1>0, <1>d, <1>e, <2>1, <3>1, Zenon DEF Listening, Registering, TornDown
  <2> QED
    BY <2>4, <2>5, <2>6, Zenon DEF Listening, Drowsing
<1>4. CASE Check(t) \/ Count(t) \/ Recheck(t)
  <2>1. stream' = stream /\ todo' = todo /\ at[t] \in {"check", "count", "recheck"}
    BY <1>4, Zenon DEF Check, Count, Recheck
  <2>2. at'[t] \in {"count", "recheck", "push"} \/ (at'[t] \in {"posted", "uncount"} /\ t \in refused')
    BY <1>0, <1>4, GoesAlone, Zenon DEF Check, Count, Recheck
  <2>3. Op(t)' = Op(t)
    BY <2>1, Zenon DEF Op
  <2> QED
    BY <1>1, <2>1, <2>2, <2>3, Zenon DEF Bound, Posts
<1>5. CASE Push(t)
  <2>1. at[t] = "push" /\ at'[t] = "look" /\ todo' = todo /\ stream' = stream
        /\ posted' = Append(posted, Entry(Op(t), t))
    BY <1>0, <1>5, GoesAlone, Zenon DEF Push
  <2>2. Entry(Op(t), t) \in Queues'
    BY <2>1, QueueTypes, ContentsAppend DEF Queues
  <2>3. Op(t)' = Op(t) /\ Entry(Op(t), t).kind = Op(t)
    BY <2>1, Zenon DEF Op, Entry
  <2>4. Bound(t)' => Given'
    BY <2>2, <2>3, Zenon DEF Bound, Given
  <2> QED
    BY <1>1, <2>1, <2>3, <2>4, Zenon DEF Posts
<1>6. CASE Look(t) \/ Wake(t) \/ Uncount(t) \/ Last(t) \/ Notify(t)
  <2>1. stream' = stream /\ todo' = todo /\ refused' = refused /\ at[t] \in {"look", "wake", "uncount", "last", "notify"}
    BY <1>6, Zenon DEF Look, Wake, Uncount, Last, Notify
  <2>2. at'[t] \in {"wake", "uncount", "last", "notify", "posted"}
    <3>1. CASE Notify(t)
      BY <1>0, <3>1, Zenon DEF Notify, Types
    <3>2. CASE Look(t) \/ Wake(t) \/ Uncount(t) \/ Last(t)
      <4>1. \E place \in {"wake", "uncount", "last", "notify", "posted"} : Goes(t, place)
        BY <3>2, Zenon DEF Look, Wake, Uncount, Last
      <4> QED
        BY <1>0, <4>1, GoesAlone, Zenon
    <3> QED
      BY <1>6, <3>1, <3>2, Zenon
  <2>3. Op(t)' = Op(t)
    BY <2>1, Zenon DEF Op
  <2> QED
    BY <1>1, <2>1, <2>2, <2>3, Zenon DEF Bound, Posts
<1>7. ASSUME stream' = stream, at[t] # "recv", at'[t] \in {"idle", "wait", "blocked", "join"} PROVE Listening'
  BY <1>1, <1>7, Zenon DEF Bound, Posts
<1>8. CASE PostDone(t)
  <2>1. CASE stream' = stream /\ at[t] = "posted" /\ (Goes(t, "wait") \/ Goes(t, "idle"))
    BY <1>0, <1>7, <2>1, GoesAlone, Zenon
  <2>2. CASE /\ at[t] = "posted" /\ Op(t) = "read" /\ Goes(t, "recv")
             /\ stream' = [stream EXCEPT !.made = TRUE, !.maker = None, !.closed = @ \/ t \in refused]
    <3>1. /\ stream'.made = TRUE /\ stream'.registered = stream.registered
          /\ stream'.held = stream.held /\ stream'.closed = (stream.closed \/ t \in refused)
      BY <2>2, StreamType, Zenon DEF Streams
    <3>2. at'[t] = "recv"
      BY <1>0, <2>2, GoesAlone, Zenon
    <3>3. stream.maker = t /\ ~stream.made
      BY <2>2, Zenon DEF Listening, Making, Posts
    <3>4. \A u \in Threads : at'[u] # "reading" /\ ~(at'[u] \in Posts /\ Op(u)' = "read")
      <4>1. \A u \in Threads : u # t => at[u] # "reading" /\ ~(at[u] \in Posts /\ Op(u) = "read")
        BY <3>3, Zenon DEF Listening, Making
      <4> QED
        BY <1>b, <3>2, <4>1, Zenon DEF Posts
    <3>5. Making'
      BY <3>1, <3>4, Zenon DEF Making
    <3>6. Given'
      <4>1. Bound(t) \/ t \in refused
        BY <2>2, Zenon DEF Bound
      <4> QED
        BY <1>d, <3>1, <4>1, Zenon DEF Listening, Registering, Given
    <3>7. Registering'
      BY <1>0, <3>1, <3>6, Zenon DEF Listening, Registering, TornDown
    <3> QED
      BY <3>4, <3>5, <3>7, Zenon DEF Listening, Drowsing
  <2> QED
    BY <1>8, <2>1, <2>2, Zenon DEF PostDone, Returns
<1>9. CASE Wait(t) \/ Join(t)
  <2>1. stream' = stream /\ at[t] # "recv" /\ \E place \in {"idle", "blocked", "join"} : Goes(t, place)
    BY <1>9, Zenon DEF Wait, Join, Returns
  <2> QED
    BY <1>0, <1>7, <2>1, GoesAlone, Zenon
<1>10. CASE Recv(t)
  <2>0. at[t] = "recv" /\ stream.made /\ t \in Looking
    BY <1>10, Zenon DEF Recv, Listening, Making, Looking
  <2>1. ASSUME at'[t] \in {"idle", "reading"},
               stream'.made = stream.made, stream'.maker = stream.maker, stream'.registered = stream.registered,
               stream'.closed = stream.closed,
               \A u \in Threads : at'[u] = "reading" => ~stream'.closed /\ stream'.held <= Cardinality(Looking')
        PROVE  Listening'
    <3>1. Making'
      BY <1>b, <2>0, <2>1, Zenon DEF Listening, Making, Posts
    <3>2. Registering'
      <4>1. ~Bound(t)'
        BY <2>1, Zenon DEF Bound
      <4> QED
        BY <1>0, <1>d, <1>e, <2>1, <4>1, Zenon DEF Listening, Registering, TornDown
    <3> QED
      BY <2>1, <3>1, <3>2, Zenon DEF Listening, Drowsing
  <2>2. CASE stream.held > 0 /\ stream' = [stream EXCEPT !.held = @ - 1] /\ Goes(t, "idle")
    <3>1. /\ stream'.made = stream.made /\ stream'.maker = stream.maker /\ stream'.registered = stream.registered
          /\ stream'.held = stream.held - 1 /\ stream'.closed = stream.closed
      BY <2>2, StreamType, Zenon DEF Streams
    <3>2. at'[t] = "idle"
      BY <1>0, <2>2, GoesAlone, Zenon
    <3>3. Cardinality(Looking \ {t}) = Cardinality(Looking) - 1
      BY <2>0, LookingCount, Zenon DEF CountFacts, RemoveCount
    <3>4. Cardinality(Looking \ {t}) <= Cardinality(Looking')
      BY <1>c, LookingCount, Zenon DEF CountFacts, SubsetCount
    <3>5. ASSUME NEW u \in Threads, at'[u] = "reading" PROVE ~stream'.closed /\ stream'.held <= Cardinality(Looking')
      <4>1. at[u] = "reading"
        BY <1>b, <3>2, <3>5, Zenon
      <4>2. ~stream.closed /\ stream.held <= Cardinality(Looking)
        BY <4>1, Zenon DEF Listening, Drowsing
      <4> QED
        BY <3>1, <3>3, <3>4, <4>2, LookingCount, StreamType
    <3> QED
      BY <2>1, <3>1, <3>2, <3>5, Zenon
  <2>3. CASE stream.held = 0 /\ stream' = stream /\ ((stream.closed /\ Goes(t, "idle")) \/ (~stream.closed /\ Goes(t, "reading")))
    <3>1. at'[t] = "idle" \/ (at'[t] = "reading" /\ ~stream.closed)
      BY <1>0, <2>3, GoesAlone, Zenon
    <3>2. ASSUME NEW u \in Threads, at'[u] = "reading" PROVE ~stream'.closed /\ stream'.held <= Cardinality(Looking')
      <4>1. ~stream.closed
        BY <1>b, <3>1, <3>2, Zenon DEF Listening, Drowsing
      <4> QED
        BY <2>3, <4>1, LookingCount
    <3> QED
      BY <2>1, <2>3, <3>1, <3>2, Zenon
  <2> QED
    BY <1>10, <2>2, <2>3, Zenon DEF Recv, Returns
<1>11. Begin(t) => \/ stream' = stream
                   \/ stream' = [stream EXCEPT !.maker = t] /\ ~stream.made /\ stream.maker = None /\ Goes(t, "check")
  BY Zenon DEF Begin
<1> QED
  BY <1>2, <1>3, <1>4, <1>5, <1>6, <1>8, <1>9, <1>10, <1>11, Zenon DEF Calls

LEMMA ShutsListening ==
    ASSUME Types, Listening, NEW x \in Actors, Shuts(x)
    PROVE  Listening'
<1>0. /\ core' = core /\ ready' = ready /\ todo' = todo /\ refused' = refused
      /\ \A y \in Actors : y # x => at'[y] = at[y]
  BY ShutsAlone, Zenon
<1>1. stream' = stream
  BY Zenon DEF Shuts, Swap, Lock, Counts, Sleeps, PushesShutdown, Wakes, AsksEnded
<1>2. Queues \subseteq Queues'
  <2>1. Contents(posted) \subseteq Contents(posted')
    BY ShutsPush, PostedStay, Zenon DEF PushesShutdown
  <2> QED
    BY <1>0, <2>1, Zenon DEF Queues
<1>3. \A t \in Threads : /\ at'[t] \in Posts \cup {"recv", "reading"} => at'[t] = at[t]
                         /\ at[t] = "recv" <=> at'[t] = "recv"
                         /\ Op(t)' = Op(t)
  <2>1. \A t \in Threads : Op(t)' = Op(t) /\ t \in Actors
    BY <1>0, Zenon DEF Op, Actors
  <2>2. x \in Threads => at[x] # "recv" /\ at'[x] \notin Posts \cup {"recv", "reading"}
    <3>1. x \in Threads => at[x] # "recv" /\ at'[x] \in Leads \cup {"wakes", "ended", "wait"}
      BY ShutsAlone, ClientAssumption, Zenon DEF Leads
    <3> QED
      BY <3>1, Zenon DEF Leads, Posts
  <2> QED
    BY <1>0, <2>1, <2>2, Zenon
<1>4. Looking' = Looking
  BY <1>3, Zenon DEF Looking
<1>5. Making'
  BY <1>1, <1>3, Zenon DEF Listening, Making
<1>6. Registering'
  <2>1. \A t \in Threads : Bound(t)' => Bound(t)
    BY <1>0, <1>3, Zenon DEF Bound, Posts
  <2> QED
    BY <1>0, <1>1, <1>2, <2>1, Zenon DEF Listening, Registering, Given, TornDown
<1> QED
  BY <1>1, <1>3, <1>4, <1>5, <1>6, Zenon DEF Listening, Drowsing

LEMMA NextListening ==
    ASSUME CountFacts, IInv, Listening, [Next]_vars
    PROVE  Listening'
<1>0. Types /\ Operating /\ Ordered
  BY Zenon DEF IInv
<1>1. CASE \E t \in Threads : Calls(t)
  BY <1>0, <1>1, CallsListening, Zenon
<1>2. CASE \E x \in Actors : Shuts(x)
  BY <1>0, <1>2, ShutsListening, Zenon
<1>3. CASE IoThread
  BY <1>0, <1>3, IoListening, Zenon
<1>4. CASE UNCHANGED <<todo, refused, at, core, ready, posted, stream>>
  BY <1>4, Zenon DEF Listening, Making, Registering, Drowsing, Looking, Bound, Given, Queues, TornDown, Op
<1>5. CASE (\E t \in Threads : QueryEnds(t) \/ DeadlinePasses(t))
             \/ WriteEnds \/ ConnectionsClose \/ DrainDue \/ MessageArrives
  BY <1>0, <1>4, <1>5, ArrivesOnly, Zenon
<1>6. CASE UNCHANGED vars
  BY <1>4, <1>6, Zenon DEF vars, caller, shared, inbox, driver
<1> QED
  BY <1>1, <1>2, <1>3, <1>5, <1>6, Zenon DEF Next, Progress

LEMMA InitListening == ASSUME Init PROVE Listening
<1>1. stream.made = FALSE /\ stream.registered = FALSE
  <2>1. stream = [made |-> FALSE, maker |-> None, registered |-> FALSE, closed |-> FALSE, held |-> 0]
    BY Zenon DEF Init
  <2> QED
    BY <2>1, Zenon
<1>2. \A t \in Threads : at[t] = "idle"
  BY Zenon DEF Init, Actors
<1> QED
  BY <1>1, <1>2, Zenon DEF Listening, Making, Registering, Drowsing, Bound, Posts

\* Once the client tore down no command is left that could register the
\* stream.
LEMMA ListeningReadersWoken == ASSUME IInv, Listening PROVE ReadersWoken
<1>1. ASSUME TornDown, stream.made PROVE stream.closed
  <2>1. ready \in Seq(Harmless) /\ posted \in Seq(Harmless)
    BY <1>1, Zenon DEF IInv, Ordered, TornDown
  <2>2. Queues \subseteq Harmless
    BY <2>1, Elements, Zenon DEF Queues
  <2>3. \A e \in Queues : e.kind # "read"
    BY <2>2 DEF Harmless, Ops, Entry
  <2> QED
    BY <1>1, <2>3, Zenon DEF Listening, Registering, Given
<1> QED
  BY <1>1, Zenon DEF ReadersWoken, Listening, Drowsing, Looking

-----------------------------------------------------------------------------
(* The theorems, with the library's facts on finite sets.                  *)

Library == INSTANCE FiniteSetTheorems
LOCAL INSTANCE WellFoundedInduction

\* The library's notion of size is this one.
LEMMA SameCount ==
    /\ \A S : IsFiniteSet(S) <=> Library!IsFiniteSet(S)
    /\ \A S : Cardinality(S) = Library!Cardinality(S)
<1>1. \A S : IsFiniteSet(S) <=> Library!IsFiniteSet(S)
  BY Zenon DEF IsFiniteSet, Library!IsFiniteSet
<1>2. \A S : Cardinality(S) = Library!Cardinality(S)
  BY Zenon DEF Cardinality, Library!Cardinality
<1> QED
  BY <1>1, <1>2, Zenon

LEMMA CountsHold == CountFacts
<1>1. EmptyCount
  BY SameCount, Library!FS_EmptySet, Zenon DEF EmptyCount
<1>2. NumberCount
  BY SameCount, Library!FS_CardinalityType, Zenon DEF NumberCount
<1>3. AddCount
  BY SameCount, Library!FS_AddElement, Zenon DEF AddCount
<1>4. RemoveCount
  BY SameCount, Library!FS_RemoveElement, Zenon DEF RemoveCount
<1>5. SubsetCount
  BY SameCount, Library!FS_Subset, Zenon DEF SubsetCount
<1>6. UnionCount
  BY SameCount, Library!FS_Union, Zenon DEF UnionCount
<1>7. IntervalCount
  BY SameCount, Library!FS_Interval, Zenon DEF IntervalCount
<1>8. LeastNumber
  <2> SUFFICES ASSUME NEW S \in SUBSET Nat, S # {} PROVE \E m \in S : \A k \in S : m <= k
    BY Zenon DEF LeastNumber
  <2> DEFINE R == {ss \in Nat \X Nat : ss[1] < ss[2]}
  <2>0. IsWellFoundedOn(R, Nat)
    BY NatLessThanWellFounded, Zenon DEF OpToRel
  <2>1. \A x, y \in Nat : x < y => <<x, y>> \in R
    BY Zenon
  <2> HIDE DEF R
  <2>2. PICK m \in S : \A y \in S : ~ (<<y, m>> \in R)
    BY <2>0, WFMin, Zenon
  <2>3. \A k \in S : k \in Nat /\ m \in Nat /\ ~(k < m)
    BY <2>1, <2>2, ZenonT(40)
  <2> QED
    BY <2>3
<1> QED
  BY <1>1, <1>2, <1>3, <1>4, <1>5, <1>6, <1>7, <1>8, ZenonT(40) DEF CountFacts

\* For any number of threads, any programs and any capacity of the stream:
\* post() and shutdown() racing lose no command, nobody who waits is
\* forgotten, and the io thread neither sleeps over a posted command nor
\* ends with one queued (threaded_client.rs post, shutdown, io_thread;
\* inbox.rs push, take, fall_asleep).
THEOREM ThreadedClientNoPostLost == Spec => []NoPostLost
<1>1. Init => IInv BY CountsHold, InitIInv, Zenon
<1>2. IInv /\ [Next]_vars => IInv' BY CountsHold, NextIInv, Zenon
<1> QED BY <1>1, <1>2, IInvNoPostLost, PTL DEF Spec

\* For any number of readers and any capacity of the stream: nobody sleeps
\* over a message or over a stream that closed, and one that was made is
\* closed once the client tore down, though its registration is posted like
\* any command and may race the shutdown (pending.rs Queue; core/threaded.rs
\* register_inbox, teardown; threaded_client.rs messages).
THEOREM ThreadedClientReadersWoken == Spec => []ReadersWoken
<1>1. Init => IInv /\ Listening
  BY CountsHold, InitIInv, InitListening, Zenon
<1>2. IInv /\ Listening /\ [Next]_vars => IInv' /\ Listening'
  BY CountsHold, NextIInv, NextListening, Zenon
<1>3. IInv /\ Listening => ReadersWoken
  BY ListeningReadersWoken, Zenon
<1> QED
  BY <1>1, <1>2, <1>3, PTL DEF Spec
=============================================================================
