--------------------------- MODULE ThreadedClient ---------------------------
(***************************************************************************)
(* The threaded client: the program's threads post commands to the io      *)
(* thread through an inbox with a wake of its own, wait for results it     *)
(* delivers, and read a stream it fills; any of them, or a callback on the *)
(* io thread itself, shuts the client down while the others post.          *)
(*                                                                         *)
(* A thread's place `at` is the next atomic, lock or wait it comes to; the *)
(* io thread's is `io`.  What the core does with a command is kept only as *)
(* far as results, the write-out and the end of the io thread depend on    *)
(* it: how many sends were `sent` and `written`, up to where the write-out *)
(* flushes (`upto`), and that its `step` is posted.                        *)
(***************************************************************************)
EXTENDS Naturals, Sequences, FiniteSets

CONSTANTS Threads,   \* the program's threads
          Io,        \* the io thread
          None,
          Capacity,  \* of the stream
          Programs   \* what the program does, one of these

Ops == {"send", "write", "call", "query", "flush", "read", "shutdown", "drop"}
Waiting == {"write", "call", "query", "flush"}   \* post, then wait for a result

ASSUME ClientAssumption ==
    /\ IsFiniteSet(Threads) /\ Io \notin Threads /\ None \notin Threads \cup {Io}
    /\ Capacity \in Nat \ {0}
    /\ \A p \in Programs : /\ p.ops \in [Threads -> Seq(Ops)]
                           /\ p.messages \in Nat
                           /\ p.callback \in {"none", "send", "shutdown"}
                           /\ p.drain \in {"zero", "some"}

VARIABLES
    program,     \* the one chosen
    todo, at,    \* of each thread: what it still does, where it is
    refused,     \* the threads whose post was refused
    results,     \* the threads whose result was delivered
    stopped, posting, lifecycle,       \* Shared; who holds the mutex
    tornDown, ended, completers,       \* Shared
    posted, pending, asleep, signal,   \* Inbox; the waker's event
    io, ready, woken,                  \* the io thread and its driver
    core,        \* its phase, who waits in it, and its write-out
    stream,      \* the inbox messages() reads; who makes it
    events, arrived                    \* what the sockets and timers have

caller == <<todo, refused, results>>
shared == <<stopped, posting, lifecycle, tornDown, ended, completers>>
inbox == <<posted, pending, asleep, signal>>
driver == <<io, ready, woken>>
outside == <<events, arrived>>
vars == <<program, caller, at, shared, inbox, driver, core, stream, outside>>

Actors == Threads \cup {Io}
Entry(kind, t) == [kind |-> kind, by |-> t]
Op(t) == Head(todo[t])
Goes(t, place) == at' = [at EXCEPT ![t] = place]

\* The end of t's call.
Returns(t) ==
    /\ Goes(t, "idle") /\ todo' = [todo EXCEPT ![t] = Tail(@)]
    /\ results' = results \ {t}

-----------------------------------------------------------------------------
(* A call of the program: post() step by step.                             *)

\* The last handle goes only once nobody uses another.
Alone(t) == \A u \in Threads \ {t} : at[u] = "idle" /\ todo[u] = <<>>

\* messages() holds its lock while it posts the stream it makes.
Begin(t) ==
    /\ at[t] = "idle" /\ todo[t] # <<>>
    /\ \/ Op(t) \in Waiting \cup {"send"} /\ Goes(t, "check") /\ UNCHANGED stream
       \/ Op(t) = "shutdown" /\ Goes(t, "swap") /\ UNCHANGED stream
       \/ Op(t) = "drop" /\ Alone(t) /\ Goes(t, "swap") /\ UNCHANGED stream
       \/ Op(t) = "read" /\ stream.made /\ Goes(t, "recv") /\ UNCHANGED stream
       \/ /\ Op(t) = "read" /\ ~stream.made /\ stream.maker = None
          /\ Goes(t, "check") /\ stream' = [stream EXCEPT !.maker = t]
    /\ UNCHANGED <<program, caller, shared, inbox, driver, core, outside>>

\* `stopped` read before the post is counted ...
Check(t) ==
    /\ at[t] = "check" /\ Goes(t, IF stopped THEN "posted" ELSE "count")
    /\ refused' = IF stopped THEN refused \cup {t} ELSE refused
    /\ UNCHANGED <<program, todo, results, shared, inbox, driver, core, stream, outside>>

Count(t) ==
    /\ at[t] = "count" /\ Goes(t, "recheck")
    /\ posting' = posting + 1
    /\ UNCHANGED <<program, caller, stopped, lifecycle, tornDown, ended, completers, inbox, driver, core, stream,
                   outside>>

\* Mutant: `stopped` is not read again once the post is counted.
Recheck_once(t) ==
    /\ at[t] = "recheck" /\ Goes(t, "push")
    /\ UNCHANGED <<program, caller, shared, inbox, driver, core, stream, outside>>

\* ... and again once it is.
Recheck(t) ==
    /\ at[t] = "recheck" /\ Goes(t, IF stopped THEN "uncount" ELSE "push")
    /\ refused' = IF stopped THEN refused \cup {t} ELSE refused
    /\ UNCHANGED <<program, todo, results, shared, inbox, driver, core, stream, outside>>

\* Inbox::push, push_plain, under its lock.
Push(t) ==
    /\ at[t] = "push" /\ Goes(t, "look")
    /\ posted' = Append(posted, Entry(Op(t), t)) /\ pending' = TRUE
    /\ UNCHANGED <<program, caller, shared, asleep, signal, driver, core, stream, outside>>

\* wake_needed: one of those who find the io thread asleep wakes it.
Look(t) ==
    /\ at[t] = "look" /\ Goes(t, IF asleep THEN "wake" ELSE "uncount")
    /\ asleep' = FALSE
    /\ UNCHANGED <<program, caller, shared, posted, pending, signal, driver, core, stream, outside>>

Wake(t) ==
    /\ at[t] = "wake" /\ Goes(t, "uncount")
    /\ signal' = TRUE
    /\ UNCHANGED <<program, caller, shared, posted, pending, asleep, driver, core, stream, outside>>

\* Posting::drop: the last one looks whether a shutdown may wait ...
Uncount(t) ==
    /\ at[t] = "uncount" /\ Goes(t, IF posting = 1 THEN "last" ELSE "posted")
    /\ posting' = posting - 1
    /\ UNCHANGED <<program, caller, stopped, lifecycle, tornDown, ended, completers, inbox, driver, core, stream,
                   outside>>

Last(t) ==
    /\ at[t] = "last" /\ Goes(t, IF stopped THEN "notify" ELSE "posted")
    /\ UNCHANGED <<program, caller, shared, inbox, driver, core, stream, outside>>

\* Mutant: the notification does not take the lifecycle's lock.
Notify_unlocked(t) ==
    /\ at[t] = "notify"
    /\ at' = [u \in Actors |-> IF u = t THEN "posted" ELSE IF at[u] = "sleeping" THEN "lock" ELSE at[u]]
    /\ UNCHANGED <<program, caller, shared, inbox, driver, core, stream, outside>>

\* ... and tells it under the lifecycle's lock.
Notify(t) ==
    /\ at[t] = "notify" /\ lifecycle = None
    /\ at' = [u \in Actors |-> IF u = t THEN "posted" ELSE IF at[u] = "sleeping" THEN "lock" ELSE at[u]]
    /\ UNCHANGED <<program, caller, shared, inbox, driver, core, stream, outside>>

\* What the call does with what post() said: a stream no command registers
\* is closed here.
PostDone(t) ==
    /\ at[t] = "posted" /\ refused' = refused \ {t}
    /\ \/ /\ Op(t) \in Waiting /\ t \notin refused
          /\ Goes(t, "wait") /\ UNCHANGED <<todo, results, stream>>
       \/ /\ Op(t) = "send" \/ (Op(t) \in Waiting /\ t \in refused)
          /\ Returns(t) /\ UNCHANGED stream
       \/ /\ Op(t) = "read" /\ Goes(t, "recv")
          /\ stream' = [stream EXCEPT !.made = TRUE, !.maker = None, !.closed = @ \/ t \in refused]
          /\ UNCHANGED <<todo, results>>
    /\ UNCHANGED <<program, shared, inbox, driver, core, outside>>

\* Pending::wait
Wait(t) ==
    /\ at[t] = "wait"
    /\ \/ t \notin results /\ Goes(t, "blocked") /\ UNCHANGED <<todo, results>>
       \/ t \in results /\ Op(t) # "drop" /\ Returns(t)
       \/ t \in results /\ Op(t) = "drop" /\ Goes(t, "join") /\ UNCHANGED <<todo, results>>
    /\ UNCHANGED <<program, refused, shared, inbox, driver, core, stream, outside>>

\* Handle::drop joins the io thread.
Join(t) ==
    /\ at[t] = "join" /\ io = "gone" /\ Returns(t)
    /\ UNCHANGED <<program, refused, shared, inbox, driver, core, stream, outside>>

\* Messages::recv, with no deadline.
Recv(t) ==
    /\ at[t] = "recv"
    /\ \/ /\ stream.held > 0 /\ stream' = [stream EXCEPT !.held = @ - 1]
          /\ Returns(t)
       \/ stream.held = 0 /\ stream.closed /\ Returns(t) /\ UNCHANGED stream
       \/ stream.held = 0 /\ ~stream.closed /\ Goes(t, "reading") /\ UNCHANGED <<todo, results, stream>>
    /\ UNCHANGED <<program, refused, shared, inbox, driver, core, outside>>
-----------------------------------------------------------------------------
(* Shared::shutdown, by a thread or by a callback.                         *)

\* The first to swap `stopped` does it; the others wait for its end.
Swap(x) ==
    /\ at[x] = "swap" /\ Goes(x, IF stopped THEN "ended" ELSE "lock")
    /\ stopped' = TRUE
    /\ UNCHANGED <<program, caller, posting, lifecycle, tornDown, ended, completers, inbox, driver, core, stream,
                   outside>>

Lock(x) ==
    /\ at[x] = "lock" /\ lifecycle = None /\ Goes(x, "counts")
    /\ lifecycle' = x
    /\ UNCHANGED <<program, caller, stopped, posting, tornDown, ended, completers, inbox, driver, core, stream, outside>>

\* Every post that was counted is waited for.
Counts(x) ==
    /\ at[x] = "counts" /\ Goes(x, IF posting = 0 THEN "pushes" ELSE "sleeps")
    /\ lifecycle' = IF posting = 0 THEN None ELSE lifecycle
    /\ UNCHANGED <<program, caller, stopped, posting, tornDown, ended, completers, inbox, driver, core, stream, outside>>

Sleeps(x) ==
    /\ at[x] = "sleeps" /\ Goes(x, "sleeping")
    /\ lifecycle' = None
    /\ UNCHANGED <<program, caller, stopped, posting, tornDown, ended, completers, inbox, driver, core, stream, outside>>

\* The command that begins the shutdown, the last one from outside.
PushesShutdown(x) ==
    /\ at[x] = "pushes" /\ Goes(x, "wakes")
    /\ posted' = Append(posted, Entry("shutdown", x)) /\ pending' = TRUE /\ asleep' = FALSE
    /\ UNCHANGED <<program, caller, shared, signal, driver, core, stream, outside>>

Wakes(x) ==
    /\ at[x] = "wakes" /\ Goes(x, "ended")
    /\ signal' = TRUE
    /\ UNCHANGED <<program, caller, shared, posted, pending, asleep, driver, core, stream, outside>>

\* Shared::ended, under its lock; a callback waits for nothing.
AsksEnded(x) ==
    /\ at[x] = "ended"
    /\ IF ended THEN results' = results \cup ({x} \ {Io}) /\ UNCHANGED completers
       ELSE completers' = completers \cup {x} /\ UNCHANGED results
    /\ Goes(x, IF x = Io THEN "idle" ELSE "wait")
    /\ UNCHANGED <<program, todo, refused, stopped, posting, lifecycle, tornDown, ended, inbox, driver, core, stream,
                   outside>>

Calls(t) ==
    \/ Begin(t) \/ Check(t) \/ Count(t) \/ Recheck(t) \/ Push(t) \/ Look(t) \/ Wake(t) \/ Uncount(t) \/ Last(t)
    \/ Notify(t) \/ PostDone(t) \/ Wait(t) \/ Join(t) \/ Recv(t)

Shuts(x) ==
    \/ Swap(x) \/ Lock(x) \/ Counts(x) \/ Sleeps(x) \/ PushesShutdown(x) \/ Wakes(x) \/ AsksEnded(x)

-----------------------------------------------------------------------------
(* The io thread: io_thread and Driver::step.                              *)

TornDown == core.phase \in {"closing", "closed"}
WriteOutStep == Entry("writeout", Io)

\* What the core posted goes behind what its callbacks did.  Only once the
\* core tore down, and nothing is left to happen, does the thread leave its
\* loop; from the teardown on its callbacks post nothing.
IoTop ==
    /\ io = "top"
    /\ ready' = IF core.step THEN Append(ready, WriteOutStep) ELSE ready
    /\ core' = [core EXCEPT !.step = FALSE]
    /\ tornDown' = (tornDown \/ TornDown)
    /\ io' = IF core.phase = "closed" /\ ready' = <<>> THEN "leaves" ELSE "head"
    /\ UNCHANGED <<program, caller, at, stopped, posting, lifecycle, ended, completers, inbox, woken, stream, outside>>

\* A pass, the queue being empty: the inbox is locked only when it says that
\* something is pending; a poll of it may eat the wake.
IoPass ==
    /\ io = "head" /\ ready = <<>>
    /\ io' = IF pending THEN "take" ELSE "pulls"
    /\ \/ UNCHANGED <<signal, woken>>
       \/ signal /\ signal' = FALSE /\ woken' = TRUE
    /\ UNCHANGED <<program, caller, at, shared, posted, pending, asleep, ready, core, stream, outside>>

\* Inbox::take
IoTakes ==
    /\ io \in {"take", "afterTake"}
    /\ pending' = FALSE /\ posted' = <<>>
    /\ ready' = ready \o posted
    /\ io' = IF io = "take" THEN "pulls" ELSE "top"
    /\ UNCHANGED <<program, caller, at, shared, asleep, signal, woken, core, stream, outside>>

\* What the sockets and the timers have joins the queue; with nothing there
\* a wake ends the step, and no wake lets it sleep.
IoPulls ==
    /\ io = "pulls"
    /\ \/ \E e \in events : /\ ready' = Append(ready, e) /\ events' = events \ {e}
                            /\ io' = "head" /\ UNCHANGED woken
       \/ /\ events = {} /\ ready # <<>> /\ io' = "head" /\ UNCHANGED <<ready, events, woken>>
       \/ /\ events = {} /\ ready = <<>>
          /\ io' = (IF woken THEN "top" ELSE "falls") /\ woken' = FALSE /\ UNCHANGED <<ready, events>>
    /\ UNCHANGED <<program, caller, at, shared, inbox, core, stream, arrived>>

\* Inbox::fall_asleep: says so, then looks a last time.
IoFalls ==
    /\ io = "falls" /\ io' = "asks"
    /\ asleep' = TRUE
    /\ UNCHANGED <<program, caller, at, shared, posted, pending, signal, ready, woken, core, stream, outside>>

IoAsks ==
    /\ io = "asks" /\ io' = IF pending THEN "head" ELSE "waits"
    /\ asleep' = (asleep /\ ~pending)
    /\ UNCHANGED <<program, caller, at, shared, posted, pending, signal, ready, woken, core, stream, outside>>

IoWaits ==
    /\ io = "waits" /\ io' = "awake"
    /\ signal \/ events # {}
    /\ signal' = FALSE /\ woken' = (woken \/ signal)
    /\ UNCHANGED <<program, caller, at, shared, posted, pending, asleep, ready, core, stream, outside>>

\* Inbox::wake_up
IoAwake ==
    /\ io = "awake" /\ io' = "head"
    /\ asleep' = FALSE
    /\ UNCHANGED <<program, caller, at, shared, posted, pending, signal, ready, woken, core, stream, outside>>

-----------------------------------------------------------------------------
(* What the entry at the head of the queue does.                           *)

\* Completer::complete for the threads S, those blocked waking, and a
\* notification of the readers R.  In the code every one of them is a lock
\* and, after it, a notification; here all are one step.
Hands(S, R) ==
    /\ results' = results \cup S
    /\ at' = [x \in Actors |-> IF x \in S /\ at[x] = "blocked" THEN "wait"
                               ELSE IF x \in R /\ at[x] = "reading" THEN "recv" ELSE at[x]]
    /\ UNCHANGED <<todo, refused>>

\* A callback that sends, on the io thread, which no shutdown refuses until
\* the core tore down.
CallbackPosts(called) ==
    LET sends == called /\ program.callback = "send" /\ ~tornDown
    IN  /\ posted' = IF sends THEN Append(posted, Entry("send", Io)) ELSE posted
        /\ pending' = (pending \/ sends)

\* Waits of the outbox: flushes, and sends waited for.
Ended(waits, written) == {w \in waits : w.upto <= written}
By(waits) == {w.by : w \in waits}
Others(waits, t) == {w \in waits : w.by # t}

\* write_out: a flush of what was sent until now; one with nothing to wait
\* for has ended.
WriteOut(c) ==
    [c EXCEPT !.phase = "writing", !.upto = c.sent,
              !.drain = c.written < c.sent, !.step = c.written = c.sent]

\* Mutant: the stream closes without a word to its readers.
Teardown_quiet(c, S) ==
    /\ \E phase \in {"closing", "closed"} :
           core' = [c EXCEPT !.phase = phase, !.flushes = {}, !.drain = FALSE, !.written = c.sent]
    /\ Hands(S \cup By(c.flushes), {})
    /\ stream' = [stream EXCEPT !.closed = @ \/ stream.registered]
    /\ CallbackPosts(c.flushes # {})

\* teardown, with connections to close or none.
Teardown(c, S) ==
    /\ \E phase \in {"closing", "closed"} :
           core' = [c EXCEPT !.phase = phase, !.flushes = {}, !.drain = FALSE, !.written = c.sent]
    /\ Hands(S \cup By(c.flushes), IF stream.registered THEN Threads ELSE {})
    /\ stream' = [stream EXCEPT !.closed = @ \/ stream.registered]
    /\ CallbackPosts(c.flushes # {})

\* place_plain; what is sent after the teardown is given up on.
RunSend(t) ==
    /\ core' = IF TornDown THEN core ELSE [core EXCEPT !.sent = @ + 1]
    /\ UNCHANGED <<caller, at, stream, posted, pending>>

\* place_send, followed to its end.
RunWrite(t) ==
    LET write == [by |-> t, upto |-> core.sent + 1]
    IN  /\ IF TornDown THEN Hands({t}, {}) /\ UNCHANGED core
           ELSE /\ core' = [core EXCEPT !.sent = @ + 1, !.follows = @ \cup {write}]
                /\ UNCHANGED <<caller, at>>
        /\ UNCHANGED <<stream, posted, pending>>

RunCall(t) == Hands({t}, {}) /\ UNCHANGED <<core, stream, posted, pending>>

\* start_query, and connect's wait: neither waits once the client shuts down.
RunQuery(t) ==
    /\ IF core.phase = "open" THEN core' = [core EXCEPT !.queries = @ \cup {t}] /\ UNCHANGED <<caller, at>>
       ELSE Hands({t}, {}) /\ UNCHANGED core
    /\ UNCHANGED <<stream, posted, pending>>

\* begin_flush_all
RunFlush(t) ==
    LET flush == [by |-> t, upto |-> core.sent]
    IN  /\ IF core.written < core.sent
           THEN core' = [core EXCEPT !.flushes = @ \cup {flush}] /\ UNCHANGED <<caller, at>>
           ELSE Hands({t}, {}) /\ UNCHANGED core
        /\ CallbackPosts(core.written = core.sent)
        /\ UNCHANGED stream

\* register_inbox
RunRead(t) ==
    /\ stream' = [stream EXCEPT !.registered = ~TornDown, !.closed = @ \/ TornDown]
    /\ Hands({}, IF TornDown THEN Threads ELSE {})
    /\ UNCHANGED <<core, posted, pending>>

\* begin_shutdown
RunShutdown(t) ==
    LET asked == [core EXCEPT !.queries = {}]
    IN  IF program.drain = "zero" THEN Teardown(asked, core.queries)
        ELSE core' = WriteOut(asked) /\ Hands(core.queries, {}) /\ UNCHANGED <<stream, posted, pending>>

\* write_out_step
RunWriteOut ==
    IF ~TornDown /\ core.sent = core.upto THEN Teardown(core, {})
    ELSE /\ core' = IF TornDown THEN core ELSE WriteOut(core)
         /\ UNCHANGED <<caller, at, stream, posted, pending>>

\* A query's end, whatever it is, or the deadline of a flush or a write.
RunDue(t) ==
    LET waiting == core.queries \cup By(core.flushes) \cup By(core.follows)
    IN  /\ core' = [core EXCEPT !.queries = @ \ {t}, !.flushes = Others(@, t), !.follows = Others(@, t)]
        /\ Hands(waiting \cap {t}, {})
        /\ CallbackPosts(t \in By(core.flushes))
        /\ UNCHANGED stream

\* on_write_done: what waited for it ends, the write-out by posting its step.
RunWritten ==
    LET c == [core EXCEPT !.written = IF @ < core.sent THEN @ + 1 ELSE @]
        flushed == Ended(c.flushes, c.written)
        wrote == Ended(c.follows, c.written)
        over == c.drain /\ c.upto <= c.written
    IN  /\ core' = [c EXCEPT !.flushes = @ \ flushed, !.follows = @ \ wrote,
                             !.drain = @ /\ ~over, !.step = @ \/ over]
        /\ Hands(By(flushed \cup wrote), {})
        /\ CallbackPosts(flushed # {})
        /\ UNCHANGED stream

\* drain_expired
RunDrain ==
    IF core.phase = "writing" THEN Teardown(core, {})
    ELSE UNCHANGED <<caller, at, core, stream, posted, pending>>

\* on_unmatched: into the stream, the oldest going when it is full, one
\* reader woken, in the same step though after the lock; then on_message.
RunMessage ==
    LET taken == stream.registered /\ ~stream.closed
        readers == {t \in Threads : at[t] = "reading"}
    IN  /\ \E R \in IF taken /\ readers # {} THEN {{t} : t \in readers} ELSE {{}} :
               at' = [x \in Actors |-> IF x \in R THEN "recv"
                                       ELSE IF x = Io /\ program.callback = "shutdown" THEN "swap" ELSE at[x]]
        /\ stream' = IF taken /\ stream.held < Capacity THEN [stream EXCEPT !.held = @ + 1] ELSE stream
        /\ CallbackPosts(TRUE)
        /\ UNCHANGED <<caller, core>>

RunClosed ==
    /\ core' = [core EXCEPT !.phase = IF @ = "closing" THEN "closed" ELSE @]
    /\ UNCHANGED <<caller, at, stream, posted, pending>>

Handles(e) ==
    \/ e.kind = "send" /\ RunSend(e.by)
    \/ e.kind = "write" /\ RunWrite(e.by)
    \/ e.kind = "call" /\ RunCall(e.by)
    \/ e.kind = "query" /\ RunQuery(e.by)
    \/ e.kind = "flush" /\ RunFlush(e.by)
    \/ e.kind = "read" /\ RunRead(e.by)
    \/ e.kind = "shutdown" /\ RunShutdown(e.by)
    \/ e.kind = "writeout" /\ RunWriteOut
    \/ e.kind = "due" /\ RunDue(e.by)
    \/ e.kind = "written" /\ RunWritten
    \/ e.kind = "drain" /\ RunDrain
    \/ e.kind = "message" /\ RunMessage
    \/ e.kind = "closed" /\ RunClosed

commands_queued == \E i \in DOMAIN ready : ready[i].kind \in Ops

\* Driver::run: a write-out step behind which commands wait goes to the back.
IoRuns ==
    /\ io = "head" /\ ready # <<>> /\ io' = "after"
    /\ IF Head(ready) = WriteOutStep /\ commands_queued
       THEN /\ ready' = Append(Tail(ready), WriteOutStep)
            /\ UNCHANGED <<caller, at, core, stream, posted, pending>>
       ELSE ready' = Tail(ready) /\ Handles(Head(ready))
    /\ UNCHANGED <<program, shared, asleep, signal, woken, outside>>

\* Then what its callbacks posted is taken, once they returned.
IoAfter ==
    /\ io = "after" /\ at[Io] = "idle"
    /\ io' = IF pending THEN "afterTake" ELSE "top"
    /\ UNCHANGED <<program, caller, at, shared, inbox, ready, woken, core, stream, outside>>

\* The end: the sends still followed hear it, the engine goes, and every
\* result it still owed is told; then whoever asked for the end.
IoLeaves ==
    /\ io = "leaves" /\ io' = "ends"
    /\ Hands(core.queries \cup By(core.flushes \cup core.follows), {})
    /\ core' = [core EXCEPT !.queries = {}, !.flushes = {}, !.follows = {}]
    /\ UNCHANGED <<program, shared, inbox, ready, woken, stream, outside>>

IoEnds ==
    /\ io = "ends" /\ io' = "tells"
    /\ ended' = TRUE
    /\ UNCHANGED <<program, caller, at, stopped, posting, lifecycle, tornDown, completers, inbox, ready, woken, core,
                   stream, outside>>

IoTells ==
    /\ io = "tells" /\ io' = "gone"
    /\ Hands(completers \ {Io}, {}) /\ completers' = {}
    /\ UNCHANGED <<program, stopped, posting, lifecycle, tornDown, ended, inbox, ready, woken, core, stream, outside>>

IoThread ==
    \/ IoTop \/ IoPass \/ IoTakes \/ IoPulls \/ IoFalls \/ IoAsks \/ IoWaits \/ IoAwake
    \/ IoRuns \/ IoAfter \/ IoLeaves \/ IoEnds \/ IoTells

-----------------------------------------------------------------------------
(* The sockets and the timers.                                             *)

Arrives(e) ==
    /\ e \notin events /\ \A i \in DOMAIN ready : ready[i] # e
    /\ events' = events \cup {e}
    /\ arrived' = IF e.kind = "message" THEN arrived + 1 ELSE arrived
    /\ UNCHANGED <<program, caller, at, shared, inbox, driver, core, stream>>

QueryEnds(t) == t \in core.queries /\ Arrives(Entry("due", t))
DeadlinePasses(t) == ~TornDown /\ t \in By(core.flushes \cup core.follows) /\ Arrives(Entry("due", t))
WriteEnds == core.written < core.sent /\ Arrives(Entry("written", Io))
DrainDue == program.drain = "some" /\ core.phase = "writing" /\ Arrives(Entry("drain", Io))
MessageArrives == arrived < program.messages /\ core.phase # "closed" /\ Arrives(Entry("message", Io))
ConnectionsClose == core.phase = "closing" /\ Arrives(Entry("closed", Io))

Init ==
    /\ program \in Programs
    /\ todo = program.ops /\ at = [x \in Actors |-> "idle"]
    /\ refused = {} /\ results = {}
    /\ stopped = FALSE /\ posting = 0 /\ lifecycle = None
    /\ tornDown = FALSE /\ ended = FALSE /\ completers = {}
    /\ posted = <<>> /\ pending = FALSE /\ asleep = FALSE /\ signal = FALSE
    /\ io = "top" /\ ready = <<>> /\ woken = FALSE
    /\ core = [phase |-> "open", queries |-> {}, flushes |-> {}, follows |-> {}, sent |-> 0, written |-> 0,
               upto |-> 0, drain |-> FALSE, step |-> FALSE]
    /\ stream = [made |-> FALSE, maker |-> None, registered |-> FALSE, closed |-> FALSE, held |-> 0]
    /\ events = {} /\ arrived = 0

\* What is bound to go on: the threads, the io thread, and what a query's
\* timer, a write's end and a connection's end bring.
Progress ==
    \/ \E t \in Threads : Calls(t)
    \/ \E x \in Actors : Shuts(x)
    \/ IoThread
    \/ \E t \in Threads : QueryEnds(t)
    \/ WriteEnds \/ ConnectionsClose

Next == Progress \/ (\E t \in Threads : DeadlinePasses(t)) \/ DrainDue \/ MessageArrives

Spec == Init /\ [][Next]_vars
FairSpec == Spec /\ WF_vars(Progress)

-----------------------------------------------------------------------------
(* Properties                                                              *)

Places == {"idle", "check", "count", "recheck", "push", "look", "wake", "uncount", "last", "notify", "posted",
           "wait", "blocked", "join", "recv", "reading",
           "swap", "lock", "counts", "sleeps", "sleeping", "pushes", "wakes", "ended"}
Kinds == Ops \cup {"writeout", "due", "written", "drain", "message", "closed"}
Entries == [kind : Kinds, by : Actors]

ClientTypeOK ==
    /\ at \in [Actors -> Places] /\ todo \in [Threads -> Seq(Ops)]
    /\ refused \subseteq Threads /\ results \subseteq Threads /\ completers \subseteq Actors
    /\ posting \in Nat /\ lifecycle \in Actors \cup {None}
    /\ posted \in Seq(Entries) /\ ready \in Seq(Entries) /\ events \subseteq Entries
    /\ core.queries \subseteq Threads /\ core.written \in 0..core.sent /\ core.upto <= core.sent
    /\ stream.held \in 0..Capacity /\ arrived \in 0..program.messages

Counted == {t \in Threads : at[t] \in {"recheck", "push", "look", "wake", "uncount"}}
Queued == ready \o posted

\* What threads posted is in the queue ahead of the shutdown, and none of
\* it is left once that ran.
NothingBehindShutdown ==
    /\ core.phase # "open" => \A i \in DOMAIN Queued : Queued[i].kind \in Ops => Queued[i] = Entry("send", Io)
    /\ \A i, j \in DOMAIN Queued :
           Queued[i].kind = "shutdown" /\ i < j /\ Queued[j].kind \in Ops => Queued[j] = Entry("send", Io)

\* A thread that waits has its result, or whoever gives it still holds its
\* command; the one blocked has none yet.
NobodyForgotten ==
    \A t \in Threads :
        /\ at[t] \in {"wait", "blocked"} =>
               \/ t \in results \cup completers \cup core.queries \cup By(core.flushes \cup core.follows)
               \/ \E i \in DOMAIN Queued : Queued[i] = Entry(Op(t), t)
        /\ at[t] = "blocked" => t \notin results

\* The io thread does not wait for its sockets with something posted that
\* nobody is about to wake it for.
PostWakes ==
    /\ posted # <<>> => pending
    /\ io = "waits" /\ pending /\ ~signal =>
           \E x \in Actors : at[x] \in {"wake", "wakes"} \/ (asleep /\ at[x] = "look")

\* post() and shutdown() racing lose no command: `posting` counts exactly
\* the posts between their two looks at `stopped` and their end; whatever a
\* thread posted is run ahead of the shutdown's own command; whoever waits
\* for a result is owed it; a posted command finds the io thread awake or a
\* wake on its way; and the io thread ends with nothing queued
\* (threaded_client.rs post, shutdown, io_thread; inbox.rs).
NoPostLost ==
    /\ ClientTypeOK
    /\ posting = Cardinality(Counted)
    /\ NothingBehindShutdown
    /\ NobodyForgotten
    /\ PostWakes
    /\ io \in {"leaves", "ends", "tells", "gone"} => ready = <<>> /\ posted = <<>>

\* Nobody sleeps over a stream that has something for them: while one
\* reader waits, as many others are about to look as the stream holds
\* messages, a closed one has nobody waiting, and one that was made is
\* closed once the client tore down, unless its maker is about to
\* (pending.rs Queue, core/threaded.rs register_inbox and teardown).
ReadersWoken ==
    /\ \A t \in Threads : at[t] = "reading" =>
           /\ ~stream.closed
           /\ stream.held <= Cardinality({u \in Threads : at[u] = "recv"})
    /\ TornDown /\ stream.made => stream.closed

\* Every call returns, a read of the stream once there is a message or the
\* client was shut down: no result, wake or notification is lost, by
\* whichever thread or callback shuts the client down (threaded_client.rs
\* post, call, shutdown, Handle::drop; pending.rs wait, recv).
EveryCallReturns ==
    \A t \in Threads : at[t] # "idle" /\ (Op(t) # "read" \/ stopped) ~> at[t] = "idle"
=============================================================================
