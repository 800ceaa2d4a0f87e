--------------------------- MODULE ThreadedServer ---------------------------
(***************************************************************************)
(* A threaded server (servers/threaded.rs): the io thread of its client,   *)
(* whose routing is Routing's, queues what arrives for the workers; the    *)
(* serving thread waits, runs the callbacks of acknowledged changes and    *)
(* looks whether a drain is over; start_draining(), stop(),                *)
(* set_key_filters() and close() come from any thread.  A step is one      *)
(* critical section of the code, one event of the io thread or one command *)
(* run by it; what the threads ask of the client goes through the io       *)
(* thread's inbox, in order (ThreadedClient).                              *)
(*                                                                         *)
(* A request is the number the queue gave it.  Of what the server sends    *)
(* only the count held for a connection is kept: what has a connection is  *)
(* written at once, or handed back as the last connection goes.            *)
(***************************************************************************)
EXTENDS Routing, FiniteSets

CONSTANTS
    Workers,     \* the worker threads
    QueueSize,   \* queue_size: requests waiting beyond those the workers take
    Programs     \* bounds, by program: the happenings, the workers, the requests

\* What happens besides the service; "poll": a wait ends for no reason.
Happenings == {"drain", "filters", "stop", "close", "fail", "lose", "cap", "poll", "refuse"}

ASSUME ServerAssumption ==
    /\ IsFiniteSet(Workers) /\ Workers # {}
    /\ QueueSize \in Nat
    /\ Programs \subseteq [happens : SUBSET Happenings, workers : (SUBSET Workers) \ {{}}, requests : 0 .. MaxRouted]

VARIABLES
    state,       \* State, what the workers share under one lock
    work,        \* where each worker is: "look", "asleep", "signalled" (off the condition
                 \* variable, not through the lock yet), "handling", "handled", "fails",
                 \* "wakes", "gone"
    holds,       \* the request each worker has in hand
    notifying,   \* the io thread queued a request and is about to notify a worker
    inbox,       \* the commands posted to the io thread
    held, armed, flushing,  \* messages held for a connection; held_flush_armed;
                            \* messages the armed flush waits for
    filtering,   \* the versions of the routing that are changes of key filters
    woken, working, draining, closed,
    program,     \* one of Programs
    capped,      \* the cap of the drain has passed
    bounded,     \* the wait lasts to the cap at most: next_wait() saw the drain
    at,          \* where serve_forever() and another thread of the program are
    closing,     \* who holds close_lock
    refused,     \* requests refused that a living connection brought
    early,       \* drained() was last answered before the drain's routing was told
    ended,       \* how the loop ended: "drained", "early" (drained, so answered), "stopped"
    reopened     \* the drain's acknowledgement was undone by another connection

locked == <<state, work, holds>>
outgoing == <<held, armed, flushing>>
flags == <<working, draining, closed, closing>>
past == <<program, capped, refused, early, ended, reopened>>
own == <<locked, notifying, inbox, outgoing, filtering, woken, flags, past, bounded, at>>
allVars == <<vars, own>>

State == [queue |-> <<>>, busy |-> 0, idle |-> 0, accepted |-> 0, acknowledged |-> <<>>,
          accepting |-> TRUE, failed |-> FALSE]

Callers == {"serve", "program"}
May(happening) == happening \in program.happens
Pending == Len(state.queue) + state.busy
Registered == {c \in Conns : conn[c] = "reg"}
Down == inbox = <<"down">>           \* the io thread has ended
Stopped == inbox # <<>> /\ inbox[Len(inbox)] \in {"shutdown", "down"}

\* A command posted: nothing once the client is being shut down.
Post(command) == inbox' = IF Stopped THEN inbox ELSE Append(inbox, command)

WakeLoop == woken' = TRUE
Moves(t, there) == at' = [at EXCEPT ![t] = there]

-----------------------------------------------------------------------------
(* The workers (work, handle).                                             *)

Goes(w, there) == work' = [work EXCEPT ![w] = there]

\* Mutant: a worker leaves at the close with requests still queued.
Look_leaves(w) ==
    /\ work[w] \in {"look", "signalled"}
    /\ LET idle == IF work[w] = "signalled" THEN state.idle - 1 ELSE state.idle
       IN  \/ /\ state.queue # <<>> /\ state.accepting /\ Goes(w, "handling")
              /\ state' = [state EXCEPT !.queue = Tail(@), !.busy = @ + 1, !.idle = idle]
              /\ holds' = [holds EXCEPT ![w] = {Head(state.queue)}]
           \/ /\ ~state.accepting /\ Goes(w, "gone")
              /\ state' = [state EXCEPT !.idle = idle] /\ UNCHANGED holds
           \/ /\ state.queue = <<>> /\ state.accepting /\ Goes(w, "asleep")
              /\ state' = [state EXCEPT !.idle = idle + 1] /\ UNCHANGED holds
    /\ UNCHANGED <<vars, notifying, inbox, outgoing, filtering, woken, flags, past, bounded, at>>

\* The next request, the end once the queue is shut and empty, or a wait.
Look(w) ==
    /\ work[w] \in {"look", "signalled"}
    /\ LET idle == IF work[w] = "signalled" THEN state.idle - 1 ELSE state.idle
       IN  \/ /\ state.queue # <<>> /\ Goes(w, "handling")
              /\ state' = [state EXCEPT !.queue = Tail(@), !.busy = @ + 1, !.idle = idle]
              /\ holds' = [holds EXCEPT ![w] = {Head(state.queue)}]
           \/ /\ state.queue = <<>> /\ ~state.accepting /\ Goes(w, "gone")
              /\ state' = [state EXCEPT !.idle = idle] /\ UNCHANGED holds
           \/ /\ state.queue = <<>> /\ state.accepting /\ Goes(w, "asleep")
              /\ state' = [state EXCEPT !.idle = idle + 1] /\ UNCHANGED holds
    /\ UNCHANGED <<vars, notifying, inbox, outgoing, filtering, woken, flags, past, bounded, at>>

\* A condition variable may wake without a notification.
Spurious(w) ==
    /\ May("poll") /\ work[w] = "asleep" /\ Goes(w, "signalled")
    /\ UNCHANGED <<vars, state, holds, notifying, inbox, outgoing, filtering, woken, flags, past, bounded, at>>

\* The handler, which replies or not, or whose failure is reported.
Handle(w) ==
    /\ work[w] = "handling" /\ Goes(w, "handled")
    /\ Post("reply") \/ UNCHANGED inbox
    /\ UNCHANGED <<vars, state, holds, notifying, outgoing, filtering, woken, flags, past, bounded, at>>

\* Mutant: a request taken after a change counts for it too.
CountedDown_later(acknowledged, n) ==
    [i \in DOMAIN acknowledged |->
        LET waiting == acknowledged[i]
        IN  IF waiting.remaining > 0 THEN [waiting EXCEPT !.remaining = @ - 1] ELSE waiting]

\* The changes waiting for request n, counted down.
CountedDown(acknowledged, n) ==
    [i \in DOMAIN acknowledged |->
        LET waiting == acknowledged[i]
        IN  IF waiting.remaining > 0 /\ n < waiting.before
              THEN [waiting EXCEPT !.remaining = @ - 1] ELSE waiting]

\* Mutant: a callback that is due wakes nobody.
Done_quiet(w) ==
    /\ work[w] = "handled"
    /\ \E n \in holds[w], failed \in {FALSE} \cup {b \in {TRUE} : May("fail")} :
         LET after == CountedDown(state.acknowledged, n)
             last == draining /\ state.queue = <<>> /\ state.busy = 1
         IN  /\ state' = [state EXCEPT !.busy = @ - 1, !.acknowledged = after, !.failed = @ \/ failed]
             /\ Goes(w, IF failed THEN "fails" ELSE IF last THEN "wakes" ELSE "look")
    /\ holds' = [holds EXCEPT ![w] = {}]
    /\ UNCHANGED <<vars, notifying, inbox, outgoing, filtering, woken, flags, past, bounded, at>>

\* The request is done: what waits for it is counted down, and the loop is
\* due when a callback is, or a draining server's last request was this one.
Done(w) ==
    /\ work[w] = "handled"
    /\ \E n \in holds[w], failed \in {FALSE} \cup {b \in {TRUE} : May("fail")} :
         LET after == CountedDown(state.acknowledged, n)
             due == \E i \in DOMAIN after : after[i].remaining = 0 /\ state.acknowledged[i].remaining > 0
             last == draining /\ state.queue = <<>> /\ state.busy = 1
         IN  /\ state' = [state EXCEPT !.busy = @ - 1, !.acknowledged = after, !.failed = @ \/ failed]
             /\ Goes(w, IF failed THEN "fails" ELSE IF due \/ last THEN "wakes" ELSE "look")
    /\ holds' = [holds EXCEPT ![w] = {}]
    /\ UNCHANGED <<vars, notifying, inbox, outgoing, filtering, woken, flags, past, bounded, at>>

\* on_handler_error() ended the server for a failure.
Fails(w) ==
    /\ work[w] = "fails" /\ Goes(w, "wakes")
    /\ working' = FALSE
    /\ UNCHANGED <<vars, state, holds, notifying, inbox, outgoing, filtering, woken, draining, closed, closing,
                   past, bounded, at>>

Wakes(w) ==
    /\ work[w] = "wakes" /\ Goes(w, "look")
    /\ WakeLoop
    /\ UNCHANGED <<vars, state, holds, notifying, inbox, outgoing, filtering, flags, past, bounded, at>>

Worker(w) == Look(w) \/ Handle(w) \/ Done(w) \/ Fails(w) \/ Wakes(w)
-----------------------------------------------------------------------------
(* The io thread: one event or one command at a time.                      *)

IoFree == ~notifying /\ ~Down

\* Mutant: the loop is woken when it waits and at no other time.
Acknowledged_waiting(ran, filters, due) ==
    LET waiting == [before |-> state.accepted, remaining |-> Pending]
    IN  /\ state' = [state EXCEPT !.acknowledged = @ \o [i \in 1 .. Cardinality(ran \cap filters) |-> waiting]]
        /\ woken' = (woken \/ (at["serve"] = "waits" /\ (ran # {} \/ due)))

\* The callbacks of the versions in `ran` run: a change of key `filters` waits
\* for the requests the queue took before it (acknowledged), the drain wakes
\* the loop (wake_handle); `due` when something else wakes it too.
Acknowledged(ran, filters, due) ==
    LET waiting == [before |-> state.accepted, remaining |-> Pending]
    IN  /\ state' = [state EXCEPT !.acknowledged = @ \o [i \in 1 .. Cardinality(ran \cap filters) |-> waiting]]
        /\ woken' = (woken \/ ran # {} \/ due)

\* Of n messages that leave, written or given up on, the armed flush waits
\* for the first ones; its end wakes the loop.
FlushEnds(n) == flushing > 0 /\ flushing <= n
Leave(n) ==
    /\ held' = held - n
    /\ flushing' = IF flushing > n THEN flushing - n ELSE 0
    /\ armed' = (armed /\ ~FlushEnds(n))

\* on_message: queued for a worker, dropped when the queue is full, refused
\* when leaving, and counted then if its connection lives: the routing is
\* not waited for on a connection read to its end.  A worker that waits is
\* notified after the lock.
OnMessage(c) ==
    /\ IoFree /\ HandleMessage(c)
    /\ \/ /\ state.accepting /\ Pending < Cardinality(program.workers) + QueueSize
          /\ state' = [state EXCEPT !.queue = Append(@, state.accepted), !.accepted = @ + 1]
          /\ notifying' = (state.idle > 0) /\ UNCHANGED refused
       \/ /\ state.accepting /\ Pending >= Cardinality(program.workers) + QueueSize
          /\ UNCHANGED <<state, notifying, refused>>
       \/ /\ ~state.accepting
          /\ refused' = (IF Living(c) THEN refused + 1 ELSE refused) /\ UNCHANGED <<state, notifying>>
    /\ UNCHANGED <<work, holds, inbox, outgoing, filtering, woken, flags, program, capped, early, ended, reopened,
                   bounded, at>>

\* notify_one
Notify ==
    /\ notifying /\ notifying' = FALSE
    /\ \/ \E w \in Workers : work[w] = "asleep" /\ Goes(w, "signalled")
       \/ (\A w \in Workers : work[w] # "asleep") /\ UNCHANGED work
    /\ UNCHANGED <<vars, state, holds, inbox, outgoing, filtering, woken, flags, past, bounded, at>>

\* A connection is up: what was held goes to it.
Up(c) ==
    /\ IoFree /\ AfterConnectionRegistration(c)
    /\ Leave(held) /\ Acknowledged(callbacks \ callbacks', filtering, FlushEnds(held))
    /\ UNCHANGED <<work, holds, notifying, inbox, filtering, flags, past, bounded, at>>

\* A connection is gone, and may leave a message with no other to take it.
Lost(c) ==
    /\ IoFree /\ (ConnectionDestroyed(c) \/ WriteFailed(c)) /\ (May("lose") \/ mux[c] = "gone")
    /\ held' \in {held} \cup {n \in {held + 1} : Registered = {c}} /\ UNCHANGED <<armed, flushing>>
    /\ Acknowledged(callbacks \ callbacks', filtering, FALSE)
    /\ UNCHANGED <<work, holds, notifying, inbox, filtering, flags, past, bounded, at>>

Other(c) ==
    /\ IoFree /\ (Open(c) \/ OnPeerStatus(c) \/ ReadToTheEnd(c))
    /\ Acknowledged(callbacks \ callbacks', filtering, FALSE)
    /\ reopened' = (reopened \/ (~takes[version] /\ RoutingAcknowledged /\ ~RoutingAcknowledged'))
    /\ UNCHANGED <<work, holds, notifying, inbox, outgoing, filtering, flags, program, capped, refused, early, ended,
                   bounded, at>>

\* A held message's time is up.
Expires ==
    /\ IoFree /\ held > 0 /\ Leave(1)
    /\ woken' = (woken \/ FlushEnds(1))
    /\ UNCHANGED <<vars, locked, notifying, inbox, filtering, flags, past, bounded, at>>

\* The next command, when it is `command`.
Takes(command) == IoFree /\ inbox # <<>> /\ Head(inbox) = command /\ inbox' = Tail(inbox)

RunDrain ==
    /\ Takes("drain") /\ SetRouting(FALSE, TRUE)
    /\ Acknowledged((callbacks \cup {version'}) \ callbacks', filtering, FALSE)
    /\ UNCHANGED <<work, holds, notifying, outgoing, filtering, flags, past, bounded, at>>

RunFilters ==
    /\ Takes("filters") /\ SetRouting(takes[version], TRUE)
    /\ filtering' = filtering \cup {version'}
    /\ Acknowledged((callbacks \cup {version'}) \ callbacks', filtering', FALSE)
    /\ UNCHANGED <<work, holds, notifying, outgoing, flags, past, bounded, at>>

\* A reply: written, or held when no connection is up.
RunReply ==
    /\ Takes("reply")
    /\ held' = IF Registered = {} THEN held + 1 ELSE held
    /\ UNCHANGED <<vars, locked, notifying, armed, flushing, filtering, woken, flags, past, bounded, at>>

\* Mutant: a drain does not wait for the multiplexers.
RunAsk_any ==
    /\ Takes("ask") /\ Moves("serve", "holding")
    /\ early' = takes[version]
    /\ UNCHANGED <<vars, locked, notifying, outgoing, filtering, woken, flags, program, capped, refused, ended,
                   reopened, bounded>>

\* routing_acknowledged(), asked by drained().
RunAsk ==
    /\ Takes("ask") /\ Moves("serve", IF RoutingAcknowledged THEN "holding" ELSE "periodic")
    /\ early' = takes[version]
    /\ UNCHANGED <<vars, locked, notifying, outgoing, filtering, woken, flags, program, capped, refused, ended,
                   reopened, bounded>>

\* held_for_a_connection(), asked by nothing_held() after a flush that waits
\* for nothing.
RunHeld ==
    /\ Takes("held") /\ Moves("serve", IF held = 0 THEN "over" ELSE "arm")
    /\ ended' = IF held > 0 THEN ended ELSE IF closed THEN "stopped" ELSE IF early THEN "early" ELSE "drained"
    /\ UNCHANGED <<vars, locked, notifying, outgoing, filtering, woken, flags, program, capped, refused, early,
                   reopened, bounded>>

\* The flush nothing_held() arms.
RunFlush ==
    /\ Takes("flush")
    /\ flushing' = held /\ armed' = (held > 0) /\ woken' = (woken \/ held = 0)
    /\ UNCHANGED <<vars, locked, notifying, held, filtering, flags, past, bounded, at>>

\* The shutdown, behind everything posted: the io thread ends.
RunShutdown ==
    /\ IoFree /\ inbox = <<"shutdown">> /\ inbox' = <<"down">>
    /\ UNCHANGED <<vars, locked, notifying, outgoing, filtering, woken, flags, past, bounded, at>>

Command == RunDrain \/ RunFilters \/ RunReply \/ RunAsk \/ RunHeld \/ RunFlush \/ RunShutdown

-----------------------------------------------------------------------------
(* The serving thread (serve, drained, nothing_held).                      *)

\* The wait: none when woken before it, else to the poll, and to the cap of
\* a drain under way (next_wait).
LoopTop ==
    /\ at["serve"] = "top"
    /\ IF woken THEN woken' = FALSE /\ Moves("serve", "acks") /\ UNCHANGED bounded
                ELSE bounded' = draining /\ Moves("serve", "waits") /\ UNCHANGED woken
    /\ UNCHANGED <<vars, locked, notifying, inbox, outgoing, filtering, flags, past>>

LoopWoken ==
    /\ at["serve"] = "waits" /\ woken /\ woken' = FALSE /\ Moves("serve", "acks")
    /\ UNCHANGED <<vars, locked, notifying, inbox, outgoing, filtering, flags, past, bounded>>

LoopAtCap ==
    /\ at["serve"] = "waits" /\ ~woken /\ bounded /\ capped /\ Moves("serve", "acks")
    /\ UNCHANGED <<vars, locked, notifying, inbox, outgoing, filtering, woken, flags, past, bounded>>

\* The poll, or a wake for nothing.
LoopPolls ==
    /\ May("poll") /\ at["serve"] = "waits" /\ ~woken /\ Moves("serve", "acks")
    /\ UNCHANGED <<vars, locked, notifying, inbox, outgoing, filtering, woken, flags, past, bounded>>

\* How many changes, from the first on, have every request done.
DueAcknowledged ==
    CHOOSE n \in 0 .. Len(state.acknowledged) :
        /\ \A i \in 1 .. n : state.acknowledged[i].remaining = 0
        /\ n < Len(state.acknowledged) => state.acknowledged[n + 1].remaining > 0

\* run_acknowledged: the callbacks whose requests are done, in order.
RunAcknowledged ==
    /\ at["serve"] = "acks" /\ Moves("serve", "check")
    /\ state' = [state EXCEPT !.acknowledged = SubSeq(@, DueAcknowledged + 1, Len(@))]
    /\ UNCHANGED <<vars, work, holds, notifying, inbox, outgoing, filtering, woken, flags, past, bounded>>

\* A failure, stop() or a closed server ends the loop, a cap that passed the
\* drain; a drain with nothing pending asks the io thread, and the handler's
\* word on the answer is the default one.
LoopChecks ==
    /\ at["serve"] = "check"
    /\ LET over == ~working \/ state.failed \/ (draining /\ (closed \/ capped))
           asks == ~over /\ draining /\ Pending = 0
       IN  /\ Moves("serve", IF over \/ (asks /\ Stopped) THEN "over" ELSE IF asks THEN "asked" ELSE "periodic")
           /\ IF asks THEN Post("ask") ELSE UNCHANGED inbox
           /\ ended' = IF over \/ (asks /\ Stopped) THEN "stopped" ELSE ended
    /\ UNCHANGED <<vars, locked, notifying, outgoing, filtering, woken, flags, program, capped, refused, early,
                   reopened, bounded>>

\* Asked of a client shut down meanwhile, nothing is held.
AskHeld ==
    /\ at["serve"] = "holding" /\ Post("held")
    /\ Moves("serve", IF Stopped THEN "over" ELSE "counted")
    /\ ended' = IF Stopped THEN "stopped" ELSE ended
    /\ UNCHANGED <<vars, locked, notifying, outgoing, filtering, woken, flags, program, capped, refused, early,
                   reopened, bounded>>

\* One flush at a time is armed.
ArmFlush ==
    /\ at["serve"] = "arm" /\ Moves("serve", "periodic")
    /\ IF armed \/ Stopped THEN UNCHANGED <<armed, inbox>> ELSE armed' = TRUE /\ Post("flush")
    /\ UNCHANGED <<vars, locked, notifying, held, flushing, filtering, woken, flags, past, bounded>>

Periodic ==
    /\ at["serve"] = "periodic" /\ Moves("serve", "top")
    /\ UNCHANGED <<vars, locked, notifying, inbox, outgoing, filtering, woken, flags, past, bounded>>

Loop ==
    \/ LoopTop \/ LoopWoken \/ LoopAtCap \/ RunAcknowledged \/ LoopChecks \/ AskHeld \/ ArmFlush \/ Periodic

-----------------------------------------------------------------------------
(* Calls from any thread.  A drain begins: published first, then told.     *)

Drains(t) ==
    /\ at[t] = "drain"
    /\ draining' = TRUE /\ Moves(t, IF draining THEN "drained" ELSE "tell")
    /\ UNCHANGED <<vars, locked, notifying, inbox, outgoing, filtering, woken, working, closed, closing,
                   past, bounded>>

Tells(t) ==
    /\ at[t] = "tell" /\ Post("drain") /\ WakeLoop /\ Moves(t, "drained")
    /\ UNCHANGED <<vars, locked, notifying, outgoing, filtering, flags, past, bounded>>

StartDraining ==
    /\ May("drain") /\ at["program"] = "idle" /\ ~draining /\ Moves("program", "drain")
    /\ UNCHANGED <<vars, locked, notifying, inbox, outgoing, filtering, woken, flags, past, bounded>>

Drained ==
    /\ at["program"] = "drained" /\ closing # "program" /\ Moves("program", "idle")
    /\ UNCHANGED <<vars, locked, notifying, inbox, outgoing, filtering, woken, flags, past, bounded>>

Stop ==
    /\ May("stop") /\ at["program"] = "idle" /\ working
    /\ working' = FALSE /\ WakeLoop
    /\ UNCHANGED <<vars, locked, notifying, inbox, outgoing, filtering, draining, closed, closing, past,
                   bounded, at>>

SetKeyFilters ==
    /\ May("filters") /\ at["program"] = "idle" /\ Cardinality(filtering) < MaxVersion - 1
    /\ \A i \in DOMAIN inbox : inbox[i] # "filters"
    /\ Post("filters")
    /\ UNCHANGED <<vars, locked, notifying, outgoing, filtering, woken, flags, past, bounded, at>>

\* Time: the drain's cap passes.
CapPasses ==
    /\ May("cap") /\ draining /\ ~capped /\ capped' = TRUE
    /\ UNCHANGED <<vars, locked, notifying, inbox, outgoing, filtering, woken, flags, program, refused, early,
                   ended, reopened, bounded, at>>

-----------------------------------------------------------------------------
(* close(), by the serving thread at its end or by another thread.         *)

Close ==
    /\ May("close") /\ at["program"] = "idle" /\ ~closed /\ Moves("program", "over")
    /\ UNCHANGED <<vars, locked, notifying, inbox, outgoing, filtering, woken, flags, past, bounded>>

\* A worker's own close() is refused before it takes anything; the callers
\* here are no workers.
CloseBegins(t) ==
    /\ at[t] = "over" /\ closing = "nobody"
    /\ closed' = TRUE
    /\ IF closed THEN Moves(t, "done") /\ UNCHANGED closing ELSE Moves(t, "shut") /\ closing' = t
    /\ UNCHANGED <<vars, locked, notifying, inbox, outgoing, filtering, woken, working, draining, past, bounded>>

\* The queue takes nothing more.
CloseShuts(t) ==
    /\ at[t] = "shut" /\ Moves(t, "notify")
    /\ state' = [state EXCEPT !.accepting = FALSE]
    /\ UNCHANGED <<vars, work, holds, notifying, inbox, outgoing, filtering, woken, flags, past, bounded>>

\* Mutant: the close notifies one of the workers.
CloseNotifies_one(t) ==
    /\ at[t] = "notify" /\ Moves(t, "drain")
    /\ \/ \E w \in Workers : work[w] = "asleep" /\ Goes(w, "signalled")
       \/ (\A w \in Workers : work[w] # "asleep") /\ UNCHANGED work
    /\ UNCHANGED <<vars, state, holds, notifying, inbox, outgoing, filtering, woken, flags, past, bounded>>

\* Every worker that waits is notified; then the drain starts, as above.
CloseNotifies(t) ==
    /\ at[t] = "notify" /\ Moves(t, "drain")
    /\ work' = [w \in Workers |-> IF work[w] = "asleep" THEN "signalled" ELSE work[w]]
    /\ UNCHANGED <<vars, state, holds, notifying, inbox, outgoing, filtering, woken, flags, past, bounded>>

CloseStops(t) ==
    /\ at[t] = "drained" /\ closing = t /\ Moves(t, "join")
    /\ working' = FALSE /\ WakeLoop
    /\ UNCHANGED <<vars, locked, notifying, inbox, outgoing, filtering, draining, closed, closing, past, bounded>>

\* The workers joined, what none of them took refused, the client shut down.
CloseJoins(t) ==
    /\ at[t] = "join" /\ \A w \in Workers : work[w] = "gone"
    /\ Moves(t, "ends") /\ Post("shutdown")
    /\ state' = [state EXCEPT !.queue = <<>>] /\ refused' = refused + Len(state.queue)
    /\ UNCHANGED <<vars, work, holds, notifying, outgoing, filtering, woken, flags, program, capped, early, ended,
                   reopened, bounded>>

CloseEnds(t) ==
    /\ at[t] = "ends" /\ Down /\ Moves(t, "done") /\ closing' = "nobody"
    /\ UNCHANGED <<vars, locked, notifying, inbox, outgoing, filtering, woken, working, draining, closed, past,
                   bounded>>

Closes(t) ==
    \/ Drains(t) \/ Tells(t)
    \/ CloseBegins(t) \/ CloseShuts(t) \/ CloseNotifies(t) \/ CloseStops(t) \/ CloseJoins(t) \/ CloseEnds(t)
-----------------------------------------------------------------------------
\* The server as build() makes it, its workers started.
ServerInit ==
    /\ Init
    /\ program \in Programs /\ capped = FALSE /\ bounded = FALSE
    /\ state = State /\ work = [w \in Workers |-> IF w \in program.workers THEN "look" ELSE "gone"]
    /\ holds = [w \in Workers |-> {}]
    /\ notifying = FALSE /\ inbox = <<>>
    /\ held = 0 /\ armed = FALSE /\ flushing = 0 /\ filtering = {}
    /\ woken = FALSE /\ working = TRUE /\ draining = FALSE /\ closed = FALSE /\ closing = "nobody"
    /\ at = [t \in Callers |-> IF t = "serve" THEN "top" ELSE "idle"]
    /\ refused = 0 /\ early = FALSE /\ ended = "no" /\ reopened = FALSE

Event(c) == OnMessage(c) \/ Up(c) \/ Lost(c) \/ Other(c)

\* What a multiplexer is told is applied, unless its key filters do not compile.
Answered(c) == HandlePeerControl(c) /\ (inEffect'[c] = Head(c2s[c]).ver \/ May("refuse"))

Network(c) ==
    /\ MuxRegister(c) \/ Answered(c) \/ (routed < program.requests /\ MuxRoute(c)) \/ (May("lose") /\ MuxGone(c))
    /\ UNCHANGED own

ServerNext ==
    \/ \E w \in Workers : Worker(w) \/ Spurious(w)
    \/ \E c \in Conns : Event(c) \/ Network(c)
    \/ Notify \/ Expires \/ Command
    \/ Loop \/ LoopPolls
    \/ StartDraining \/ Drained \/ Stop \/ SetKeyFilters \/ CapPasses \/ Close
    \/ \E t \in Callers : Closes(t)

ServerSpec == ServerInit /\ [][ServerNext]_allVars

\* What the threads, the multiplexers and time do of themselves: every
\* thread runs, handlers end, the io thread handles what is ready, the
\* multiplexers answer, the cap and the deadlines of what is held pass.  No
\* poll ends the loop's wait, nothing makes a connection fail or a message
\* come.
Progress ==
    \/ \E w \in Workers : Worker(w)
    \/ \E c \in Conns :
          \/ OnMessage(c) \/ Up(c) \/ Other(c) \/ (mux[c] = "gone" /\ Lost(c))
          \/ (MuxRegister(c) \/ Answered(c)) /\ UNCHANGED own
    \/ Notify \/ Expires \/ Command \/ Loop \/ Drained \/ CapPasses
    \/ \E t \in Callers : Closes(t)

\* While one of them can go on, one does; which one is not assumed.
Fairness == WF_allVars(Progress)

FairSpec == ServerSpec /\ Fairness

-----------------------------------------------------------------------------
(* Properties.                                                             *)

Places == {"top", "waits", "acks", "check", "asked", "holding", "counted", "arm", "periodic", "over",
           "idle", "drain", "tell", "drained", "shut", "notify", "join", "ends", "done"}

\* The server's variables keep their types.
ServerTypeOK ==
    /\ state.queue \in Seq(Nat) /\ {state.busy, state.idle, state.accepted} \subseteq Nat
    /\ \A i \in DOMAIN state.acknowledged : state.acknowledged[i].remaining \in Nat
    /\ {state.accepting, state.failed, notifying, armed, woken, working, draining, closed, capped, bounded,
        early, reopened} \subseteq BOOLEAN
    /\ work \in [Workers -> {"look", "asleep", "signalled", "handling", "handled", "fails", "wakes", "gone"}]
    /\ held \in Nat /\ flushing \in 0 .. held /\ filtering \subseteq Versions /\ refused \in Nat
    /\ at \in [Callers -> Places] /\ ended \in {"no", "drained", "early", "stopped"}

Taken == UNION {holds[w] : w \in Workers}
Unfinished == Taken \cup {state.queue[i] : i \in DOMAIN state.queue}

\* The counts are those of the threads: busy of the requests in hand, idle of
\* the workers off to wait, and what an acknowledged change still waits for
\* is exactly the unfinished requests the queue took before it, so that its
\* callback neither runs before one of them is done nor waits for a later
\* one.
CountsExact ==
    /\ state.busy = Cardinality(Taken)
    /\ state.idle = Cardinality({w \in Workers : work[w] \in {"asleep", "signalled"}})
    /\ \A i \in DOMAIN state.acknowledged :
          LET waiting == state.acknowledged[i]
          IN  waiting.remaining = Cardinality({n \in Unfinished : n < waiting.before})

\* While a worker sleeps every queued request has a worker on its way to it:
\* notifying only when one waits, after the lock, loses no request.
WorkFound ==
    (\E w \in Workers : work[w] = "asleep") =>
        Len(state.queue) <= Cardinality({w \in Workers : work[w] \in {"look", "signalled"}})
                              + (IF notifying THEN 1 ELSE 0)

\* A drain its confirmation ended refuses no request the rules routed over a
\* connection still living: what the multiplexers routed before the change
\* came ahead of their confirmations, and the workers finish it.  Two other
\* ends promise nothing: `early`, drained() answered between the flag of
\* start_draining() and its routing (servers/threaded.rs:459), and any end
\* that finds a close() begun, which refuses whatever comes from then on.
NothingRefused == ended = "drained" => refused = 0

\* The client is asked to shut down once every accepted request has been
\* through its handler, with what the handler replied posted: none is left
\* for close() to refuse.  A request the handler keeps, to answer it later
\* from another thread, is done when the handler returns.
ServedBeforeShutdown == [][~Stopped /\ Stopped' => Unfinished = {} /\ state.busy = 0]_allVars

\* A drain ends without a poll, woken by the confirmation, the last request
\* or the last held message: at its cap in any case, else unless a connection
\* that came up after the confirmation undid it.
DrainEnds == draining ~> (at["serve"] = "done" \/ (reopened /\ ~May("cap")))

\* The callback of an acknowledged change runs once its requests are done,
\* without a poll, while the server serves.
CallbackRuns ==
    state.acknowledged # <<>> /\ ~May("poll") ~> (state.acknowledged = <<>> \/ at["serve"] = "done")

\* close() returns, called by the serving thread, by another or by both: the
\* workers hear of it and are joined, the io thread ends.
CloseReturns == (\E t \in Callers : at[t] = "over") ~> (\A t \in Callers : at[t] \in {"idle", "done"})

\* No request is lost between the queue and the workers: each is counted by
\* exactly what waits for it, and a worker is on its way to it.
NoRequestLost == ServerTypeOK /\ CountsExact /\ WorkFound
=============================================================================
