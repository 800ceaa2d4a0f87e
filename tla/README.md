# A verification project for the multiplexer's client core

The repository is a TCP message broker: the multiplexer itself (C++,
`multiplexer/server.cc`) and client libraries in Rust, C++ and Python.  The
Rust client is built on a deterministic core (`rust/mx-multiplexer/src/core`):
one thread, events in, actions out, a queue of posted work and one timer heap.
Around it stand a synchronous client, which runs the core's loop only inside
its own calls, a threaded client with an io thread, and two servers, plain and
threaded, built on them.  The C++ client has the same parts under the same
names.  The modules here are translated from the Rust code; the multiplexer is
translated from `server.cc` where a client's correctness depends on what it
does: registration and changes of the routing, and, over-approximated, what
becomes of a message it routes.

Paths below are relative to `rust/mx-multiplexer/src` unless they start with
`multiplexer/` or `docs/`.

- [The parts and how they interact](#the-parts-and-how-they-interact)
- [Modules](#modules)
- [Runs](#runs)
- [Fairness](#fairness)
- [Proofs](#proofs)
- [Where the code and its documentation differ](#where-the-code-and-its-documentation-differ)
- [Not modelled](#not-modelled)

## The parts and how they interact

```
program threads ── ThreadedClient ──┐            ┌── Turns ── plain server (Leaving)
 (post, results, streams, shutdown) │            │   (whose turn it is on the client)
                                    ▼            ▼
                             the core: one handler at a time
        Query ── Batching ── Confirming        Routing ── ThreadedServer, Leaving
             \       |        /                   |
                  Outbox  (held, backlogs, deadlines, flushes, write-out)
                     |
                Connections, Heartbeats  (lifecycle; timers; the driver's pass)
                     |
                 multiplexers (Routing), consumers (Confirming)
```

A message the program sends joins an open batch or goes to the outbox; the
outbox places it on a registered connection's queue, in that connection's
backlog, or holds it for the first connection to come up.  Queries and
confirmed sends are state machines over the outbox: they follow what became of
their messages and send again, or tell the program.  Routing tells every
multiplexer which messages its rules may route here and learns when all of them
do as told, which is what a draining server waits for.  The threaded client
puts an io thread under all of it.

One module models one part; where two parts interact, either one module
EXTENDS the other (Leaving and ThreadedServer extend Routing) or the module
models the other part by its interface and says so in its header (Query models
the outbox by the four things it may do with an attempt; Batching sees of the
connections how much each has to write).

## Modules

Every action is one whole handler of the core, since the core runs one at a
time; in Turns, ThreadedServer and ThreadedClient, where threads share state,
every action is one atomic access, one critical section or one wait.  Bounds
are constants named `Max...`, and guards of the actions they bound.

### Query (`core/query.rs`)

A request that expects one answer: sent to any backend of a type or to one
address, then a search for a backend, then the request again to the instance
found, and possibly a wait for a late reply.  A query is the record `InFlight`;
each handler (`start_request`, `search`, `send_direct`, `refused`, `wait_late`,
`on_down`, `followed_handover`, `deadline`, `restart`) is an operator from
record to record, and the actions apply them.  `backend` says who has each
attempt beyond the connection, which no code knows: the properties compare what
the query believes with it.  The outbox writes, hands over, holds or gives up an
attempt; a multiplexer gives it to a backend, bounces it or loses it.

### Outbox (`core/outbox`, the queue of `core/connection.rs`, the shutdown of `core/threaded.rs`)

Sends ONE way or to ALL, with no lane, a sticky or a pinned one, with no time to
wait, a deadline or none; a full queue's backlog; messages held while no
connection is registered; the handover of what a dead connection had not
written; the drop of what expired; `flush_all()`; the `done` each send hears; a
shutdown with or without time to write out.  The state is one record, `box`;
functions of the code are operators from box to box.  Every send is followed
and the drop observer is set, so that every path that tells an end is taken.
Abstracted: entries whose message is over leave their queue at once (the code
skips them later); the order of copies to ALL is the round robin's; replacing a
stale connection is its end followed by the registration; at most one heartbeat
is in a queue.  Forced frames, batches and confirmations are other modules'.

### Connections (`core/client/connect.rs`, the lifecycle of `core/connection.rs`)

Targets given and dropped, resolving a name, connecting to its addresses in
turn, the handshake, registration that replaces or is refused for another
connection to the same multiplexer, the ways a connection ends with a write in
flight or not, reconnects, shutdown.  A connection is a slot, used again once
nothing of its connection is left.  `ReadEnds` stands for an end of stream, an
error, a malformed frame, silence and the bound of reading to the end.  The
branch of `async_connect` for a target that already has a connection is not
reachable by its callers.

### Heartbeats (`core/connection.rs` timers, `driver.rs`)

Discrete time, one connection.  The heartbeat after an interval with nothing to
write, the two waits that drop a silent connection, the bound of reading to the
end, and the driver's pass: frames before timers, and a timer left where it is
that finds, when due, the moment to move on to.  A client's loop is an io
thread (late for nothing), a synchronous client's whose calls end with nothing
queued in the driver, or one whose calls may end with work queued.  Real-time
promises are stated as safety: the time cannot pass the moment a step is owed.

### Routing (`core/client/routing.rs`, `core/client/connect.rs`, `multiplexer/server.cc`)

`set_routing`, the welcome, `PEER_CONTROL` and `PEER_STATUS` over FIFO channels
that are lost with their connection, the multiplexer at the other end with its
registration, its answers and its refusals, the receive queue, and the
callbacks of a change.  A change is its version, a message the version it was
routed under.  Key filters travel the same way and are not told apart.

### Leaving (`servers/plain.rs`, extends Routing)

The serve loop of a plain server from the request to drain to the close: the
wait and its last look, the handler, `drained()`, `refuse_arrivals()`, the cap,
`stop()`.  Of what the server sends only the count held for a connection is
kept, from when it is sent: batches, which `drained()` flushes before it counts,
are not told apart.  `drained()` and `refuse_arrivals()` are one step; what the
code reads between them it handles, so that the model only refuses more.
`drained()` is the default one; the wake flag of the code is Routing's
`wake` and `heldWake` together.  With a queue (`Room`) too small for the
multiplexer's answer, the multiplexer gives up on answering and a drain without
a cap does not end: the run's instance has room.

### Turns (`servers/plain.rs`, `Shared`)

One mutex over the client, held by the loop while it waits in epoll, asked for
by calls from any thread: the count of those asking, the wake, the mutex and
condition variable by which the loop lets them go first.  Atomics are
sequentially consistent; the condition variable may wake for nothing.

### Confirmer, Confirming (`core/confirming`), AtLeastOnce

Producer and consumers of confirmed sends: numbering, runs of numbers, the
confirmations owed, refusals, failures, sending again in a new envelope, the
deadline a batch and what is sent again of it share, `DELIVERY_ERROR`s, frames
and confirmations lost, consumers that leave or crash, connections that close.
The producer's `Confirmer` is one record; module Confirmer has its handlers
(`wait_for_confirmation`, `send_again`, `on_confirmation`,
`confirmations_on_closed`, ...) as operators from record to record, and
Confirming the steps of producer, consumers and network that apply them.
`marks`, a history, keeps the last number of each batch first sent: what a flush
may wait up to, and which batch's deadline is a message's own.  `AtLeastOnce`
says what the sender is promised; Confirming implements it.
A message alone may be past MAX_MESSAGE_SIZE with what an envelope adds to it:
the code finds out as it makes the envelope (`send_batch`), at the first sending
or, envelopes' ids differing in length, when it is sent again, and gives up on
the message at once (`cannot_confirm`).  `TooLarge` says which messages are too
large in which envelopes; `AtLeastOnce` lets a message end so.
Abstracted: what one CONFIRMATION refuses is sent again in the order of
numbers, what goes together in one envelope (the code cuts it in two where the
new id makes it too long); the frame kept for sending again reads back, being
what `batch_frame` made, so that the branch of `core/confirming/again.rs:50` for
one that does not is left out; a frame set aside when its connection dies is one
written later or by another connection; the deadline in the outbox and the
confirmer's timer are one event; timers are not armed but may come at any
moment.

### Batching (`core/batching.rs`, `core/bodies.rs`, `core/plain.rs`)

Open batches by type and key, the delivery set for each, the limits by count
and by bytes, the delay and the deadline over one timer, the wait for a
connection with nothing left to write, cutting, and what every other send does
to open batches.  A batch is the number of its first message; bytes are those
of an envelope, a tag per message and the bodies; times count down.  The
round robin is any living connection; what expires in a backlog leaves the
queue full.  The pools of buffers are left out.

### ThreadedServer (`servers/threaded.rs`, extends Routing)

The io thread queues requests for the workers; the serving thread waits, runs
the callbacks of acknowledged changes and looks whether a drain is over;
`start_draining()`, `stop()`, `set_key_filters()`, a worker's failure and
`close()` come from other threads.  The flag and the notification of
`wake_loop` are one step, and so are the reads of one pass of the loop's
check, except for those between which the code lets other threads run
(`drained()` asks the io thread twice).  The server starts with its workers
running: `connect()`, which starts them under the lock unless a `close()` shut
the queue before, is not raced with `close()`.  The callers of `close()` are the
serving thread and one other; a worker's is refused by the code before it
changes anything.  `refused` counts what a living connection brought: the code
refuses what comes by a dying one as well, which no confirmation covers.  A
request is done when its handler returns, also one the handler keeps to answer
later.  Answers to searches and the log line of a full queue are left out.

### ThreadedClient (`threaded_client.rs`, `inbox.rs`, `pending.rs`, `core/threaded.rs`)

Threads that post commands, wait for results and read a stream; the io thread's
loop, its sleep and its wake; a shutdown by a thread, by the drop of the last
handle or by a callback.  `query` stands for every call that ends with a
result the core finds later (query, connect), `call` for the short ones,
`write` for a send whose `written()` is waited for, `read` for `messages()` and
a receive with no deadline.  One access to shared state per step, but for
these, each of which is one step here and several in the code:

- a push to the inbox with its flag, and the shutdown's push with its swap of
  `asleep`: two accesses nobody can tell apart;
- what the io thread, or the maker of a refused stream, does under a lock with
  the notification it sends after unlocking: a message pushed to the stream with
  its `notify_one`, the stream's close with its `notify_all`, a result delivered
  with its `notify_all`; and all the results one entry of the queue delivers.

Of the second kind the windows are not explored.  Whoever looks in one finds
what was just put there and does not go to sleep over it, and whoever slept
before it is notified at its end.  What the merge leaves out is a reader that
goes to sleep inside the window, another having taken the message, and gets the
notification in the place of one that slept before: both have an empty stream to
sleep over.  That is an argument, not a check; and what a thread that has its
result does before the next result of the same entry is delivered is not
explored either.

Atomics are sequentially consistent.  Left out: spurious wakes,
async wakers, receive timeouts, panics, fork checks, the bound of a turn, and
the inbox of confirmations.  A drop happens only when no other thread uses a
handle, which the type system sees to.

## Runs

`tlc -config <cfg> <module>` in this directory.  Deadlock is not checked: every
instance is a program that ends or whose bounds are used up, and stops then;
that it does not stop too soon is what the liveness properties say.

| run | module, cfg | distinct states | what it shows |
|---|---|---|---|
| `query` | MCQuery | 304,332 | no query fails while an attempt may still be answered (`NoFalseFailure`, `HopeRemembered`), nothing it waits for is forgotten (`NothingForgotten`), it never goes back a stage (`NeverBack`) and, given a timeout, ends (`EveryTimedQueryEnds`) |
| `outbox` | MCOutbox | 987,965 | every copy is in one place and counted there (`Accounted`), its end is told once (`EndsOnce`), a stream keeps its order and its lane (`StreamsKept`), a flush and a write-out wait for what was sent before (`FlushHonest`, `WrittenOutFirst`) |
| `outbox_ends` | MCOutbox, MCOutboxEnds.cfg | 3,197 | every send with a deadline and every flush ends (`AllEnd`) |
| `leaving` | MCLeaving | 241,572 | a confirmed drain refuses nothing (`NothingRefused`), and a drain ends (`DrainEnds`) |
| `turns` | MCTurns | 26,001 | no wake is lost (`NoWakeLost`), every call gets its turn and stop() is heard (`EveryTurnComes`) |
| `confirming` | MCConfirming | 172,405 | the producer's books agree (`BooksAgree`), a message is given up on only for cause (`GivenUpForCause`), and the whole implements AtLeastOnce (`AtLeastOnceSpec`) |
| `confirming_ends` | MCConfirming, MCConfirmingEnds.cfg | 104,295 | every confirmed message ends with no deadline to end it (`EverySendEnds`) |
| `connections` | MCConnections | 21,928 | wanted targets are kept and dropped ones left (`AsWanted`), one connection per multiplexer, its end told once (`OneEach`), a wanted target is connected again and a shutdown leaves nothing (`SettlesInTheEnd`) |
| `heartbeats` | MCHeartbeats | 5,635,262 | an io thread is on time (`OnTime`), only silence drops (`SilentOnly`), idling costs no connection of a client whose calls end with nothing queued in the driver (`IdlingKeeps`) |
| `batching` | MCBatching | 356,684 | each message goes once and in order (`EachOnceInOrder`), within what was asked for (`AsAskedFor`), no batch waits without cause (`WaitsForCause`), a send that runs no loop places no frame (`QuietSend`), every batch goes (`EveryBatchGoes`) |
| `threaded_server` | MCThreadedServer | 203,315 | no request is lost (`NoRequestLost`), a confirmed drain refuses nothing (`NothingRefused`), the routing it rests on is in effect (`AcknowledgedHolds`), requests are served before the shutdown (`ServedBeforeShutdown`), drains, callbacks and closes happen without a poll (`DrainEnds`, `CallbackRuns`, `CloseReturns`) |
| `threaded_client` | MCThreadedClient | 373,022 | no posted command is lost or runs behind the shutdown (`NoPostLost`), no reader sleeps over a message (`ReadersWoken`), every call returns (`EveryCallReturns`) |

Many of these names are conjunctions of narrower statements, which the modules
state and comment one by one.

### The bounds, and why they are enough

- `query`: one query of each kind over two connections, so that a search, a
  handover and a replacement connection all happen to it; or two queries alike
  that wait for one connection, where the waiting list and its count of ended
  entries matter.  In the second program no attempt is refused and only the
  first query's search is answered: what refusals do to one query is the first
  program's.
- `outbox`: a queue of one frame, so that the second message waits in a
  backlog, and two targets with one connection each, so that one can die with
  another to hand over to.  `outbox_ends` has one target with two connections,
  one after the other.  What a program does is chosen at the start, so that
  each program is explored whole.
- `leaving` and `threaded_server`: one connection that comes and goes at either
  end, two messages, and one or two changes of the routing: enough for a message
  routed under the old routing to be on its way, read, queued or in hand when
  the confirmation comes.  With one connection and room for all its frames, a
  request lost in a full receive queue, and one routed by another connection
  while the first confirms, are the proofs' business alone
  (`RoutingAcknowledgedHolds`, `ThreadedServerAcknowledgedHolds`).  In both runs
  the queue has room for the drain's own `PEER_CONTROL`, so that `DrainEnds` is
  about one that is lost only with its connection.
- `turns`: two callers and the loop's own handler, three calls: two that ask at
  once, and one more while the loop gives way to them.
- `confirming`: two consumers, up to symmetry, so that what is sent again may be
  handled by another one; one loss; two messages in one envelope or two; the
  first is too large for the second envelope, so that it is given up on when it
  alone is sent again.  `confirming_ends`: three messages one by one, where the
  second and the third may be too large as they are first sent; or a batch of
  three, so that a run is split in the middle, and three envelopes, the third
  sent again of what was sent again.
- `connections`: two targets, one of them a name with up to two addresses, two
  slots and two multiplexers, so that two targets may reach one multiplexer.
- `heartbeats`: waits of different length (2, 3 and 2 ticks) and time up to
  9 ticks: both waits in full after one that a frame took back, and a timer that
  is found to have moved.
- `batching`: three messages over a type and a key of it, three deliveries
  changed twice, limits reached by count and by bytes.
- `threaded_server`: ten programs of what happens besides serving, `QueueSize`
  0 so that a second request finds the queue full with one worker.
- `threaded_client`: eight programs of two or three threads; a stream that
  holds one message, so that a second pushes it out.

## Fairness

Liveness is stated under what the code's own loops guarantee, and no more.

- **Query**: timers come due and posted work runs.  Nothing is assumed of
  connections, multiplexers or backends.
- **Outbox**: a write under way ends or its connection does (a silent one is
  dropped, Heartbeats), timers and posted passes run, deadlines pass.
- **Leaving**: the loop goes on, its poll and cap pass, and the client's events
  are handled whenever it waits, strongly, since its waits come and go; a drain
  without a cap also needs multiplexers that answer.
- **Turns**: every thread runs; the condition variable's mutex is strongly fair,
  since the loop may let go of it and take it again for nothing.  No message
  comes and nothing else wakes the wait.
- **Confirming**: while something is due that a loop does without being asked,
  some step happens.  `confirming_ends` also assumes that `retry_after` outlasts
  what is on its way (`Patient`), as docs/delivery.md:428 asks of its user.
- **Connections**: timers come due, a connection reading to its end gets there,
  writes end, and each target's multiplexer is reached in the end.  The reconnect
  timer is strongly fair because slots are short in the model alone.
- **Batching**: timers, time, and writes that end or whose connection dies.
- **ThreadedServer, ThreadedClient**: weak fairness of the union of the steps
  that happen of themselves (threads, io thread, multiplexers' answers, timers
  of held messages and queries, ends of writes and connections): while one of
  them can go on, one does.  No poll ends the server's wait; no drain timer,
  deadline or message is assumed to come to a threaded client.

## Proofs

Checked by `tlapm`, for every value of the constants, under the named
assumptions of the modules: the sets a constant is in, that a "nobody" value is
none of the actors, that lengths of waits are not zero, that threads, workers
and queries are finitely many, that a threaded server has a worker
(`servers/threaded.rs:598` makes at least one).

- **QueryProofs** `QueryTypeOK`, `QueryHopeRemembered`, `QueryNoFalseFailure`,
  `QueryNothingForgotten`, `QueryNeverBack`.  A query fails only when no attempt
  of it can be answered any more.  That alone is not inductive: the step that
  ends a query relies on what the query noted about its attempts at earlier
  stages.  `HopeRemembered` says those notes are right, and the two together
  are.  That nothing is forgotten needs the books of every query, by its stage
  (`Kept`: what went out, what is watched, how often the timer was armed), and
  those of the waiting list (`KeptInv`); the same lemmas show that no handler
  takes a query back.  Each handler has lemmas of its own, from record to
  record; the actions apply them.
- **RoutingProofs** `RoutingAcknowledgedHolds`.  The invariant follows a change
  along its way.  The versions in the channel to the multiplexer rise towards
  the client's (`Rising`); nothing older than an answer is behind it in the
  channel back (`Answers`); a connection that confirmed therefore has nothing
  older behind it (`Clean`); and the older messages that still wait were counted
  when the last connection confirmed (`Counted`).  It holds for any number of
  connections, changes and messages; the runs that extend Routing have one
  connection.  A client whose acknowledged routing takes nothing is `Quiet`: no
  message by the rules is on its way to it, nor will one be, on connections that
  come up later included.  The two servers' proofs rest on that.
- **LeavingProofs** `LeavingNothingRefused`.  The loop refuses only at its end,
  and it comes there, unless its cap or `stop()` ended the drain, by an
  acknowledgement: the client is Quiet then and stays so (`Calm`).  A refusal is
  the one step that is not a step of Routing; it keeps Routing's invariant by
  itself.
- **ThreadedServerProofs** `ThreadedServerRefinesRouting`,
  `ThreadedServerAcknowledgedHolds`, `ThreadedServerNoRequestLost`,
  `ThreadedServerServedBeforeShutdown`, `ThreadedServerNothingRefused`.  Every
  step of every thread is a step of Routing or leaves its state alone, so what
  Routing promises holds here.  No request is lost because each is in one place,
  in the queue in its order or in one worker's hands (`Hands`, `Line`), which
  makes the counts those of sets (`Tally`, `Awaited`); a worker leaves only a
  queue that is shut and empty (`Staffed`).  A drain that `drained()` ended
  refuses nothing: the loop has one question at the io thread at a time
  (`Mail`), and between its two answers the client stays Quiet and the queue
  open (`Calm`, `Shutting`).
- **ThreadedClientProofs** `ThreadedClientNoPostLost`,
  `ThreadedClientReadersWoken`.  One thread alone gets from its swap of `stopped`
  to its own command, and by then no thread is left that could still push
  (`Leading`, with `posting` the exact number of those between the two looks);
  so the command is the last of theirs in the queue (`Ordered`), and whoever
  waits is owed a result by the queue or by the core (`Told`).  A reader asleep
  over the stream has as many others about to look as it holds messages; that
  the stream of a client torn down is closed needs, of a stream that was made,
  that its command is still queued, or registered it, or closed it
  (`Registering`): no command is left behind the shutdown's, by the first
  theorem.
- **ConfirmerProofs**, **ConfirmingProofs** `ConfirmingBooksAgree`,
  `ConfirmingGivenUpForCause`, `ConfirmingAtLeastOnce`.  ConfirmerProofs shows of
  each handler what it makes of the books (`Follows`): every message not ended is
  open in one batch (`Kept`), lies in one run, which counts what is left of it
  (`Found`), and no batch holds messages of two groups (`Marked`).  Within a
  handler these hold only but for the batch at work, so `Kept` and `Found` take
  it as a parameter.  ConfirmingProofs adds that whatever is on its way, queued or
  owed speaks of messages sent, and of one as processed or failed only when a
  program was done with it or failed on it (`Carried`), and that each message
  given up on has its cause (`Caused`): the deadline of its batch, a failure,
  the shutdown, or an envelope that could not hold it; the three together are inductive.  The
  refinement follows from them step by step: a step of the producer ends messages
  that were processed, or failed, or are late or too large.  What a CONFIRMATION refuses goes
  again piece by piece, as many as it names: the property of that loop is shown
  by its least counterexample.  An earlier `GivenUpForCause` let the deadline of a
  later batch, once it had passed, excuse a message of an earlier one; the
  attempt to prove it found the statement to be weaker than meant, and it now
  asks for the deadline of the message's own batch.
- **ClientProofs** `TurnsNoWakeLost`.  For any number of threads; the invariant
  adds who holds the two mutexes, as a function of where each thread is, and
  that the loop goes to wait only for someone.
- **ClientProofs** `ConnectionsAsWanted`, `ConnectionsOneEach`.  The four
  statements are inductive only together: a wanted target is kept because
  `byTarget` names only connections nobody was told are gone, and that holds
  because `byPeer` names only registered ones, which a welcome shuts down.
- **ClientProofs** `HeartbeatsOnTime`, `HeartbeatsSilentOnly`,
  `HeartbeatsIdlingKeeps`.  For every length of the waits.  A timer is left where
  it is while what it waits for moves on, so the invariant bounds where it may
  be: the heartbeat's never past an interval after the queue emptied, the first
  wait's never past its length after the last frame, the second's never before
  both.  The third theorem has one hypothesis, that heartbeats come more often
  than the two waits together (3 seconds to 90 in `defaults.rs`); the statement
  itself excepts the client whose calls leave work queued in the driver, of whom
  it is false (see below).

`Counting` states the few facts about sizes of finite sets that these proofs
use.  A proof module states its lemmas under them (`CountFacts`) and proves
them from the library at its end, so that the provers see no more than they
need.  A step that Zenon proves names it: in long modules, steps tried with
the SMT backend were seen to take longer the more obligations came before them.

Only model-checked: every liveness property (liveness under fairness, and
ENABLED, are out of the prover's reach), and the safety properties of Outbox and
Batching.  Their handlers fold over queues of frames and over the messages of a
batch, and what their properties say is about sums, orders and concatenations of
whole sequences: induction over data.

## Where the code and its documentation differ

Met while translating.  The models do what the code does, and the properties
are stated so that they hold of it; each of these is therefore an exception in
a property's statement, or something no property claims.

Outbox and queries:

- `core/query.rs:638`: a query's second request goes through the connection its
  PING came by, also when the query's lane is pinned to another;
  docs/api_python.md:414 calls a pinned lane the guarantee that everything
  through it went through one multiplexer.
- `core/outbox/mod.rs:346`: a message to ALL that was handed back and is held
  whole again may reach one connection twice; docs/events.md:157 says one copy
  per connection.
- `core/outbox/flush.rs:162`: a flush does not wait for a frame set aside by a
  connection that died while writing it, nor for a copy to ALL on a connection
  not registered yet; docs/events.md:159 says it waits for every copy, and
  docs/api_rust.md:660 for everything sent before it.
- `core/outbox/mod.rs:465`: a held message whose deadline passed is placed if a
  connection comes up before the timer runs; `core/outbox/expiry.rs:6` says it
  is dropped at its deadline.
- `core/outbox/mod.rs:487`: the `done` of a held message to ALL follows its first
  copy alone; the comment at `core/outbox/mod.rs:56` says 0 is heard once every
  copy was given up on.

Routing and servers:

- `core/client/routing.rs:185`: a connection whose write failed and that is read
  to its end is not waited for, and what it read comes after the
  acknowledgement; `sync_client.rs:624` says everything routed before was
  received.
- `core/client/routing.rs:205`: a confirmation undone by a new connection and
  given again wakes nobody, so a drain then ends at its next poll or its cap;
  docs/leaving.md:42 says the confirmation wakes the loop.  `DrainEnds` of
  ThreadedServer leaves this case out (`reopened`).
- `servers/plain.rs:446`: a wait that began before `start_draining()` may outlast
  the drain's cap; `servers/plain.rs:405` says no wait does.
- `servers/threaded.rs:459`: `draining` is set before the drain's routing is
  posted, and a loop that looks in between finds the old routing acknowledged
  and ends the drain early; `NothingRefused` tells such an end apart
  (`ended = "early"`).
- `servers/threaded.rs`: the callbacks of acknowledged changes run before
  `drained()` is asked, so that a request done in between ends the server with a
  due callback of `set_key_filters()` not run; and `drained()` reads the work
  left, the acknowledgement and what is held one after the other, so that a
  reply sent in between may be held and dropped at the close.

Others:

- `core/confirming/again.rs:195`: the DELIVERY_ERROR of an envelope that was sent
  again meanwhile is handed to the program; docs/delivery.md:421 says it sees
  none for a confirmed batch.
- `driver.rs:368`: calls that end with a timer's entry left in the ready queue
  let a long idle cost a synchronous client its connection; the comment at
  `core/connection.rs:470` says idling alone never does.  `IdlingKeeps` is
  checked for the calls that leave none.
- `core/bodies.rs:306`: a batch may be cut one message sooner than its bytes
  need; `core/bodies.rs:203` says as many as fit.

## Not modelled

- **The C++ client** has the same parts under the same names as the Rust core,
  whose files say what they mirror; the Rust code is the one translated.
- **The multiplexer beyond registration and routing changes**: routing by rules
  and delivery errors appear as what they may do to a client's message (it is
  given to somebody, bounced or lost), whatever the rules; the rules and key
  filters work on configuration tables; its several loops share tables whose
  interleavings would be a project of their own.
- **The synchronous client's calls** hand to the core what the other modules
  model; its loop is in Heartbeats, its waits in Leaving, its quiet sends in
  Batching.
- **The driver's sockets**: epoll, partial reads and writes are I/O.  The pass
  and its order are in Heartbeats.
- **The receiving side beyond routing and confirmed sends**: the window of the
  last 2048 ids, which drops the copies of a message that came through several
  multiplexers, is not modelled; the modules follow one copy to its reader.
- **Frames and the wire format**: conversions of bytes, tested with vectors.
- **Python bindings, mxcontrol, the recorder, metrics, HTTP, the fork guard,
  ids, endpoints and logging**: conversions, command lines, files and counters,
  with no protocol between actors of their own.
