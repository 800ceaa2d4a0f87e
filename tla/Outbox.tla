------------------------------- MODULE Outbox -------------------------------
(***************************************************************************)
(* A client's outbox: what its connections cannot take yet, what a dying   *)
(* connection had not written, a waiting message's deadline, the end a     *)
(* send's `done' hears, flush_all() and the write-out of a shutdown        *)
(* (core/outbox, the write queue of core/connection.rs, the shutdown of    *)
(* core/threaded.rs).                                                      *)
(*                                                                         *)
(* The core runs one handler at a time, so its state is one record, `box', *)
(* each function of the code is an operator from a box to a box, and each  *)
(* action is one event handled whole: a send, a connection that opens,     *)
(* registers or goes, a write that ended, a timer, a posted pass.          *)
(*                                                                         *)
(* Messages are numbered in the order sent; a message's copies are         *)
(* numbered too, and copy t of message n is the tracker <<n, t>> of the    *)
(* code.  An entry in a queue is [n, t, lane].  A connection is its target *)
(* and which of the client's connections to that target it is.             *)
(***************************************************************************)
EXTENDS Integers, Sequences, FiniteSets, SequencesExt

CONSTANTS
  Targets,    \* the multiplexers the client connects to, positive numbers
  Tries,      \* how many connections to each, one after the other
  OutMax,     \* a registered connection's queue: DEFAULT_OUT_QUEUE_SIZE
  MaxSends,   \* bound: the sends of any program
  Flushes,    \* the flush_all() calls a program makes that makes any
  Programs    \* what the program does: one of these, of Program

\* The flush of the shutdown's write-out.
Drain == "drain"
AllFlushes == Flushes \cup {Drain}

ASSUME OutboxAssumption ==
  /\ Targets \subseteq Nat \ {0} /\ IsFiniteSet(Targets)
  /\ Tries \in Nat \ {0} /\ OutMax \in Nat \ {0} /\ MaxSends \in Nat
  /\ Drain \notin Flushes

Lanes == {"none", "sticky", "pinned"}

\* How a message is sent: to ALL or ONE way, through which lane, and whether
\* it has no time to wait, waits for a time, or as long as it takes.
Kind == [all : BOOLEAN, lane : Lanes, wait : {"no", "timed", "long"}]

\* A program: the kinds of send it makes and how many at most, whether it
\* calls flush_all(), whether heartbeats fall due while it runs, and how it
\* shuts down: with time to write out, without, or not at all.
Program == [sends : SUBSET Kind, most : 0 .. MaxSends, flushes : BOOLEAN, beats : BOOLEAN,
            shutdowns : SUBSET BOOLEAN]

ASSUME ProgramsAssumption == Programs \subseteq Program

Conns == Targets \X (1 .. Tries)
NoConn == <<0, 0>>
Target(c) == c[1]

VARIABLES
  box,        \* the client
  program     \* what its program does, of Programs

vars == <<box, program>>

-----------------------------------------------------------------------------
(* Reading the box.                                                        *)

Living(s, c) == c \in Conns /\ s.conn[c] \in {"open", "reg"}

\* Before its registration a connection's queue takes one frame, the welcome.
OutgoingMax(s, c) == IF s.conn[c] = "reg" THEN OutMax ELSE 1

Full(s, c) == Len(s.out[c]) >= OutgoingMax(s, c)

\* The frames a connection sends of its own: the welcome and the heartbeats.
OwnFrame == [n |-> 0, t |-> 0, lane |-> "none"]

Own(e) == e.n = 0

KindOf(s, e) == s.sent[e.n]

Pinned(s, e) == ~KindOf(s, e).all /\ KindOf(s, e).lane = "pinned"

\* No time left to wait.
Past(s, n) == n \in s.due

TrackerState(s, n, t) == s.track[n][t].st

HeldWhole(s, n) == \E i \in DOMAIN s.held : s.held[i].n = n

-----------------------------------------------------------------------------
(* The ends: followed sends and flushes (flush.rs).                        *)

\* A flush is done once what it counts no longer waits, every frame it marked
\* is out, and the callbacks of what ended have run.
Checked(s, fl) ==
  LET marks == {m \in fl.marks : TrackerState(s, m.n, m.t) = "queued"}
  IN  IF fl.st # "on" THEN fl
      ELSE IF fl.waiting = 0 /\ marks = {} THEN [fl EXCEPT !.st = "done", !.marks = {}]
      ELSE [fl EXCEPT !.marks = marks]

CheckFlushes(s) ==
  IF s.ends # <<>> \/ s.drops THEN s
  ELSE LET checked == [f \in AllFlushes |-> Checked(s, s.flush[f])]
       IN  [s EXCEPT !.flush = checked,
                     !.step = @ \/ (s.flush[Drain].st = "on" /\ checked[Drain].st = "done")]

\* A flush in progress that waits for message n.
Awaits(fl, n) == fl.st = "on" /\ n <= fl.last

WaitFlushes(s, n, d) ==
  [s EXCEPT !.flush = [f \in AllFlushes |->
     IF Awaits(@[f], n) THEN [@[f] EXCEPT !.waiting = @ + d] ELSE @[f]]]

FlushesLost(s, n) ==
  [s EXCEPT !.flush = [f \in AllFlushes |->
     IF Awaits(@[f], n) THEN [@[f] EXCEPT !.lost = TRUE] ELSE @[f]]]

FollowEvent(s, e, written) ==
  IF e.t \in s.follows[e.n] THEN [s EXCEPT !.ends = Append(@, <<e.n, e.t, written>>)] ELSE s

TrackedMessageDone(s, e, written) == CheckFlushes(FollowEvent(s, e, written))

\* A copy's tracker reads SENT or LOST, which whoever follows it hears of.
Ended(s, e, st) ==
  IF TrackerState(s, e.n, e.t) # "queued" THEN s
  ELSE TrackedMessageDone([s EXCEPT !.track[e.n][e.t].st = st], e, st = "sent")

\* The drop observer is told in the next pass, the flushes now.
ReportDrop(s, e) ==
  FlushesLost([s EXCEPT !.track[e.n][e.t].told = @ + 1, !.drops = TRUE], e.n)

GiveUpMessage(s, e) == Ended(ReportDrop(s, e), e, "lost")

\* Mutant: the other copies of a send that ended stay followed.
EndFollow_keepsCopies(s, n, written) == [s EXCEPT !.heard[n] = Append(@, written)]

\* `done' hears the end of message n once; its copies are followed no more.
EndFollow(s, n, written) ==
  [s EXCEPT !.follows[n] = {}, !.live[n] = 0, !.heard[n] = Append(@, written)]

ProcessFollow(s, end) ==
  LET n == end[1]
      one == [s EXCEPT !.follows[n] = @ \ {end[2]}, !.live[n] = @ - 1]
  IN  IF end[2] \notin s.follows[n] THEN s
      ELSE IF end[3] THEN EndFollow(one, n, 1)
      ELSE IF one.live[n] = 0 THEN EndFollow(one, n, 0)
      ELSE one

\* Mutant: the flushes that waited for the callbacks are not looked at.
ProcessCallbacks_noCheck(s) ==
  FoldLeft(ProcessFollow, [s EXCEPT !.drops = FALSE, !.ends = <<>>], s.ends)

\* tell_drops, then process_follows.
ProcessCallbacks(s) ==
  CheckFlushes(FoldLeft(ProcessFollow, [s EXCEPT !.drops = FALSE, !.ends = <<>>], s.ends))

\* `done' follows every copy of message n; one given up on already is an end.
Follow(s, n) ==
  LET copies == [t \in 1 .. Len(s.track[n]) |-> [n |-> n, t |-> t, lane |-> "none"]]
      lost == SelectSeq(copies, LAMBDA e : TrackerState(s, n, e.t) = "lost")
  IN  FoldLeft(LAMBDA b, e : FollowEvent(b, e, FALSE),
               [s EXCEPT !.follows[n] = DOMAIN copies, !.live[n] = Len(copies)],
               lost)

-----------------------------------------------------------------------------
(* Placing (mod.rs).                                                       *)

\* Mutant: no flush follows what goes into a queue after it began.
Queued_unmarked(s, e, c) == [s EXCEPT !.out[c] = Append(@, [e EXCEPT !.lane = "none"])]

\* Into c's queue: a flush that waits for it follows it there.
Queued(s, e, c) ==
  LET mark == [c |-> c, n |-> e.n, t |-> e.t]
      marked(fl) == [fl EXCEPT !.marks = {m \in @ : m.c # c} \cup {mark}]
  IN  [s EXCEPT !.out[c] = Append(@, [e EXCEPT !.lane = "none"]),
                !.flush = [f \in AllFlushes |-> IF Awaits(@[f], e.n) THEN marked(@[f]) ELSE @[f]]]

\* One more, or one fewer, waits.
Waits(s, n, d) == WaitFlushes([s EXCEPT !.waiting = @ + d], n, d)

Hold(s, e) ==
  Waits([s EXCEPT !.held = Append(@, e), !.heldLive = @ + 1], e.n, 1)

\* Into c's queue when it has room and nothing waits for it, else into its
\* backlog, or given up on when there is no time to wait.
PlaceOn(b, c, e) ==
  LET s == IF b.track[e.n][e.t].first = NoConn THEN [b EXCEPT !.track[e.n][e.t].first = c] ELSE b
  IN
  IF s.backlog[c] = <<>> /\ ~Full(s, c) THEN Queued(s, e, c)
  ELSE IF Past(s, e.n) THEN GiveUpMessage(s, e)
  ELSE Waits([s EXCEPT !.backlog[c] = Append(@, e)], e.n, 1)

\* The connections with room and nothing waiting, in their round robin order.
Free(s) == SelectSeq(s.rr, LAMBDA c : ~Full(s, c) /\ s.backlog[c] = <<>>)

LeastWaiting(s) ==
  LET least(c) == \A i \in DOMAIN s.rr : Len(s.backlog[c]) <= Len(s.backlog[s.rr[i]])
  IN  Head(SelectSeq(s.rr, least))

ChooseConnection(s) ==
  IF s.down \/ s.rr = <<>> THEN NoConn
  ELSE IF Free(s) # <<>> THEN Head(Free(s))
  ELSE LeastWaiting(s)

\* A connection chosen with room goes to the back of the round robin.
Chosen(s, c) ==
  IF Contains(Free(s), c) THEN [s EXCEPT !.rr = Append(Remove(@, c), c)] ELSE s

\* Where the messages of a lane's dead connection went, from handover to
\* handover, while that one lives.
HandedTo(s, gone) ==
  LET at[i \in 0 .. Cardinality(Targets)] ==
        IF i = 0 THEN gone
        ELSE IF at[i - 1] = NoConn \/ Living(s, at[i - 1]) THEN at[i - 1]
        ELSE s.handover[Target(at[i - 1])].to
      last == at[Cardinality(Targets)]
  IN  IF ~Living(s, gone) /\ Living(s, last) THEN last ELSE NoConn

\* A pinned lane takes its first connection only.
Adopt(s, l, c) ==
  IF l = "none" \/ (l = "pinned" /\ s.lane[l] # NoConn) THEN s ELSE [s EXCEPT !.lane[l] = c]

Refused(s, e) == e.lane = "pinned" /\ s.lane["pinned"] # NoConn /\ ~Living(s, s.lane["pinned"])

PlaceOne(s, e) ==
  LET own == s.lane[e.lane]
      via == IF Living(s, own) THEN own ELSE HandedTo(s, own)
      c == IF via # NoConn THEN via ELSE ChooseConnection(s)
  IN  Adopt(PlaceOn(IF via # NoConn THEN s ELSE Chosen(s, c), c, e), e.lane, c)

\* The first connections still on their way, which get their copy too.
FirstComing(s, n) ==
  IF Past(s, n) THEN <<>>
  ELSE SetToSeq({c \in Conns : s.conn[c] = "open" /\ Target(c) \notin s.firstOver})

\* `told', `first' and `aside' record what the properties are about: how often
\* the drop was reported, where the copy first went, a write left behind.
NewTracker == [st |-> "queued", told |-> 0, first |-> NoConn, aside |-> FALSE]

PlaceCopy(s, n, c) ==
  PlaceOn([s EXCEPT !.track[n] = Append(@, NewTracker)], c,
          [n |-> n, t |-> Len(s.track[n]) + 1, lane |-> "none"])

\* A copy on every live connection; a held message's tracker is the first's.
PlaceAll(s, n, held) ==
  LET to == s.rr \o FirstComing(s, n)
      copy(b, c) == PlaceCopy(b, n, c)
  IN  IF held = <<>> THEN FoldLeft(copy, s, to)
      ELSE FoldLeft(copy, PlaceOn(s, Head(to), Head(held)), Tail(to))

\* place_now comes to nothing when no connection is live.
CanPlace(s) == ~s.down /\ s.rr # <<>>

\* A send, refused when its pinned lane's connection is gone.
SendAt(s, n) ==
  LET kind == s.sent[n]
      lane == IF kind.all THEN "none" ELSE kind.lane
      e == [n |-> n, t |-> 1, lane |-> lane]
      tracked == [s EXCEPT !.track[n] = <<NewTracker>>]
      placed == s.heldLive = 0 /\ CanPlace(s) /\ ~Refused(s, e)
  IN  IF placed /\ kind.all THEN Follow(PlaceAll(s, n, <<>>), n)
      ELSE IF placed THEN Follow(PlaceOne(tracked, e), n)
      ELSE IF lane = "pinned" /\ s.lane[lane] # NoConn THEN s
      ELSE IF Past(s, n) THEN Follow(GiveUpMessage(tracked, e), n)
      ELSE Follow(Hold(tracked, e), n)

-----------------------------------------------------------------------------
(* What waits moves in, or is dropped (mod.rs, expiry.rs, handover.rs).    *)

\* An entry that no longer waits in c's backlog, or held.
Leaves(s, e, on) ==
  Waits(IF on = NoConn THEN [s EXCEPT !.held = Remove(@, e), !.heldLive = @ - 1]
        ELSE [s EXCEPT !.backlog[on] = Remove(@, e)],
        e.n, -1)

DropExpired(s, e, on) == GiveUpMessage(Leaves(s, e, on), e)

\* c's queue has room: its backlog goes in, in order, as far as the room goes.
OutgoingQueueHasRoom(s, c) ==
  LET move(b, e) == IF Full(b, c) THEN b
                    ELSE IF Past(b, e.n) THEN DropExpired(b, e, c)
                    ELSE Queued(Leaves(b, e, c), e, c)
  IN  CheckFlushes(FoldLeft(move, s, s.backlog[c]))

\* A connection came up: what is held is placed, in order.
PlaceHeld(s) ==
  LET place(b, e) == IF Refused(b, e) THEN GiveUpMessage(Leaves(b, e, NoConn), e)
                     ELSE IF KindOf(b, e).all THEN Leaves(PlaceAll(b, e.n, <<e>>), e, NoConn)
                     ELSE Leaves(PlaceOne(b, e), e, NoConn)
  IN  CheckFlushes(FoldLeft(place, s, s.held))

\* The timer: what waited past its deadline is dropped.
ExpireAll(s) ==
  LET each(b, c) == FoldLeft(LAMBDA d, e : IF Past(d, e.n) THEN DropExpired(d, e, c) ELSE d,
                             b, IF c = NoConn THEN b.held ELSE b.backlog[c])
  IN  CheckFlushes(FoldLeft(each, s, <<NoConn>> \o SetToSeq(Conns)))

\* The connection that takes what `dead' had not written, chosen at its first
\* handover and kept while it lives, remembered for the lanes that held `dead'.
Successor(s, dead) ==
  LET known == s.handover[Target(dead)]
  IN  IF known.from = dead /\ Living(s, known.to) THEN known.to ELSE ChooseConnection(s)

Remembered(s, dead, c) ==
  LET known == s.handover[Target(dead)]
  IN  IF c = NoConn \/ (known.from = dead /\ Living(s, known.to)) THEN s
      ELSE [Chosen(s, c) EXCEPT !.handover[Target(dead)] = [from |-> dead, to |-> c]]

\* Left with the dead connection, to be reported lost.
LeftBehind(s, e, c) ==
  \/ Pinned(s, e) \/ s.down
  \/ KindOf(s, e).all /\ c # NoConn
  \/ c = NoConn /\ Past(s, e.n) /\ ~(KindOf(s, e).all /\ HeldWhole(s, e.n))

\* A frame of the dead connection's queue, c the connection that takes it.
\* A copy of an ALL send held whole already goes nowhere: LOST, unreported.
Orphan(s, e, c) ==
  IF c # NoConn THEN PlaceOn(s, c, e)
  ELSE IF KindOf(s, e).all /\ HeldWhole(s, e.n) THEN Ended(s, e, "lost")
  ELSE Hold(s, e)

\* Mutant: a message that leaves the backlog is still counted where it was.
Displaced_keepsCount(s, e, c) ==
  IF Pinned(s, e) \/ s.down \/ (KindOf(s, e).all /\ c # NoConn) THEN GiveUpMessage(s, e)
  ELSE IF c # NoConn THEN Adopt(PlaceOn(s, c, e), e.lane, c)
  ELSE IF KindOf(s, e).all /\ HeldWhole(s, e.n) THEN Ended(s, e, "lost")
  ELSE [s EXCEPT !.held = Append(@, e), !.heldLive = @ + 1]

\* A message of the dead connection's backlog.
Displaced(s, e, c) ==
  IF Pinned(s, e) \/ s.down \/ (KindOf(s, e).all /\ c # NoConn) THEN GiveUpMessage(Waits(s, e.n, -1), e)
  ELSE IF c # NoConn THEN Adopt(PlaceOn(Waits(s, e.n, -1), c, e), e.lane, c)
  ELSE IF KindOf(s, e).all /\ HeldWhole(s, e.n) THEN Ended(Waits(s, e.n, -1), e, "lost")
  ELSE [s EXCEPT !.held = Append(@, e), !.heldLive = @ + 1]

\* Mutant: the backlog goes ahead of the queue it waited for.
GiveUp_backlogFirst(s, dead, frames, displaced) ==
  LET entries == SelectSeq(frames, LAMBDA e : ~Own(e))
      c == IF entries \o displaced = <<>> THEN NoConn ELSE Successor(s, dead)
      orphan(b, e) == IF LeftBehind(b, e, c) THEN GiveUpMessage(b, e) ELSE Orphan(b, e, c)
      replaced == FoldLeft(LAMBDA b, e : Displaced(b, e, c), Remembered(s, dead, c), displaced)
  IN  CheckFlushes(FoldLeft(orphan, replaced, entries))

\* A dead connection's unwritten frames, and after them its backlog.
GiveUp(s, dead, frames, displaced) ==
  LET entries == SelectSeq(frames, LAMBDA e : ~Own(e))
      c == IF entries \o displaced = <<>> THEN NoConn ELSE Successor(s, dead)
      orphan(b, e) == IF LeftBehind(b.box, e, c) THEN [b EXCEPT !.left = Append(@, e)]
                      ELSE [b EXCEPT !.box = Orphan(b.box, e, c)]
      handed == FoldLeft(orphan, [box |-> Remembered(s, dead, c), left |-> <<>>], entries)
      reported == FoldLeft(ReportDrop, handed.box, handed.left)
      replaced == FoldLeft(LAMBDA b, e : Displaced(b, e, c), reported, displaced)
  IN  FoldLeft(LAMBDA b, e : Ended(b, e, "lost"), CheckFlushes(replaced), handed.left)

\* A connection that dies: its client told, the frame a write still holds set
\* aside for that write's end to settle, the rest handed over.
Gone(s, c, writing) ==
  LET aside == IF writing /\ s.out[c] # <<>> THEN 1 ELSE 0
      dead == [s EXCEPT !.conn[c] = "dead", !.rr = Remove(@, c), !.firstOver = @ \cup {Target(c)},
                        !.out[c] = <<>>, !.backlog[c] = <<>>,
                        !.aside[c] = SubSeq(s.out[c], 1, aside)]
      noted == IF aside = 0 \/ Own(Head(s.out[c])) THEN dead
               ELSE [dead EXCEPT !.track[Head(s.out[c]).n][Head(s.out[c]).t].aside = TRUE]
  IN  GiveUp(noted, c, SubSeq(s.out[c], aside + 1, Len(s.out[c])), s.backlog[c])

\* The client shuts down: every connection closes, and what waits is dropped.
DropOutbox(s) ==
  [FoldLeft(GiveUpMessage, [s EXCEPT !.held = <<>>], s.held) EXCEPT !.heldLive = 0, !.waiting = 0]

ShutdownClient(s) ==
  DropOutbox(FoldLeft(LAMBDA b, c : Gone(b, c, TRUE), [s EXCEPT !.down = TRUE],
                      SetToSeq({c \in Conns : Living(s, c)})))

-----------------------------------------------------------------------------
(* flush_all() and the shutdown of a threaded client.                      *)

\* The frames of c's queue but its own.
Messages(s, c) == SelectSeq(s.out[c], LAMBDA e : ~Own(e))

\* What ended before the flush began is heard before it ends; the flush waits
\* for what waits, and for the last frame queued on each connection.
BeginFlush(s, f) ==
  LET heard == IF s.ends # <<>> \/ s.drops THEN ProcessCallbacks(s) ELSE s
      mark(c) == [c |-> c, n |-> Last(Messages(s, c)).n, t |-> Last(Messages(s, c)).t]
      marked == {c \in Conns : s.conn[c] = "reg" /\ Messages(s, c) # <<>>}
  IN  CheckFlushes([heard EXCEPT !.flush[f] = [st |-> "on", last |-> Len(s.sent), waiting |-> s.waiting,
                                               lost |-> FALSE, marks |-> {mark(c) : c \in marked}]])

NoFlush == [st |-> "off", last |-> 0, waiting |-> 0, lost |-> FALSE, marks |-> {}]

WriteOut(s) == BeginFlush([s EXCEPT !.phase = "writing", !.flush[Drain] = NoFlush], Drain)

\* The flushes still waiting end with false, the connections close.
Teardown(s) ==
  ShutdownClient([s EXCEPT !.phase = "torn",
                           !.flush = [f \in AllFlushes |-> IF @[f].st = "on" THEN NoFlush ELSE @[f]]])

-----------------------------------------------------------------------------
(* The events.                                                             *)

Init ==
  /\ program \in Programs
  /\ box =
        [conn |-> [c \in Conns |-> "new"],
         out |-> [c \in Conns |-> <<>>], aside |-> [c \in Conns |-> <<>>],
         wire |-> [c \in Conns |-> <<>>], backlog |-> [c \in Conns |-> <<>>],
         held |-> <<>>, heldLive |-> 0, waiting |-> 0,
         rr |-> <<>>, firstOver |-> {}, lane |-> [l \in Lanes |-> NoConn],
         handover |-> [t \in Targets |-> [from |-> NoConn, to |-> NoConn]],
         sent |-> <<>>, due |-> {}, track |-> [n \in 1 .. MaxSends |-> <<>>],
         follows |-> [n \in 1 .. MaxSends |-> {}], live |-> [n \in 1 .. MaxSends |-> 0],
         heard |-> [n \in 1 .. MaxSends |-> <<>>], ends |-> <<>>, drops |-> FALSE,
         flush |-> [f \in AllFlushes |-> NoFlush],
         phase |-> "run", step |-> FALSE, down |-> FALSE]

\* The program sends, or, once the shutdown began, one of its callbacks does.
Send(kind) ==
  /\ Len(box.sent) < program.most /\ ~box.down
  /\ LET n == Len(box.sent) + 1
     IN  box' = SendAt([box EXCEPT !.sent = Append(@, kind),
                                   !.due = IF kind.wait = "no" THEN @ \cup {n} ELSE @], n)

\* The TCP connect is done: the welcome is queued.
Open(c) ==
  /\ box.conn[c] = "new" /\ ~box.down
  /\ c[2] > 1 => box.conn[<<c[1], c[2] - 1>>] = "dead"
  /\ box' = [box EXCEPT !.conn[c] = "open", !.out[c] = <<OwnFrame>>]

\* The multiplexer's welcome.
Register(c) ==
  /\ box.conn[c] = "open"
  /\ box' = PlaceHeld(OutgoingQueueHasRoom(
              [box EXCEPT !.conn[c] = "reg", !.rr = <<c>> \o @, !.firstOver = @ \cup {Target(c)}], c))

\* The heartbeat's time came: it goes right behind the frame being written,
\* past a full queue too.
Heartbeat(c) ==
  /\ program.beats /\ Living(box, c)
  /\ \A i \in DOMAIN box.out[c] : ~Own(box.out[c][i])
  /\ box' = [box EXCEPT !.out[c] = IF @ = <<>> THEN <<OwnFrame>> ELSE <<Head(@), OwnFrame>> \o Tail(@)]

\* The frame being written is out.
Write(c) ==
  /\ Living(box, c) /\ box.out[c] # <<>>
  /\ LET e == Head(box.out[c])
         popped == [box EXCEPT !.out[c] = Tail(@),
                               !.wire[c] = IF Own(e) THEN @ ELSE Append(@, <<e.n, e.t>>)]
         sent == IF Own(e) THEN popped ELSE Ended(popped, e, "sent")
     IN  box' = IF Full(box, c) /\ ~Full(popped, c) THEN OutgoingQueueHasRoom(sent, c) ELSE sent

\* A write failed.
WriteFails(c) ==
  /\ Living(box, c) /\ box.out[c] # <<>>
  /\ box' = Gone(box, c, FALSE)

\* The connection ends for another reason: the multiplexer's end, its silence,
\* a disconnect().
Lost(c) ==
  /\ Living(box, c)
  /\ box' = Gone(box, c, TRUE)

\* The write of the frame set aside ended.
SettleSetAside(c, written) ==
  /\ box.aside[c] # <<>>
  /\ LET e == Head(box.aside[c])
         settled == [box EXCEPT !.aside[c] = <<>>]
     IN  box' = IF Own(e) THEN settled
                ELSE IF written THEN Ended([settled EXCEPT !.wire[c] = Append(@, <<e.n, e.t>>)], e, "sent")
                ELSE GiveUp(settled, c, <<e>>, <<>>)

\* A deadline passes; the timer that drops what waits runs some time later.
DeadlinePasses(n) ==
  /\ n \in DOMAIN box.sent /\ n \notin box.due /\ box.sent[n].wait = "timed"
  /\ box' = [box EXCEPT !.due = @ \cup {n}]

WaitingEntries(s) == Range(s.held) \cup UNION {Range(s.backlog[c]) : c \in Conns}

Expire ==
  /\ \E e \in WaitingEntries(box) : Past(box, e.n)
  /\ box' = ExpireAll(box)

\* The posted pass that runs the program's callbacks.
Callbacks ==
  /\ box.ends # <<>> \/ box.drops
  /\ box' = ProcessCallbacks(box)

FlushAll(f) ==
  /\ program.flushes /\ box.flush[f].st = "off" /\ box.phase = "run"
  /\ box' = BeginFlush(box, f)

\* A flush_all() call's time ran out: its flush is forgotten.
FlushWaitExpired(f) ==
  /\ box.flush[f].st = "on"
  /\ box' = [box EXCEPT !.flush[f] = NoFlush]

\* shutdown() with time to write out, or none.
BeginShutdown(writesOut) ==
  /\ box.phase = "run"
  /\ box' = IF writesOut THEN WriteOut(box) ELSE Teardown(box)

\* Mutant: what was sent while the write-out went on is not waited for.
WriteOutStep_once ==
  /\ box.step
  /\ LET s == [box EXCEPT !.step = FALSE] IN box' = IF s.phase = "torn" THEN s ELSE Teardown(s)

\* The write-out's flush ended: again while anything newer was sent.
WriteOutStep ==
  /\ box.step
  /\ LET s == [box EXCEPT !.step = FALSE]
     IN  box' = IF s.phase = "torn" THEN s
                ELSE IF Len(s.sent) # s.flush[Drain].last THEN WriteOut(s)
                ELSE Teardown(s)

DrainExpired ==
  /\ box.phase = "writing"
  /\ box' = Teardown(box)

\* The client's loop will not run again: every send still followed hears 0.
EndFollows ==
  /\ box.phase = "torn"
  /\ LET end(s, n) == IF s.live[n] > 0 THEN EndFollow(s, n, 0) ELSE s
     IN  box' = FoldLeft(end, [box EXCEPT !.drops = FALSE, !.ends = <<>>, !.phase = "ended"],
                         [n \in 1 .. MaxSends |-> n])

Next ==
  /\ box.phase # "ended" /\ UNCHANGED program
  /\ \/ \E kind \in program.sends : Send(kind)
     \/ \E c \in Conns : \/ Open(c) \/ Register(c) \/ Heartbeat(c)
                         \/ Write(c) \/ WriteFails(c) \/ Lost(c)
                         \/ \E written \in BOOLEAN : SettleSetAside(c, written)
     \/ \E n \in 1 .. MaxSends : DeadlinePasses(n)
     \/ Expire \/ Callbacks
     \/ \E f \in Flushes : FlushAll(f) \/ FlushWaitExpired(f)
     \/ \E writesOut \in program.shutdowns : BeginShutdown(writesOut)
     \/ WriteOutStep \/ DrainExpired \/ EndFollows

Spec == Init /\ [][Next]_vars

\* A write under way ends, or its connection does, shut down for its silence at
\* the latest; the timers and the posted passes run; deadlines pass.
Fairness ==
  /\ \A c \in Conns : /\ WF_box(Write(c) \/ WriteFails(c) \/ Lost(c))
                      /\ WF_box(\E written \in BOOLEAN : SettleSetAside(c, written))
  /\ \A n \in 1 .. MaxSends : WF_box(DeadlinePasses(n))
  /\ WF_box(Expire) /\ WF_box(Callbacks) /\ WF_box(WriteOutStep)

FairSpec == Spec /\ Fairness

-----------------------------------------------------------------------------
(* Properties.                                                             *)

Copies == UNION {{n} \X DOMAIN box.track[n] : n \in DOMAIN box.sent}

Entry == [n : 0 .. MaxSends, t : Nat, lane : Lanes]

\* Every part of the box has its type.
TypeOK ==
  /\ box.conn \in [Conns -> {"new", "open", "reg", "dead"}]
  /\ \A c \in Conns : \A q \in {box.out[c], box.aside[c], box.backlog[c], box.held} :
       \A i \in DOMAIN q : q[i] \in Entry
  /\ Range(box.rr) = {c \in Conns : box.conn[c] = "reg"} /\ IsInjective(box.rr)
  /\ box.lane \in [Lanes -> Conns \cup {NoConn}]
  /\ box.waiting \in Nat /\ box.heldLive \in Nat
  /\ box.due \subseteq DOMAIN box.sent
  /\ \A x \in Copies : box.track[x[1]][x[2]].st \in {"queued", "sent", "lost"}
  /\ \A f \in AllFlushes : box.flush[f].st \in {"off", "on", "done"} /\ box.flush[f].waiting \in Nat

At(q, x) == {i \in DOMAIN q : q[i].n = x[1] /\ q[i].t = x[2]}

\* The places that hold copy x.
Places(x) ==
  ({"held"} \X {NoConn} \X At(box.held, x))
    \cup UNION {({"out"} \X {c} \X At(box.out[c], x)) \cup ({"aside"} \X {c} \X At(box.aside[c], x))
                  \cup ({"backlog"} \X {c} \X At(box.backlog[c], x)) : c \in Conns}

\* A copy not ended is in exactly one place, whatever connections died, and
\* one written or given up on is in none: nothing is lost silently, sent
\* twice, or written after its send was told it was given up on.
OnePlace ==
  \A x \in Copies : Cardinality(Places(x)) = IF box.track[x[1]][x[2]].st = "queued" THEN 1 ELSE 0

\* The counts the outbox keeps step by step (outbox.waiting, held_live and each
\* flush's own) are those of what really waits.
CountsExact ==
  /\ box.heldLive = Len(box.held)
  /\ box.waiting = Cardinality(WaitingEntries(box))
  /\ \A f \in AllFlushes : box.flush[f].st = "on" =>
       box.flush[f].waiting = Cardinality({e \in WaitingEntries(box) : e.n <= box.flush[f].last})

\* "Something is held already, so no connection is live" (send_at): a message is
\* held only while no connection is registered.
HeldMeansNoneLive == box.held # <<>> => box.rr = <<>>

\* "while it is not 0 the connection's queue is full" (Backlog.live): a message
\* waits in a backlog only while its connection lives and its queue is full.
BacklogMeansFull == \A c \in Conns : box.backlog[c] # <<>> => Living(box, c) /\ Full(box, c)

\* Every copy given up on is told to the drop observer once, one written never;
\* one superseded by the message held whole is not.
ToldOnce ==
  \A x \in Copies : LET tr == box.track[x[1]][x[2]]
                    IN  /\ tr.told <= 1
                        /\ tr.told = 1 => tr.st = "lost"
                        /\ tr.st = "lost" /\ ~box.sent[x[1]].all => tr.told = 1

\* A send's `done' hears one end at most; it hears 1 only of a message written,
\* and for a message that goes ONE way 0 only of one that was not, and never will be.
HeardOnce ==
  \A n \in DOMAIN box.sent :
    LET states == {box.track[n][t].st : t \in DOMAIN box.track[n]}
    IN  /\ Len(box.heard[n]) <= 1
        /\ box.heard[n] = <<1>> => "sent" \in states
        /\ box.heard[n] = <<0>> /\ ~box.sent[n].all /\ box.phase # "ended" => states = {"lost"}

\* flush_all() waits for what was sent before it: once it is done, every copy of
\* it is written or given up on, but for a frame whose write a dying connection
\* left behind and a message to ALL, whose copies may be on a connection not
\* registered yet.
FlushHonest ==
  \A f \in AllFlushes : box.flush[f].st = "done" =>
    \A x \in Copies : x[1] <= box.flush[f].last =>
      LET tr == box.track[x[1]][x[2]]
      IN  tr.aside \/ box.sent[x[1]].all \/ tr.st # "queued"

\* Messages that first went to the same connection are written in the order
\* sent wherever they end up, but for one whose write was under way when its
\* connection died.
InOrder ==
  \A c \in Conns : \A i, j \in DOMAIN box.wire[c] :
    LET a == box.wire[c][j]
        b == box.wire[c][i]
    IN  i < j /\ a[1] < b[1] =>
          \/ box.track[a[1]][a[2]].aside
          \/ box.track[a[1]][a[2]].first # box.track[b[1]][b[2]].first

\* A lane keeps its stream on one connection while that connection lives: a
\* message sent through the sticky lane went first where the one before it did.
LaneStays ==
  \A a, b \in {n \in DOMAIN box.sent : box.sent[n].lane = "sticky" /\ box.track[n] # <<>>} :
    LET first(n) == box.track[n][1].first
    IN  a < b /\ Living(box, first(a)) => first(b) \in {first(a), NoConn}

\* Everything written through a pinned lane was written on one connection, the
\* lane's own, whatever became of it.
PinnedStays ==
  \A c \in Conns : \A i \in DOMAIN box.wire[c] :
    box.sent[box.wire[c][i][1]].lane = "pinned" => c = box.lane["pinned"]

\* The write-out of a shutdown: when its flush ended it, not its time, nothing
\* sent before is dropped by the teardown.
WrittenOutFirst ==
  [][box.step /\ box.phase = "writing" /\ ~box'.step /\ box'.phase = "torn" =>
       \A x \in Copies : LET tr == box.track[x[1]][x[2]]
                         IN  tr.st = "queued" => tr.aside \/ box.sent[x[1]].all]_box

\* Every send with a deadline, but one refused, is told its end.
EverySendEnds ==
  \A n \in 1 .. MaxSends :
    (n \in DOMAIN box.sent /\ box.track[n] # <<>>) ~> (box.heard[n] # <<>> \/ box.phase = "ended")

\* Every flush ends, of itself, once nothing it waits for can wait any more.
FlushEnds == \A f \in Flushes : (box.flush[f].st = "on") ~> (box.flush[f].st # "on")

\* Wherever connections come and go, each message is in one place, counted
\* there, and waits there for cause: held while none is live, in a backlog
\* while the queue before it is full.
Accounted == TypeOK /\ OnePlace /\ CountsExact /\ HeldMeansNoneLive /\ BacklogMeansFull

\* The end of each send is told once, by every path a message may leave on.
EndsOnce == ToldOnce /\ HeardOnce

\* A stream is kept: in order, on its lane's connection, on the one it is
\* pinned to.
StreamsKept == InOrder /\ LaneStays /\ PinnedStays

\* Every send and every flush ends.
AllEnd == EverySendEnds /\ FlushEnds
=============================================================================
