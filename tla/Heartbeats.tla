----------------------------- MODULE Heartbeats -----------------------------
(***************************************************************************)
(* What keeps a connection, and ends a silent one (core/connection.rs):    *)
(* the heartbeat written after an interval with nothing to write, the two  *)
(* waits that drop a connection from which nothing comes, the bound on     *)
(* reading to its end, and the driver's order of frames and timers         *)
(* (driver.rs).  A timer armed is not moved by every frame: it finds, when *)
(* it comes due, the moment to move on to.                                 *)
(*                                                                         *)
(* Time is counted.  An io thread's loop is late for nothing; a            *)
(* synchronous client's runs only inside its program's calls, any time     *)
(* apart, of which some, as flush_all(), end with work still queued in the *)
(* driver, and others, as a receive that timed out, with none (loop).  One *)
(* connection; other timers may be due, and a pass finds less than the     *)
(* driver takes between two looks at the sockets (TURN).                   *)
(***************************************************************************)
EXTENDS Integers, Sequences

CONSTANTS
    Interval, Prepare, Really,   \* HEARTBIT_INTERVAL, NO_HEARTBIT_SO_..._DROP
    QueueMax, Forced,            \* the queue's limit, and frames forced past it
    Loops,                       \* the loops a client may run in
    MaxTime, MaxWaiting          \* bounds: the time, frames unread in the socket

ASSUME TimesAssumption == /\ Interval \in Nat \ {0} /\ Prepare \in Nat \ {0} /\ Really \in Nat \ {0}
                          /\ QueueMax \in Nat \ {0} /\ Forced \in Nat \ {0}
ASSUME LoopAssumption == Loops \subseteq {"thread", "polls", "calls"}

VARIABLES
    now,
    at,                    \* open, ending (reading to its end), down, dropped (for silence)
    registered,
    out,                   \* the outgoing queue, its front being written
    quiet,                 \* when it last emptied
    sendTimer, sendAt,     \* off, beat or, reading to its end, bound; and its moment
    heard,                 \* when a frame was last read
    silence, silenceAt,    \* off, first or second wait; and its moment
    waiting,               \* frames in the socket
    pulled, timers,        \* the driver's queue: a frame, then the timers due
    arrived, ended,        \* when a frame last came; when it began to end
    loop,                  \* thread, polls (calls that end with nothing queued) or calls
    beating                \* the multiplexer's heartbeats came, so far

writer == <<out, quiet, sendTimer, sendAt>>
reader == <<heard, silence, silenceAt>>
driver == <<waiting, pulled, timers>>
clientLoop == <<loop, beating>>
beatsVars == <<now, at, registered, writer, reader, driver, arrived, ended, clientLoop>>

Prompt == loop = "thread"
Reading == at \in {"open", "ending"}

\* start_connection: the welcome is being written, the first wait armed.
BeatsInit ==
    /\ now = 0 /\ at = "open" /\ registered = FALSE
    /\ out = <<"frame">> /\ quiet = 0 /\ sendTimer = "off" /\ sendAt = 0
    /\ heard = 0 /\ silence = "first" /\ silenceAt = Prepare
    /\ waiting = 0 /\ pulled = FALSE /\ timers = FALSE
    /\ arrived = 0 /\ ended = 0 /\ loop \in Loops /\ beating = TRUE

-----------------------------------------------------------------------------
(* The queue.                                                              *)

\* schedule, of a message: refused by a full queue.
Send ==
    /\ at = "open" /\ registered /\ Len(out) < QueueMax
    /\ out' = Append(out, "frame")
    /\ UNCHANGED <<now, at, registered, quiet, sendTimer, sendAt, reader, driver, arrived, ended, clientLoop>>

\* A protocol frame goes behind the one being written, past a full queue.
Asap(frame) ==
    IF Len(out) >= QueueMax + Forced THEN out
    ELSE IF out = <<>> THEN <<frame>> ELSE <<Head(out), frame>> \o Tail(out)

SendControl ==
    /\ at = "open" /\ registered /\ out' = Asap("frame")
    /\ UNCHANGED <<now, at, registered, quiet, sendTimer, sendAt, reader, driver, arrived, ended, clientLoop>>

\* on_write_done; the emptied queue arms the heartbeat, or leaves its moment
\* to the timer armed (send_heartbit_later).
OnWriteDone ==
    /\ at = "open" /\ out # <<>> /\ out' = Tail(out)
    /\ IF out' # <<>> THEN UNCHANGED <<quiet, sendTimer, sendAt>>
       ELSE /\ quiet' = now
            /\ IF sendTimer = "off" THEN sendTimer' = "beat" /\ sendAt' = now + Interval
               ELSE UNCHANGED <<sendTimer, sendAt>>
    /\ UNCHANGED <<now, at, registered, reader, driver, arrived, ended, clientLoop>>

\* shutdown_connection
Down(how) ==
    /\ at' = how /\ out' = <<>> /\ sendTimer' = "off" /\ silence' = "off"
    /\ UNCHANGED <<quiet, sendAt, heard, silenceAt>>

\* read_to_the_end: the heartbeat's timer is its bound now.
ReadToTheEnd ==
    /\ at' = "ending" /\ ended' = now /\ out' = <<>>
    /\ sendTimer' = "bound" /\ sendAt' = now + Interval /\ silence' = "off"
    /\ UNCHANGED <<quiet, heard, silenceAt>>

WriteFailed ==
    /\ at = "open" /\ out # <<>>
    /\ IF registered THEN ReadToTheEnd ELSE Down("down") /\ UNCHANGED ended
    /\ UNCHANGED <<now, registered, driver, arrived, clientLoop>>

-----------------------------------------------------------------------------
(* The driver's passes, what they find and its timers.                     *)

TimerDue ==
    \/ sendTimer # "off" /\ sendAt <= now
    \/ silence # "off" /\ silenceAt <= now

\* Mutant: the sockets are not looked at while timers are due.
Pass_unpolled(others) ==
    /\ Reading /\ ~pulled /\ ~timers
    /\ timers' = (TimerDue \/ others)
    /\ pulled' = (waiting > 0 /\ ~timers') /\ waiting' = IF pulled' THEN waiting - 1 ELSE waiting
    /\ pulled' \/ timers'
    /\ UNCHANGED <<now, at, registered, writer, reader, arrived, ended, clientLoop>>

\* pass: the sockets are looked at before the timers due are queued, this
\* connection's or another's.
Pass(others) ==
    /\ Reading /\ ~pulled /\ ~timers
    /\ pulled' = (waiting > 0) /\ waiting' = IF waiting > 0 THEN waiting - 1 ELSE 0
    /\ timers' = (TimerDue \/ others)
    /\ pulled' \/ timers'
    /\ UNCHANGED <<now, at, registered, writer, reader, arrived, ended, clientLoop>>

\* Mutant: the second wait, once armed, is not taken back.
Frame_second ==
    /\ Reading /\ pulled /\ pulled' = FALSE
    /\ registered' = TRUE /\ heard' = now
    /\ IF silence # "off" THEN UNCHANGED <<silence, silenceAt>>
       ELSE silence' = "first" /\ silenceAt' = now + Prepare
    /\ UNCHANGED <<now, at, writer, waiting, timers, arrived, ended, clientLoop>>

\* on_frame: the silence ends here, a first wait armed left to find out
\* (require_heartbit_later).  The first frame is the welcome.
Frame ==
    /\ Reading /\ pulled /\ pulled' = FALSE
    /\ registered' = TRUE /\ heard' = now
    /\ IF silence = "first" THEN UNCHANGED <<silence, silenceAt>>
       ELSE silence' = "first" /\ silenceAt' = now + Prepare
    /\ UNCHANGED <<now, at, writer, waiting, timers, arrived, ended, clientLoop>>

\* What was read ends the connection.
OnReadEnd ==
    /\ Reading /\ pulled /\ pulled' = FALSE /\ Down("down")
    /\ UNCHANGED <<now, registered, waiting, timers, arrived, ended, clientLoop>>

\* run: the timers of a pass run behind the frame it found.
TimersTurn == Reading /\ timers /\ ~pulled

\* The queue's entry runs every timer due, the earliest first.
SendDue == sendTimer # "off" /\ sendAt <= now /\ (silence # "off" => sendAt <= silenceAt)
SilenceDue == silence # "off" /\ silenceAt <= now /\ (sendTimer # "off" => silenceAt <= sendAt)
Again == timers' \in {TimerDue', TRUE}   \* another one may be due

\* Mutant: a timer that would move on is not armed again.
SendHeartbitNow_lost ==
    /\ TimersTurn /\ SendDue /\ sendTimer = "beat"
    /\ sendTimer' = "off" /\ sendAt' = sendAt
    /\ out' = IF quiet + Interval > now THEN out ELSE Asap("beat")
    /\ UNCHANGED <<now, at, registered, quiet, reader, waiting, pulled, arrived, ended, clientLoop>> /\ Again

\* send_heartbit_now: a queue that emptied since moves the timer on.
SendHeartbitNow ==
    /\ TimersTurn /\ SendDue /\ sendTimer = "beat"
    /\ IF quiet + Interval > now
         THEN sendAt' = quiet + Interval /\ UNCHANGED <<sendTimer, out>>
         ELSE sendTimer' = "off" /\ out' = Asap("beat") /\ UNCHANGED sendAt
    /\ UNCHANGED <<now, at, registered, quiet, reader, waiting, pulled, arrived, ended, clientLoop>> /\ Again

\* require_heartbit_soon: a frame read since moves the wait on; otherwise the
\* second wait, from now.
RequireHeartbitSoon ==
    /\ TimersTurn /\ SilenceDue /\ silence = "first"
    /\ IF heard + Prepare > now
         THEN silenceAt' = heard + Prepare /\ UNCHANGED silence
         ELSE silence' = "second" /\ silenceAt' = now + Really
    /\ UNCHANGED <<now, at, registered, writer, heard, waiting, pulled, arrived, ended, clientLoop>> /\ Again

\* require_heartbit_now
RequireHeartbitNow ==
    /\ TimersTurn /\ SilenceDue /\ silence = "second"
    /\ Down("dropped")
    /\ UNCHANGED <<now, registered, waiting, pulled, arrived, ended, clientLoop>> /\ Again

\* read_to_the_end_bound
ReadToTheEndBound ==
    /\ TimersTurn /\ SendDue /\ sendTimer = "bound"
    /\ Down("down")
    /\ UNCHANGED <<now, registered, waiting, pulled, arrived, ended, clientLoop>> /\ Again

OtherTimer ==
    /\ TimersTurn /\ timers' \in {TimerDue, TRUE}
    /\ UNCHANGED <<now, at, registered, writer, reader, waiting, pulled, arrived, ended, clientLoop>>

-----------------------------------------------------------------------------
(* The world: frames come, the time passes.                                *)

Arrive ==
    /\ Reading /\ waiting < MaxWaiting
    /\ waiting' = waiting + 1 /\ arrived' = now
    /\ UNCHANGED <<now, at, registered, writer, reader, pulled, timers, ended, clientLoop>>

\* A socket whose frames nobody reads takes no more than MaxWaiting; the
\* multiplexer's beats are there all the same.
Tick ==
    /\ Reading /\ now < MaxTime /\ now' = now + 1
    /\ Prompt => waiting = 0 /\ ~TimerDue
    /\ loop # "calls" => ~pulled /\ ~timers
    /\ beating' = (beating /\ (now < arrived + Interval \/ waiting > 0))
    /\ UNCHANGED <<at, registered, writer, reader, driver, arrived, ended, loop>>

BeatsNext ==
    \/ Send
    \/ SendControl
    \/ OnWriteDone
    \/ WriteFailed
    \/ \E others \in BOOLEAN : Pass(others)
    \/ Frame
    \/ OnReadEnd
    \/ SendHeartbitNow
    \/ RequireHeartbitSoon
    \/ RequireHeartbitNow
    \/ ReadToTheEndBound
    \/ OtherTimer
    \/ Arrive
    \/ Tick

BeatsSpec == BeatsInit /\ [][BeatsNext]_beatsVars

-----------------------------------------------------------------------------
BeatsTypeOK ==
    /\ now \in Nat /\ at \in {"open", "ending", "down", "dropped"} /\ registered \in BOOLEAN
    /\ out \in Seq({"frame", "beat"}) /\ quiet \in Nat
    /\ sendTimer \in {"off", "beat", "bound"} /\ sendAt \in Nat
    /\ heard \in Nat /\ silence \in {"off", "first", "second"} /\ silenceAt \in Nat
    /\ waiting \in Nat /\ pulled \in BOOLEAN /\ timers \in BOOLEAN
    /\ arrived \in Nat /\ ended \in Nat /\ loop \in Loops /\ beating \in BOOLEAN

\* A connection with nothing to write sends a heartbeat an interval after the
\* last write, to the tick, though its timer is not moved by every write.
BeatsInTime == Prompt /\ at = "open" /\ out = <<>> => now <= quiet + Interval

\* A connection is dropped for silence only when nothing was read for both
\* waits; an io thread's, only when nothing came before the drop's tick.
SilentOnly ==
    at = "dropped" => /\ heard + Prepare + Really <= now
                      /\ Prompt => arrived = now \/ arrived + Prepare + Really <= now

\* An io thread drops a silent connection as soon as both waits are over.
SilenceEnds == Prompt /\ at = "open" => now <= heard + Prepare + Really

\* Reading to the end is over after its bound, however much still comes.
EndsInTime == Prompt /\ at = "ending" => now <= ended + Interval

\* A synchronous client idling between calls that end with nothing queued in
\* the driver, for however long, keeps the connection of a multiplexer whose
\* heartbeats come: they are read before the wait that would drop it, and take
\* that wait back.  Nothing is said of calls that leave timers queued, which
\* then run before the sockets are looked at (driver.rs, run).
IdlingKeeps == loop # "calls" /\ beating => at # "dropped"

\* An io thread is on time with all three: the heartbeat it owes, the drop of
\* a silent connection, the end of reading to the end.
OnTime == BeatsInTime /\ SilenceEnds /\ EndsInTime
=============================================================================
