----------------------------- MODULE FeedThread -----------------------------
(***************************************************************************)
(* crates/transport: the thread of one feed (feed.rs) on a managed         *)
(* WebSocket connection (ws.rs).                                           *)
(*                                                                         *)
(* Time is counted in chunks of 100 ms, the longest nap of                 *)
(* interruptible_sleep, and passes only while the thread is blocked: in a  *)
(* nap, in connect, which has no timeout, or in a read.  read_timeout is   *)
(* that of one recv on the socket: a read ends after it only if nothing    *)
(* arrives, for the bytes of a message that is not complete start it       *)
(* again, and without one it does not end.  Delays are whole chunks.       *)
(* attempt saturates at MaxAttempt instead of u32::MAX.  Of reconnects     *)
(* only the number of connections that it does not count is kept.  drops   *)
(* is left out: nothing writes it.                                         *)
(*                                                                         *)
(* The link is external.  It is up, broken (the next read or send says so) *)
(* or silent: nothing arrives, and a send succeeds until the kernel gives  *)
(* up.                                                                     *)
(***************************************************************************)
EXTENDS Integers, FiniteSetsExt

CONSTANTS Initial,       \* BackoffConfig::initial
          MaxDelay,      \* BackoffConfig::max
          JitterDiv,     \* 1 / jitter_factor
          MaxAttempt,    \* u32::MAX
          PingIntervals, \* the ping_interval of the feeds; 0 is None
          ReadTimeouts   \* the read_timeout of the feeds; 0 is None

ASSUME FeedAssumption ==
    /\ Initial \in Nat \ {0} /\ MaxDelay \in Nat \ {0} /\ JitterDiv \in Nat \ {0}
    /\ MaxAttempt \in Nat \ {0} /\ PingIntervals \subseteq Nat /\ ReadTimeouts \subseteq Nat

VARIABLES
    pc,             \* where feed_loop is
    attempt,
    sleepLeft,      \* chunks left of interruptible_sleep
    readLeft,       \* chunks left of the recv under way
    trickled,       \* bytes of an unfinished message arrived in the last read
    last_ping,      \* chunks since last_ping
    ping_interval,  \* WsConfig::ping_interval of this feed
    read_timeout,   \* WsConfig::read_timeout of this feed
    shutdown,       \* the flag shared with the FeedHandle
    link,
    uncounted,      \* connections made less reconnects
    firstTry,       \* the outcome of the first connect (history)
    overdue         \* chunks blocked in a nap or a read since shutdown (history)

thread == <<pc, attempt, sleepLeft, readLeft, trickled, last_ping, uncounted>>
config == <<ping_interval, read_timeout>>
feedVars == <<thread, config, shutdown, link, firstTry, overdue>>

\* FeedThread::spawn
FeedInit ==
    /\ pc = "outer" /\ attempt = 0 /\ sleepLeft = 0 /\ readLeft = 0 /\ last_ping = 0
    /\ trickled = FALSE
    /\ ping_interval \in PingIntervals /\ read_timeout \in ReadTimeouts
    /\ shutdown = FALSE /\ link = "down" /\ uncounted = 0 /\ firstTry = "none" /\ overdue = 0

-----------------------------------------------------------------------------
(* BackoffConfig::delay *)

Base(n) == Min({Initial * 2^Min({n, 20}), MaxDelay})

\* capped, give or take the jitter, and 100 ms at least.
Delay(n) ==
    LET jitter == Base(n) \div JitterDiv
    IN  {Max({ms, 1}) : ms \in Base(n) - jitter .. Base(n) + jitter}

\* The connection, if there is one, is dropped.
Disconnect == link' = "down" /\ readLeft' = 0 /\ last_ping' = 0

\* A slip in feed_loop: attempt is not counted up when the connection is lost.
BackOffFromStart ==
    /\ pc' = "sleep" /\ sleepLeft' \in Delay(attempt)
    /\ Disconnect
    /\ UNCHANGED <<attempt, trickled, uncounted>>

\* The thread backs off, after a connect that failed and after a connection
\* that was lost.
BackOff ==
    /\ pc' = "sleep" /\ sleepLeft' \in Delay(attempt)
    /\ attempt' = Min({attempt + 1, MaxAttempt})
    /\ Disconnect
    /\ UNCHANGED <<trickled, uncounted>>

Exit ==
    /\ pc' = "exited" /\ Disconnect
    /\ UNCHANGED <<attempt, sleepLeft, trickled, uncounted>>

-----------------------------------------------------------------------------
(* interruptible_sleep *)

\* A slip in interruptible_sleep: the flag is read after the last nap only.
SleepUninterrupted ==
    /\ pc = "sleep"
    /\ \/ shutdown /\ sleepLeft = 0 /\ Exit
       \/ /\ ~shutdown \/ sleepLeft > 0
          /\ pc' = IF sleepLeft > 0 THEN "nap" ELSE "outer"
          /\ UNCHANGED <<attempt, sleepLeft, readLeft, trickled, last_ping, uncounted, link>>

\* The flag is read before every nap and after the last.
Sleep ==
    /\ pc = "sleep"
    /\ \/ shutdown /\ Exit
       \/ /\ ~shutdown
          /\ pc' = IF sleepLeft > 0 THEN "nap" ELSE "outer"
          /\ UNCHANGED <<attempt, sleepLeft, readLeft, trickled, last_ping, uncounted, link>>

-----------------------------------------------------------------------------
(* feed_loop: while !shutdown { connect } *)

Outer ==
    /\ pc = "outer"
    /\ \/ shutdown /\ Exit
       \/ /\ ~shutdown
          /\ pc' = "connecting"
          /\ UNCHANGED <<attempt, sleepLeft, readLeft, trickled, last_ping, uncounted, link>>
    /\ UNCHANGED firstTry

FirstTry(outcome) == firstTry' = IF firstTry = "none" THEN outcome ELSE firstTry

\* WsConnection::connect, the subscription included.
ConnectOk ==
    /\ pc = "connecting"
    /\ pc' = "inner" /\ link' = "up" /\ attempt' = 0 /\ last_ping' = 0
    /\ uncounted' = IF attempt > 0 THEN uncounted ELSE uncounted + 1
    /\ FirstTry("ok")
    /\ UNCHANGED <<sleepLeft, readLeft, trickled>>

ConnectFails == pc = "connecting" /\ BackOff /\ FirstTry("failed")

-----------------------------------------------------------------------------
(* feed_loop: loop { read_bytes } *)

\* A slip in maybe_send_ping: > for >=.
PingDueLate == ping_interval # 0 /\ last_ping > ping_interval

PingDue == ping_interval # 0 /\ last_ping >= ping_interval

\* maybe_send_ping; a send fails on a link that is broken or has been silent
\* for long.
PingOk == ~PingDue \/ link # "broken"
PingFails == PingDue /\ link # "up"
Pinged == last_ping' = IF PingDue THEN 0 ELSE last_ping

\* A slip in feed_loop: the flag is read between connections only.
InnerUninterrupted ==
    /\ pc = "inner"
    /\ \/ PingFails /\ BackOff
       \/ /\ PingOk
          /\ pc' = "reading" /\ readLeft' = read_timeout /\ trickled' = FALSE /\ Pinged
          /\ UNCHANGED <<attempt, sleepLeft, uncounted, link>>

\* The flag is read, a PING is sent if it is due, and the read begins.
Inner ==
    /\ pc = "inner"
    /\ \/ shutdown /\ Exit
       \/ ~shutdown /\ PingFails /\ BackOff
       \/ /\ ~shutdown /\ PingOk
          /\ pc' = "reading" /\ readLeft' = read_timeout /\ trickled' = FALSE /\ Pinged
          /\ UNCHANGED <<attempt, sleepLeft, uncounted, link>>

\* read returns: the thread goes on with the inner loop.
Continue ==
    /\ pc' = "inner" /\ readLeft' = 0
    /\ UNCHANGED <<attempt, sleepLeft, trickled, last_ping, uncounted, link>>

\* A text message for the callback, which goes on or asks for the end.
ReadMessage(goOn) ==
    /\ pc = "reading" /\ link = "up"
    /\ IF goOn THEN Continue ELSE Exit

\* "PONG", and frames that are not text; a Ping is answered, which may fail.
ReadControl ==
    /\ pc = "reading" /\ link = "up"
    /\ Continue \/ BackOff

\* The link is closed or fails.
ReadFails == pc = "reading" /\ link = "broken" /\ BackOff

\* Bytes arrive and do not complete a message: the next recv has all of
\* read_timeout again.
ReadPart ==
    /\ pc = "reading" /\ link = "up"
    /\ readLeft' = read_timeout /\ trickled' = TRUE
    /\ UNCHANGED <<pc, attempt, sleepLeft, last_ping, uncounted, config, shutdown, link,
                   firstTry, overdue>>

\* Nothing arrived within read_timeout: once more a PING if it is due.  The
\* link is kept.
ReadTimesOut ==
    /\ pc = "reading" /\ read_timeout # 0 /\ readLeft = 0 /\ link # "broken"
    /\ \/ PingFails /\ BackOff
       \/ /\ PingOk /\ Pinged
          /\ pc' = "inner"
          /\ UNCHANGED <<attempt, sleepLeft, readLeft, trickled, uncounted, link>>

-----------------------------------------------------------------------------
(* The owner of the FeedHandle, the network and time *)

\* FeedHandle::shutdown and Drop
RequestShutdown ==
    /\ ~shutdown /\ shutdown' = TRUE
    /\ UNCHANGED <<thread, config, link, firstTry, overdue>>

LinkFails ==
    /\ link \in {"up", "silent"}
    /\ link' \in {"broken", "silent"} \ {link}
    /\ UNCHANGED <<thread, config, shutdown, firstTry, overdue>>

Blocked ==
    \/ pc \in {"connecting", "nap", "exited"}
    \/ pc = "reading" /\ (read_timeout # 0 => readLeft > 0) /\ link # "broken"

\* A chunk of time; last_ping and overdue are not counted beyond what is asked
\* of them.
ThreadWaits ==
    /\ Blocked
    /\ pc' = IF pc = "nap" THEN "sleep" ELSE pc
    /\ sleepLeft' = IF pc = "nap" THEN sleepLeft - 1 ELSE sleepLeft
    /\ readLeft' = IF pc = "reading" /\ readLeft > 0 THEN readLeft - 1 ELSE readLeft
    /\ last_ping' = IF pc = "reading" THEN Min({last_ping + 1, ping_interval + read_timeout + 1})
                                      ELSE last_ping
    /\ overdue' = IF shutdown /\ pc \in {"nap", "reading"}
                  THEN Min({overdue + 1, read_timeout + 2}) ELSE overdue
    /\ UNCHANGED <<attempt, trickled, uncounted, config, shutdown, link, firstTry>>

\* Steps of the thread that neither connect nor hand a message on.
ThreadStep ==
    /\ \/ Sleep /\ UNCHANGED firstTry
       \/ Outer
       \/ ConnectFails
       \/ (Inner \/ ReadControl \/ ReadFails \/ ReadTimesOut) /\ UNCHANGED firstTry
    /\ UNCHANGED <<config, shutdown, overdue>>

-----------------------------------------------------------------------------
(* Properties *)

\* reconnects counts every connection but the first, whether a connection
\* was lost or several attempts failed before, and it counts the first one too
\* if it took more than one attempt.
ReconnectsCounted == uncounted = IF firstTry = "ok" THEN 1 ELSE 0

\* "PING" goes out less than ping_interval + read_timeout after the one before,
\* also when messages and timeouts fall between: the interval is tested only
\* before and after a read, and the read may just have begun.  A read that is
\* held open by a message that arrives in parts, or by a socket without a
\* timeout, is the exception.
PingGap ==
    ping_interval # 0 /\ read_timeout # 0 /\ ~trickled /\ pc \in {"inner", "reading"} =>
        last_ping < ping_interval + read_timeout

\* After a request to shut down the thread takes no nap but the one under way,
\* however long the back-off, and begins no read: it blocks for what is left of
\* the recv under way.  A connect under way is not counted, and a read that is
\* held open is the exception.
ShutdownPrompt ==
    /\ pc = "nap" => overdue = 0
    /\ read_timeout # 0 /\ ~trickled => overdue <= read_timeout

\* What the transport README says of the heartbeat, "PING" every 10s
\* (mandatory), and WsConfig of ping_interval: while connected a PING was sent
\* within the last ping_interval.
PingEveryInterval ==
    ping_interval # 0 /\ pc \in {"inner", "reading"} => last_ping <= ping_interval

\* What the transport README says of shutdown: it responds within 100ms, one
\* chunk, and the thread joins.
ShutdownWithinChunk == overdue <= 1

=============================================================================
