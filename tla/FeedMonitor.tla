---------------------------- MODULE FeedMonitor -----------------------------
(***************************************************************************)
(* crates/transport: the timer thread (timer.rs), the events it pushes,    *)
(* and the feed monitor (monitor.rs), which the engine runs for every      *)
(* Timer event it pops.  One feed is monitored.                            *)
(*                                                                         *)
(* A tick_interval is a whole number of chunks of 100 ms; the engine pops  *)
(* an event at most MaxLag chunks after the push (an assumption on the     *)
(* external engine loop).  Of the counters only what is asked of them is   *)
(* kept: whether event_count differs from last_seen, and tick_counter      *)
(* modulo heartbeat_every.  seq and heartbeat_counter, which no one reads, *)
(* stand at 0.                                                             *)
(***************************************************************************)
EXTENDS Events, Sequences, FiniteSetsExt

CONSTANTS TickInterval,       \* TimerConfig::tick_interval
          HeartbeatIntervals, \* values of TimerConfig::heartbeat_interval
          MaxLag              \* bound: chunks an event waits for the engine

ASSUME MonitorAssumption ==
    TickInterval \in Nat \ {0} /\ HeartbeatIntervals \subseteq Nat /\ MaxLag \in Nat

VARIABLES
    timer,            \* the timer thread: "config error", "running" or "exited"
    heartbeat_every,  \* what validate returns
    tickLeft,         \* chunks left of interruptible_sleep
    tick_counter,     \* modulo heartbeat_every
    timer_shutdown,
    events,           \* pushed and not yet popped
    lag,              \* chunks since the oldest of them was pushed
    unseen,           \* event_count # last_seen
    first_check,
    stale,
    quiet             \* chunks since the feed's last event or the timer's start,
                      \* while the timer runs (history)

timerVars == <<timer, heartbeat_every, tickLeft, tick_counter, timer_shutdown>>
monitorVars == <<unseen, first_check, stale>>
watchVars == <<timerVars, monitorVars, events, lag, quiet>>

\* Chunks after which a silent feed must have been noticed.
Patience == 2 * TickInterval + MaxLag

\* validate: heartbeat_interval is a multiple of tick_interval.
Valid(heartbeat_interval) ==
    heartbeat_interval >= TickInterval /\ heartbeat_interval % TickInterval = 0

\* TimerThread::spawn, and register
MonitorInit ==
    /\ \E hb \in HeartbeatIntervals :
          IF Valid(hb) THEN timer = "running" /\ heartbeat_every = hb \div TickInterval
                       ELSE timer = "config error" /\ heartbeat_every = 0
    /\ tickLeft \in 1 .. TickInterval /\ tick_counter = 0 /\ timer_shutdown = FALSE
    /\ events = <<>> /\ lag = 0
    /\ unseen = FALSE /\ first_check = TRUE /\ stale = FALSE /\ quiet = 0

-----------------------------------------------------------------------------
(* timer_loop *)

Tick == timer_event(0, NO_INSTRUMENT, EMPTY, [kind |-> "Periodic"])
Pulse == heartbeat(0, EMPTY, [counter |-> 0])

TimerFires ==
    /\ timer = "running" /\ tickLeft = 0 /\ ~timer_shutdown
    /\ tickLeft' = TickInterval
    /\ tick_counter' = (tick_counter + 1) % heartbeat_every
    /\ events' = events \o (IF tick_counter' = 0 THEN <<Tick, Pulse>> ELSE <<Tick>>)
    /\ UNCHANGED <<timer, heartbeat_every, timer_shutdown, lag, monitorVars, quiet>>

\* The flag is read before each nap and after the last.
TimerExits ==
    /\ timer = "running" /\ timer_shutdown
    /\ timer' = "exited"
    /\ UNCHANGED <<heartbeat_every, tickLeft, tick_counter, timer_shutdown, events, lag,
                   monitorVars, quiet>>

\* TimerThread::shutdown and Drop
StopTimer ==
    /\ timer = "running" /\ ~timer_shutdown
    /\ timer_shutdown' = TRUE
    /\ UNCHANGED <<timer, heartbeat_every, tickLeft, tick_counter, events, lag, monitorVars, quiet>>

-----------------------------------------------------------------------------
(* FeedMonitor *)

\* A slip in check_all: last_seen is set by the first check only.
CheckAllKeepsSeen ==
    /\ first_check' = FALSE
    /\ unseen' = IF first_check THEN FALSE ELSE unseen
    /\ stale' = IF first_check THEN stale ELSE ~unseen

\* check_all: the first check sets the base line.
CheckAll ==
    /\ first_check' = FALSE
    /\ unseen' = FALSE
    /\ stale' = IF first_check THEN stale ELSE ~unseen

\* The engine pops an event.
EnginePops ==
    /\ events # <<>>
    /\ events' = Tail(events)
    /\ lag' = IF Len(events) = 1 THEN 0 ELSE lag
    /\ IF EventKind(Head(events)) = "Timer" THEN CheckAll ELSE UNCHANGED monitorVars
    /\ UNCHANGED <<timerVars, quiet>>

\* The feed's callback counts a message in event_count.
CountEvent ==
    /\ unseen' = TRUE /\ quiet' = 0
    /\ UNCHANGED <<timerVars, events, lag, first_check, stale>>

\* A chunk of time, in which the timer thread naps.
WatchWaits ==
    /\ timer = "running" => tickLeft > 0 /\ ~timer_shutdown
    /\ events # <<>> => lag < MaxLag
    /\ tickLeft' = IF timer = "running" THEN tickLeft - 1 ELSE tickLeft
    /\ lag' = IF events = <<>> THEN 0 ELSE lag + 1
    /\ quiet' = IF timer = "running" THEN Min({quiet + 1, Patience + 1}) ELSE quiet
    /\ UNCHANGED <<timer, heartbeat_every, tick_counter, timer_shutdown, events, monitorVars>>

-----------------------------------------------------------------------------
(* Properties *)

\* The monitor neither misses a feed that is silent nor cries wolf, wherever
\* the messages fall between the ticks and however the engine lags (less than
\* a tick): while the timer runs, a feed without an event for two ticks and the
\* lag is stale; and a check finds it stale only if no event came for a tick
\* less the lag.
StaleTimely ==
    /\ [](timer = "running" /\ quiet > Patience => stale)
    /\ [][(events # <<>> /\ events' = Tail(events) /\ EventKind(Head(events)) = "Timer" /\ stale')
            => quiet >= TickInterval - MaxLag]_watchVars

=============================================================================
