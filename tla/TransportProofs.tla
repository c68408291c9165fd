--------------------------- MODULE TransportProofs --------------------------
(***************************************************************************)
(* Proofs about the ingestion threads of MCTransport: the feed thread, the *)
(* feed monitor and the Binance callback, for all their configurations and *)
(* every interleaving with the network, the engine and the owner's         *)
(* request to shut down.                                                   *)
(***************************************************************************)
EXTENDS MCTransport, NumberLemmas, SequenceTheorems

-----------------------------------------------------------------------------
(* The feed thread *)

FeedTypes ==
    /\ pc \in {"outer", "connecting", "sleep", "nap", "inner", "reading", "exited"}
    /\ attempt \in Nat /\ readLeft \in Nat /\ last_ping \in Nat /\ ping_interval \in Nat
    /\ uncounted \in Nat /\ overdue \in Nat /\ read_timeout \in Nat
    /\ shutdown \in BOOLEAN /\ trickled \in BOOLEAN

\* attempt is zero on the way to a connection only before the first one was
\* tried.
Tries ==
    /\ firstTry = "none" =>
          attempt = 0 /\ uncounted = 0 /\ pc \in {"outer", "connecting", "exited"}
    /\ firstTry # "none" /\ pc \in {"outer", "connecting", "sleep", "nap"} => attempt > 0

\* A read ends after read_timeout.
Timed == read_timeout # 0 /\ ~trickled

\* The read under way ends before the gap between two PINGs is too long.
Pings ==
    ping_interval # 0 /\ Timed =>
        /\ pc = "inner" => last_ping < ping_interval + read_timeout
        /\ pc = "reading" => last_ping + readLeft < ping_interval + read_timeout

\* After a request to shut down there is time for one nap or one recv.
Prompt ==
    /\ ~shutdown \/ pc \in {"outer", "connecting", "nap"} => overdue = 0
    /\ Timed => overdue <= read_timeout
    /\ Timed /\ pc = "reading" => overdue + readLeft <= read_timeout

FeedInv == FeedTypes /\ Tries /\ ReconnectsCounted /\ Pings /\ Prompt

\* What back-off leaves: a closed link and an attempt counted.
LEMMA BackOffFacts ==
    ASSUME FeedTypes, BackOff
    PROVE  /\ pc' = "sleep" /\ attempt' \in Nat /\ attempt' > 0
           /\ link' = "down" /\ readLeft' = 0 /\ last_ping' = 0
           /\ UNCHANGED <<trickled, uncounted>>
  <1>1. attempt' = Min({attempt + 1, MaxAttempt}) /\ attempt \in Nat /\ MaxAttempt \in Nat \ {0}
    BY FeedAssumption DEF BackOff, FeedTypes
  <1>2. attempt' \in Nat /\ attempt' > 0
    BY <1>1, MinOfTwo
  <1> QED BY <1>2 DEF BackOff, Disconnect

\* A step in which the thread backs off.
LEMMA BackOffStep ==
    ASSUME FeedInv, BackOff, firstTry' # "none", firstTry' = "ok" <=> firstTry = "ok",
           UNCHANGED <<config, shutdown, overdue>>
    PROVE  FeedInv'
  <1>1. /\ pc' = "sleep" /\ attempt' \in Nat /\ attempt' > 0
        /\ readLeft' = 0 /\ last_ping' = 0 /\ UNCHANGED <<trickled, uncounted>>
    BY BackOffFacts DEF FeedInv
  <1> QED BY <1>1 DEF FeedInv, FeedTypes, Tries, ReconnectsCounted, Pings, Prompt,
            Timed, config

\* Leaving the loop preserves the invariant.
LEMMA ExitStep ==
    ASSUME FeedInv, Exit, UNCHANGED <<firstTry, config, shutdown, overdue>>
    PROVE  FeedInv'
  BY
     DEF Exit, Disconnect, FeedInv, FeedTypes, Tries, ReconnectsCounted, Pings, Prompt,
         Timed, config

\* Going on to the next read preserves the invariant.
LEMMA ContinueStep ==
    ASSUME FeedInv, pc = "reading", Continue,
           UNCHANGED <<firstTry, config, shutdown, overdue>>
    PROVE  FeedInv'
  <1>1. /\ pc' = "inner" /\ readLeft' = 0
        /\ UNCHANGED <<attempt, trickled, last_ping, uncounted, firstTry, ping_interval,
                       read_timeout, shutdown, overdue>>
    BY DEF Continue, config
  <1>2. FeedTypes' /\ Tries' /\ ReconnectsCounted'
    BY <1>1 DEF FeedInv, FeedTypes, Tries, ReconnectsCounted
  <1>3. Pings'
    BY <1>1 DEF FeedInv, FeedTypes, Pings, Timed
  <1>4. Prompt'
    BY <1>1 DEF FeedInv, FeedTypes, Prompt, Timed
  <1> QED BY <1>2, <1>3, <1>4 DEF FeedInv

\* The read begins; a PING was sent if it was due.
LEMMA ReadStep ==
    ASSUME FeedInv, pc = "inner", ~shutdown,
           pc' = "reading", readLeft' = read_timeout, trickled' = FALSE, Pinged,
           UNCHANGED <<attempt, uncounted, firstTry, config, shutdown, overdue>>
    PROVE  FeedInv'
  <1>1. UNCHANGED <<ping_interval, read_timeout>>
    BY DEF config
  <1>2. last_ping' \in Nat /\ (ping_interval # 0 => last_ping' < ping_interval)
    BY DEF Pinged, PingDue, FeedInv, FeedTypes
  <1>3. FeedTypes' /\ Tries' /\ ReconnectsCounted'
    BY <1>1, <1>2 DEF FeedInv, FeedTypes, Tries, ReconnectsCounted
  <1>4. Pings'
    <2>1. ping_interval \in Nat /\ read_timeout \in Nat
      BY DEF FeedInv, FeedTypes
    <2>2. \A x, y, z \in Nat : x < y => x + z < y + z
      OBVIOUS
    <2>3. ping_interval # 0 => last_ping' + read_timeout < ping_interval + read_timeout
      BY <1>2, <2>1, <2>2
    <2> QED BY <1>1, <2>3 DEF Pings
  <1>5. Prompt'
    BY <1>1 DEF FeedInv, FeedTypes, Prompt, Timed
  <1> QED BY <1>3, <1>4, <1>5 DEF FeedInv

\* A turn of the inner loop preserves the invariant.
LEMMA InnerStep ==
    ASSUME FeedInv, Inner, UNCHANGED <<firstTry, config, shutdown, overdue>>
    PROVE  FeedInv'
  <1>1. pc = "inner" /\ firstTry # "none"
    BY DEF Inner, FeedInv, Tries
  <1> QED BY <1>1, ExitStep, BackOffStep, ReadStep DEF Inner

\* A read that times out preserves the invariant.
LEMMA TimeoutStep ==
    ASSUME FeedInv, ReadTimesOut, UNCHANGED <<firstTry, config, shutdown, overdue>>
    PROVE  FeedInv'
  <1>1. pc = "reading" /\ firstTry # "none"
    BY DEF ReadTimesOut, FeedInv, Tries
  <1>2. CASE BackOff
    BY <1>1, <1>2, BackOffStep
  <1>3. CASE /\ Pinged /\ pc' = "inner" /\ readLeft = 0
             /\ UNCHANGED <<attempt, readLeft, trickled, uncounted>>
    BY <1>1, <1>3, FeedAssumption
          DEF Pinged, PingDue, FeedInv, FeedTypes, Tries, ReconnectsCounted, Pings, Prompt,
            Timed, config
  <1> QED BY <1>2, <1>3 DEF ReadTimesOut

\* The sleep before a retry preserves the invariant.
LEMMA SleepStep ==
    ASSUME FeedInv, Sleep \/ Outer, UNCHANGED <<firstTry, config, shutdown, overdue>>
    PROVE  FeedInv'
  <1>1. CASE Exit
    BY <1>1, ExitStep
  <1>2. CASE /\ ~shutdown
             /\ \/ pc = "sleep" /\ pc' \in {"nap", "outer"}
                \/ pc = "outer" /\ pc' = "connecting"
             /\ UNCHANGED <<attempt, readLeft, trickled, last_ping, uncounted>>
    BY <1>2 DEF FeedInv, FeedTypes, Tries, ReconnectsCounted, Pings, Prompt,
            Timed, config
  <1> QED BY <1>1, <1>2 DEF Sleep, Outer

\* A connection is made; reconnects counts it unless no attempt failed before.
LEMMA ConnectStep ==
    ASSUME FeedInv, ConnectOk, UNCHANGED <<config, shutdown, overdue>>
    PROVE  FeedInv'
  <1>1. /\ pc = "connecting" /\ pc' = "inner" /\ attempt' = 0 /\ last_ping' = 0
        /\ uncounted' = IF attempt > 0 THEN uncounted ELSE uncounted + 1
        /\ firstTry' = IF firstTry = "none" THEN "ok" ELSE firstTry
        /\ UNCHANGED <<readLeft, trickled>>
    BY DEF ConnectOk, FirstTry
  <1>2. firstTry = "none" <=> ~ (attempt > 0)
    BY <1>1 DEF FeedInv, FeedTypes, Tries
  <1>3. Tries' /\ ReconnectsCounted'
    BY <1>1, <1>2 DEF FeedInv, FeedTypes, Tries, ReconnectsCounted
  <1>4. FeedTypes' /\ Pings' /\ Prompt'
    BY <1>1 DEF FeedInv, FeedTypes, Pings, Prompt,
            Timed, config
  <1> QED BY <1>3, <1>4 DEF FeedInv

\* Bytes arrive that do not complete a message.
LEMMA PartStep ==
    ASSUME FeedInv, ReadPart
    PROVE  FeedInv'
  BY DEF ReadPart, FeedInv, FeedTypes, Tries, ReconnectsCounted, Pings, Prompt,
            Timed, config

\* A chunk of time passes.
LEMMA WaitStep ==
    ASSUME FeedInv, ThreadWaits
    PROVE  FeedInv'
  <1>1. /\ Blocked
        /\ pc' = IF pc = "nap" THEN "sleep" ELSE pc
        /\ readLeft' = IF pc = "reading" /\ readLeft > 0 THEN readLeft - 1 ELSE readLeft
        /\ last_ping' = IF pc = "reading"
                        THEN Min({last_ping + 1, ping_interval + read_timeout + 1})
                        ELSE last_ping
        /\ overdue' = IF shutdown /\ pc \in {"nap", "reading"}
                      THEN Min({overdue + 1, read_timeout + 2}) ELSE overdue
        /\ UNCHANGED <<attempt, trickled, uncounted, ping_interval, read_timeout, shutdown,
                       firstTry>>
    BY DEF ThreadWaits, config
  <1>2. pc = "reading" /\ Timed => readLeft > 0
    BY <1>1 DEF Blocked, Timed
  <1>3. /\ last_ping' \in Nat
        /\ pc = "reading" => last_ping' <= last_ping + 1
        /\ pc # "reading" => last_ping' = last_ping
    <2>1. last_ping + 1 \in Nat /\ ping_interval + read_timeout + 1 \in Nat /\ last_ping \in Nat
      BY DEF FeedInv, FeedTypes
    <2> QED BY <1>1, <2>1, MinOfTwo
  <1>4. /\ overdue' \in Nat /\ overdue' <= overdue + 1
        /\ ~(shutdown /\ pc \in {"nap", "reading"}) => overdue' = overdue
    <2>1. overdue + 1 \in Nat /\ read_timeout + 2 \in Nat /\ overdue \in Nat
      BY DEF FeedInv, FeedTypes
    <2> QED BY <1>1, <2>1, MinOfTwo
  <1>5. readLeft' \in Nat
    BY <1>1 DEF FeedInv, FeedTypes
  <1>6. FeedTypes' /\ Tries' /\ ReconnectsCounted'
    BY <1>1, <1>3, <1>4, <1>5 DEF FeedInv, FeedTypes, Tries, ReconnectsCounted
  <1>7. Pings'
    BY <1>1, <1>2, <1>3 DEF FeedInv, FeedTypes, Pings, Timed
  <1>8. Prompt'
    BY <1>1, <1>2, <1>4 DEF FeedInv, FeedTypes, Prompt, Timed
  <1> QED BY <1>6, <1>7, <1>8 DEF FeedInv

\* Every step preserves the invariant of the feed thread.
LEMMA FeedStep == FeedInv /\ [MCNext]_transportVars => FeedInv'
  <1> SUFFICES ASSUME FeedInv, [MCNext]_transportVars PROVE FeedInv'
    OBVIOUS
  <1>1. CASE UNCHANGED feedVars
    BY <1>1
       DEF feedVars, thread, FeedInv, FeedTypes, Tries, ReconnectsCounted, Pings, Prompt,
            Timed, config
  <1>2. CASE ThreadStep
    <2>1. UNCHANGED <<config, shutdown, overdue>>
      BY <1>2 DEF ThreadStep
    <2>2. CASE (Sleep /\ UNCHANGED firstTry) \/ Outer
      BY <2>1, <2>2, SleepStep DEF Outer
    <2>3. CASE ConnectFails
      <3>1. /\ BackOff /\ pc = "connecting"
            /\ firstTry' = IF firstTry = "none" THEN "failed" ELSE firstTry
        BY <2>3 DEF ConnectFails, FirstTry
      <3> QED BY <2>1, <3>1, BackOffStep
    <2>4. CASE Inner /\ UNCHANGED firstTry
      BY <2>1, <2>4, InnerStep
    <2>5. CASE (ReadControl \/ ReadFails) /\ UNCHANGED firstTry
      <3>1. pc = "reading" /\ firstTry # "none"
        BY <2>5 DEF ReadControl, ReadFails, FeedInv, Tries
      <3> QED BY <2>1, <2>5, <3>1, BackOffStep, ContinueStep DEF ReadControl, ReadFails
    <2>6. CASE ReadTimesOut /\ UNCHANGED firstTry
      BY <2>1, <2>6, TimeoutStep
    <2> QED BY <1>2, <2>2, <2>3, <2>4, <2>5, <2>6 DEF ThreadStep
  <1>3. CASE Connect
    BY <1>3, ConnectStep DEF Connect
  <1>4. CASE Message
    BY <1>4, ExitStep, ContinueStep DEF Message, ReadMessage
  <1>5. CASE RequestShutdown
    BY <1>5
       DEF RequestShutdown, thread, FeedInv, FeedTypes, Tries, ReconnectsCounted, Pings, Prompt,
            Timed, config
  <1>6. CASE LinkFails
    BY <1>6
       DEF LinkFails, thread, FeedInv, FeedTypes, Tries, ReconnectsCounted, Pings, Prompt,
            Timed, config
  <1>7. CASE ThreadWaits
    BY <1>7, WaitStep
  <1>8. CASE ReadPart
    BY <1>8, PartStep
  <1> QED BY <1>1, <1>2, <1>3, <1>4, <1>5, <1>6, <1>7, <1>8
          DEF MCNext, Feed, Thread, Watch, InWatch, Binance, transportVars

\* The feed thread starts with its invariant.
LEMMA FirstFeed == MCInit => FeedInv
  <1> SUFFICES ASSUME FeedInit PROVE FeedInv
    BY DEF MCInit
  <1>1. /\ pc = "outer" /\ attempt = 0 /\ readLeft = 0 /\ last_ping = 0
        /\ shutdown = FALSE /\ uncounted = 0 /\ firstTry = "none" /\ overdue = 0
        /\ ping_interval \in Nat /\ read_timeout \in Nat /\ trickled = FALSE
    BY FeedAssumption DEF FeedInit
  <1>2. FeedTypes
    BY <1>1 DEF FeedTypes
  <1>3. Tries /\ ReconnectsCounted /\ Pings
    BY <1>1 DEF Tries, ReconnectsCounted, Pings
  <1>4. Prompt
    BY <1>1 DEF Prompt, Timed
  <1> QED BY <1>2, <1>3, <1>4 DEF FeedInv

\* The invariant implies the two properties of timing.
LEMMA FeedSound == FeedInv => PingGap /\ ShutdownPrompt
  BY FeedAssumption DEF FeedInv, FeedTypes, Pings, Prompt, Timed, PingGap, ShutdownPrompt

\* reconnects counts every connection but a first one that succeeded at once,
\* for every back-off and every pattern of failures.
THEOREM ReconnectsAreCounted == MCSpec => []ReconnectsCounted
  <1>1. FeedInv => ReconnectsCounted
    BY DEF FeedInv
  <1> QED BY <1>1, FirstFeed, FeedStep, PTL DEF MCSpec

\* Two PINGs are less than the interval and a read timeout apart, for every
\* choice of the two, unless a message that arrives in parts holds a read open.
THEOREM PingsAreRegular == MCSpec => []PingGap
  BY FirstFeed, FeedStep, FeedSound, PTL DEF MCSpec

\* A thread that was asked to shut down blocks for one nap or one recv at most,
\* whatever the delay of its back-off, unless a message that arrives in parts
\* holds the read open.
THEOREM ShutdownIsPrompt == MCSpec => []ShutdownPrompt
  BY FirstFeed, FeedStep, FeedSound, PTL DEF MCSpec

-----------------------------------------------------------------------------
(* The timer and the monitor *)

\* The engine pops an event in less than a tick.
PromptEngine == MaxLag < TickInterval

\* The oldest event is a tick, whose check is still to come.
Pending == events # <<>> /\ EventKind(Head(events)) = "Timer"

\* Chunks since the timer fired, and since it fired the time before if the
\* check for the last time is still to come.
SinceFired == (TickInterval - tickLeft) + (IF Pending THEN TickInterval ELSE 0)

\* The events of one tick are popped before the next.
OneTick ==
    /\ tickLeft \in 0 .. TickInterval /\ quiet \in Nat /\ lag \in Nat
    /\ unseen \in BOOLEAN /\ first_check \in BOOLEAN /\ stale \in BOOLEAN
    /\ events \in {<<>>, <<Tick>>, <<Tick, Pulse>>, <<Pulse>>}
    /\ lag <= MaxLag /\ (events = <<>> => lag = 0)
    /\ timer = "running" /\ events # <<>> => lag = TickInterval - tickLeft
    /\ first_check => ~stale

\* A feed that has sent nothing since the last check has been quiet since.
QuietSinceCheck ==
    ~unseen /\ ~first_check =>
        /\ Pending => quiet >= TickInterval - MaxLag
        /\ timer = "running" /\ ~Pending => quiet + MaxLag >= TickInterval - tickLeft

\* An event that no check has seen came after the last check, and one that the
\* last check has seen came at most a tick before.
SeenSoon ==
    timer = "running" =>
        /\ unseen \/ first_check => quiet <= SinceFired
        /\ ~unseen /\ ~first_check /\ ~stale => quiet <= SinceFired + TickInterval

WatchInv == OneTick /\ QuietSinceCheck /\ SeenSoon

\* What the monitor's short queue of events can be.
LEMMA EventFacts ==
    /\ EventKind(Tick) = "Timer" /\ EventKind(Pulse) = "Heartbeat"
    /\ <<>> # <<Tick>> /\ <<>> # <<Tick, Pulse>> /\ <<>> # <<Pulse>>
    /\ Head(<<Tick>>) = Tick /\ Head(<<Tick, Pulse>>) = Tick /\ Head(<<Pulse>>) = Pulse
    /\ Tail(<<Tick>>) = <<>> /\ Tail(<<Tick, Pulse>>) = <<Pulse>> /\ Tail(<<Pulse>>) = <<>>
    /\ Len(<<Tick>>) = 1 /\ Len(<<Tick, Pulse>>) = 2 /\ Len(<<Pulse>>) = 1
    /\ <<>> \o <<Tick>> = <<Tick>> /\ <<>> \o <<Tick, Pulse>> = <<Tick, Pulse>>
  <1>1. EventKind(Tick) = "Timer" /\ EventKind(Pulse) = "Heartbeat"
    BY DEF EventKind, Tick, Pulse, timer_event, heartbeat, HotEventOf
  <1> DEFINE t == Tick  p == Pulse
  <1> HIDE DEF t, p
  <1>2. /\ <<>> # <<t>> /\ <<>> # <<t, p>> /\ <<>> # <<p>>
        /\ Head(<<t>>) = t /\ Head(<<t, p>>) = t /\ Head(<<p>>) = p
        /\ Tail(<<t>>) = <<>> /\ Tail(<<t, p>>) = <<p>> /\ Tail(<<p>>) = <<>>
        /\ Len(<<t>>) = 1 /\ Len(<<t, p>>) = 2 /\ Len(<<p>>) = 1
    OBVIOUS
  <1>3. <<>> \o <<t>> = <<t>> /\ <<>> \o <<t, p>> = <<t, p>>
    OBVIOUS
  <1> QED BY <1>1, <1>2, <1>3 DEF t, p

\* Only a pop takes an event from the queue.
LEMMA WatchStep ==
    ASSUME PromptEngine, WatchInv, [MCNext]_transportVars
    PROVE  /\ WatchInv'
           /\ (events # <<>> /\ events' = Tail(events) /\ Pending /\ stale')
                  => quiet >= TickInterval - MaxLag
  <1>1. /\ TickInterval \in Nat \ {0} /\ MaxLag \in Nat /\ MaxLag < TickInterval
        /\ tickLeft \in 0 .. TickInterval /\ quiet \in Nat /\ lag \in Nat
        /\ events \in {<<>>, <<Tick>>, <<Tick, Pulse>>, <<Pulse>>}
    BY MonitorAssumption DEF PromptEngine, WatchInv, OneTick
  <1>2. events # <<>> => events # Tail(events)
    BY <1>1, EventFacts
  <1>3. CASE UNCHANGED watchVars
    <2>1. UNCHANGED <<timer, tickLeft, events, lag, unseen, first_check, stale, quiet>>
      BY <1>3 DEF watchVars, timerVars, monitorVars
    <2> QED BY <1>2, <2>1 DEF WatchInv, OneTick, QuietSinceCheck, SeenSoon, Pending, SinceFired
  <1>4. CASE TimerExits \/ StopTimer
    <2>1. /\ UNCHANGED <<tickLeft, events, lag, unseen, first_check, stale, quiet>>
          /\ timer' = "running" => timer = "running"
      BY <1>4 DEF TimerExits, StopTimer, monitorVars
    <2> QED BY <1>2, <2>1 DEF WatchInv, OneTick, QuietSinceCheck, SeenSoon, Pending, SinceFired
  <1>5. CASE TimerFires
    <2>1. /\ timer = "running" /\ timer' = timer /\ tickLeft = 0 /\ tickLeft' = TickInterval
          /\ events' = events \o (IF tick_counter' = 0 THEN <<Tick, Pulse>> ELSE <<Tick>>)
          /\ UNCHANGED <<lag, unseen, first_check, stale, quiet>>
      BY <1>5 DEF TimerFires, monitorVars
    <2>2. events = <<>>
      BY <1>1, <2>1 DEF WatchInv, OneTick
    <2>3. events' \in {<<Tick>>, <<Tick, Pulse>>}
      BY <2>1, <2>2, EventFacts
    <2>4. ~Pending /\ Pending' /\ lag = 0 /\ events' # <<>> /\ events' # Tail(events) /\ ~Pending
      BY <2>2, <2>3, EventFacts DEF Pending, WatchInv, OneTick
    <2>5. SinceFired = TickInterval /\ SinceFired' = TickInterval
      BY <1>1, <2>1, <2>4 DEF SinceFired
    <2>6. OneTick'
      BY <1>1, <2>1, <2>3, <2>4 DEF WatchInv, OneTick
    <2>7. QuietSinceCheck'
      BY <1>1, <2>1, <2>4 DEF WatchInv, QuietSinceCheck
    <2>8. SeenSoon'
      BY <2>1, <2>5 DEF WatchInv, SeenSoon
    <2> QED BY <2>4, <2>6, <2>7, <2>8 DEF WatchInv
  <1>6. CASE EnginePops
    <2>1. /\ events # <<>> /\ events' = Tail(events)
          /\ lag' = IF Len(events) = 1 THEN 0 ELSE lag
          /\ UNCHANGED <<timer, tickLeft, quiet>>
      BY <1>6 DEF EnginePops, timerVars
    <2>2. /\ events' \in {<<>>, <<Pulse>>} /\ ~Pending'
          /\ events' # <<>> => lag' = lag
          /\ events' = <<>> => lag' = 0
      <3>1. CASE events = <<Tick>> \/ events = <<Pulse>>
        <4>1. events' = <<>> /\ lag' = 0
          BY <2>1, <3>1, EventFacts
        <4> QED BY <4>1 DEF Pending
      <3>2. CASE events = <<Tick, Pulse>>
        <4>1. events' = <<Pulse>> /\ lag' = lag /\ events' # <<>>
          BY <2>1, <3>2, EventFacts
        <4> QED BY <4>1, EventFacts DEF Pending
      <3> QED BY <1>1, <2>1, <3>1, <3>2
    <2>3. /\ lag <= MaxLag /\ (timer = "running" => lag = TickInterval - tickLeft)
          /\ unseen \in BOOLEAN /\ first_check \in BOOLEAN /\ stale \in BOOLEAN
          /\ first_check => ~stale
      BY <2>1 DEF WatchInv, OneTick
    <2>4. /\ SinceFired = (TickInterval - tickLeft) + (IF Pending THEN TickInterval ELSE 0)
          /\ SinceFired' = TickInterval - tickLeft
      BY <1>1, <2>1, <2>2 DEF SinceFired
    <2>5. CASE Pending
      <3>1. /\ first_check' = FALSE /\ unseen' = FALSE
            /\ stale' = IF first_check THEN stale ELSE ~unseen
        BY <1>6, <2>5 DEF EnginePops, CheckAll, Pending
      <3>2. OneTick'
        <4>1. /\ unseen' \in BOOLEAN /\ first_check' \in BOOLEAN /\ stale' \in BOOLEAN
              /\ first_check' => ~stale'
          BY <2>3, <3>1
        <4> QED BY <1>1, <2>1, <2>2, <2>3, <4>1 DEF OneTick
      <3>3. QuietSinceCheck'
        BY <1>1, <2>1, <2>2, <2>3 DEF QuietSinceCheck
      <3>4. SeenSoon'
        <4> SUFFICES ASSUME timer = "running", ~stale'
                     PROVE  quiet <= (TickInterval - tickLeft) + TickInterval
          BY <2>1, <2>4, <3>1 DEF SeenSoon
        <4>1. unseen \/ first_check
          BY <2>3, <3>1
        <4> QED BY <2>4, <2>5, <4>1 DEF WatchInv, SeenSoon
      <3>5. stale' => quiet >= TickInterval - MaxLag
        BY <2>3, <2>5, <3>1 DEF WatchInv, QuietSinceCheck
      <3> QED BY <3>2, <3>3, <3>4, <3>5 DEF WatchInv
    <2>6. CASE ~Pending
      <3>1. UNCHANGED <<unseen, first_check, stale>>
        BY <1>6, <2>1, <2>6 DEF EnginePops, monitorVars, Pending
      <3>2. OneTick'
        BY <1>1, <2>1, <2>2, <2>3, <3>1 DEF OneTick
      <3>3. QuietSinceCheck'
        BY <2>1, <2>2, <2>6, <3>1 DEF WatchInv, QuietSinceCheck
      <3>4. SeenSoon'
        BY <1>1, <2>1, <2>4, <2>6, <3>1 DEF WatchInv, SeenSoon
      <3> QED BY <2>6, <3>2, <3>3, <3>4 DEF WatchInv
    <2> QED BY <2>5, <2>6
  <1>7. CASE CountEvent
    <2>1. /\ unseen' = TRUE /\ quiet' = 0
          /\ UNCHANGED <<timer, tickLeft, events, lag, first_check, stale>>
      BY <1>7 DEF CountEvent, timerVars
    <2>2. Pending' = Pending /\ SinceFired' = SinceFired
      BY <2>1 DEF Pending, SinceFired
    <2>3. SinceFired \in Nat
      BY <1>1 DEF SinceFired
    <2>4. OneTick' /\ QuietSinceCheck' /\ SeenSoon'
      BY <2>1, <2>2, <2>3 DEF WatchInv, OneTick, QuietSinceCheck, SeenSoon
    <2> QED BY <1>2, <2>1, <2>4 DEF WatchInv
  <1>8. CASE WatchWaits
    <2>1. /\ timer = "running" => tickLeft > 0
          /\ events # <<>> => lag < MaxLag
          /\ tickLeft' = IF timer = "running" THEN tickLeft - 1 ELSE tickLeft
          /\ lag' = IF events = <<>> THEN 0 ELSE lag + 1
          /\ quiet' = IF timer = "running" THEN Min({quiet + 1, Patience + 1}) ELSE quiet
          /\ UNCHANGED <<timer, events, unseen, first_check, stale>>
      BY <1>8 DEF WatchWaits, monitorVars
    <2>2. /\ quiet' \in Nat
          /\ timer = "running" => /\ quiet' <= quiet + 1
                                  /\ quiet' = quiet + 1 \/ quiet' > 2 * TickInterval
          /\ timer # "running" => quiet' = quiet
      <3>1. Patience \in Nat /\ Patience + 1 > 2 * TickInterval
        BY <1>1 DEF Patience
      <3>2. quiet + 1 \in Int /\ Patience + 1 \in Int
        BY <1>1, <3>1
      <3> QED BY <1>1, <2>1, <3>1, <3>2, MinOfTwo
    <2>3. Pending' = Pending
      BY <2>1 DEF Pending
    <2>4. timer = "running" => SinceFired' = SinceFired + 1 /\ SinceFired \in Nat
      BY <1>1, <2>1, <2>3 DEF SinceFired
    <2>5. OneTick'
      BY <1>1, <2>1, <2>2 DEF WatchInv, OneTick
    <2>6. QuietSinceCheck'
      <3> SUFFICES ASSUME ~unseen, ~first_check
                   PROVE  /\ Pending => quiet' >= TickInterval - MaxLag
                          /\ timer = "running" /\ ~Pending =>
                                quiet' + MaxLag >= TickInterval - tickLeft'
        BY <2>1, <2>3 DEF QuietSinceCheck
      <3>1. /\ Pending => quiet >= TickInterval - MaxLag
            /\ timer = "running" /\ ~Pending => quiet + MaxLag >= TickInterval - tickLeft
        BY DEF WatchInv, QuietSinceCheck
      <3>2. CASE timer = "running" /\ quiet' = quiet + 1
        BY <1>1, <2>1, <3>1, <3>2
      <3>3. CASE timer = "running" /\ quiet' > 2 * TickInterval
        BY <1>1, <2>1, <2>2, <3>3
      <3>4. CASE timer # "running"
        BY <2>1, <2>2, <3>1, <3>4
      <3> QED BY <2>2, <3>2, <3>3, <3>4
    <2>7. SeenSoon'
      BY <1>1, <2>1, <2>2, <2>4 DEF WatchInv, SeenSoon
    <2> QED BY <1>2, <2>1, <2>5, <2>6, <2>7 DEF WatchInv
  <1> QED BY <1>3, <1>4, <1>5, <1>6, <1>7, <1>8
          DEF MCNext, Feed, Thread, Connect, Message, InFeed, Watch, Binance, transportVars

\* The monitor starts with its invariant.
LEMMA FirstWatch == PromptEngine /\ MCInit => WatchInv
  <1> SUFFICES ASSUME PromptEngine, MonitorInit PROVE WatchInv
    BY DEF MCInit
  <1>1. /\ tickLeft \in 1 .. TickInterval /\ events = <<>> /\ lag = 0 /\ unseen = FALSE
        /\ first_check = TRUE /\ stale = FALSE /\ quiet = 0
        /\ TickInterval \in Nat \ {0} /\ MaxLag \in Nat
    BY MonitorAssumption DEF MonitorInit
  <1>2. ~Pending /\ SinceFired \in Nat
    BY <1>1 DEF Pending, SinceFired
  <1>3. OneTick
    <2>1. /\ unseen \in BOOLEAN /\ first_check \in BOOLEAN /\ stale \in BOOLEAN
          /\ first_check => ~stale
      BY <1>1
    <2>2. /\ tickLeft \in 0 .. TickInterval /\ quiet \in Nat /\ lag \in Nat /\ lag <= MaxLag
      BY <1>1
    <2> QED BY <1>1, <2>1, <2>2 DEF OneTick
  <1>4. QuietSinceCheck /\ SeenSoon
    BY <1>1, <1>2 DEF QuietSinceCheck, SeenSoon
  <1> QED BY <1>3, <1>4 DEF WatchInv

\* A feed that is silent is reported after two ticks and the engine's lag, and
\* none is reported that has sent something within a tick less the lag: for
\* every tick interval, every lag shorter than it, and wherever the messages
\* fall between the ticks.
THEOREM MonitorIsTimely == PromptEngine => (MCSpec => StaleTimely)
  <1> SUFFICES ASSUME PromptEngine PROVE MCSpec => StaleTimely
    OBVIOUS
  <1>1. MCInit => WatchInv
    BY FirstWatch
  <1>2. WatchInv /\ [MCNext]_transportVars => WatchInv'
    BY WatchStep
  <1>3. WatchInv => (timer = "running" /\ quiet > Patience => stale)
    <2> SUFFICES ASSUME WatchInv, timer = "running", ~stale PROVE ~ (quiet > Patience)
      OBVIOUS
    <2>1. /\ TickInterval \in Nat /\ MaxLag \in Nat /\ tickLeft \in 0 .. TickInterval
          /\ quiet \in Nat /\ lag <= MaxLag /\ lag \in Nat
          /\ events # <<>> => lag = TickInterval - tickLeft
      BY MonitorAssumption DEF WatchInv, OneTick
    <2>2. Pending => TickInterval - tickLeft <= MaxLag
      BY <2>1 DEF Pending
    <2>3. SinceFired <= TickInterval + MaxLag /\ SinceFired \in Nat
      BY <2>1, <2>2 DEF SinceFired
    <2>4. quiet <= SinceFired + TickInterval
      BY <2>1, <2>3 DEF WatchInv, OneTick, SeenSoon
    <2> QED BY <2>1, <2>3, <2>4 DEF Patience
  <1>4. WatchInv /\ [MCNext]_transportVars =>
            [(events # <<>> /\ events' = Tail(events) /\ EventKind(Head(events)) = "Timer" /\ stale')
                => quiet >= TickInterval - MaxLag]_watchVars
    BY WatchStep DEF Pending
  <1> QED BY <1>1, <1>2, <1>3, <1>4, PTL DEF MCSpec, StaleTimely

-----------------------------------------------------------------------------
(* The Binance decoder and its callback *)

Frames ==
    [wrapped: BOOLEAN, symbol: SymbolNames, number: [Fields -> Nat \cup {Bad}]]

Entries ==
    [event: [header: EventHeader, body: Variant("TopOfBook", TopOfBookPayload)], frame: Frames]

\* The event says what its frame said.
Faithful(x) ==
    LET e == x.event
        f == x.frame
    IN  /\ mappings[e.header.inst] = f.symbol
        /\ e.body.payload.price["Bid"] = f.number["b"] \div TickSize[e.header.inst]
        /\ e.body.payload.qty["Bid"] = f.number["B"] \div LotSize[e.header.inst]
        /\ e.body.payload.price["Ask"] = f.number["a"] \div TickSize[e.header.inst]
        /\ e.body.payload.qty["Ask"] = f.number["A"] \div LotSize[e.header.inst]

BinanceTypes ==
    /\ mappings \in Seq(SymbolNames \cup {LongName}) /\ subscribed \in Seq(SymbolNames)
    /\ Len(mappings) <= MaxSymbols /\ combined_stream \in BOOLEAN
    /\ seq \in Nat /\ drop_count \in Nat /\ popped \in Nat /\ good \in Nat
    /\ pushed \in Seq(Entries)

\* The decoder expects the frames that the venue sends.
ModeAgreed ==
    /\ subscribed # <<>> => mappings # <<>> /\ combined_stream = (Len(subscribed) # 1)
    /\ mappings = <<>> => pushed = <<>>

Accounted == seq = good /\ good = popped + Len(pushed) + drop_count

SeqAt(q, i) == q[i].event.header.seq

Rising(q, n) ==
    \A i \in 1 .. Len(q) : SeqAt(q, i) > IF i = 1 THEN n ELSE SeqAt(q, i - 1)

Queued ==
    /\ Rising(pushed, popped)
    /\ \A i \in 1 .. Len(pushed) : SeqAt(pushed, i) <= seq /\ Faithful(pushed[i])

BinanceInv == BinanceTypes /\ ModeAgreed /\ Accounted /\ Queued

\* The lists of symbols are sequences.
LEMMA ListsAreSequences ==
    ASSUME NEW names, NEW n \in Nat, NEW m \in SymbolLists(names, n)
    PROVE  m \in Seq(names)
  <1>1. PICK k \in 0 .. n : m \in [1 .. k -> names]
    BY DEF SymbolLists
  <1> QED BY <1>1, SeqDef

\* What decode makes of a frame that it can read.
LEMMA TopOfBookFaithful ==
    ASSUME BinanceTypes, NEW f \in Frames, Decodes(f)
    PROVE  LET x == [event |-> TopOfBook(f), frame |-> f]
           IN  x \in Entries /\ x.event.header.seq = seq + 1 /\ Faithful(x)
  <1> DEFINE found == FindSymbol(f.symbol)
             inst == Min(found)
             price == [s \in Sides |-> InTicks(inst, f.number[PriceOf[s]])]
             qty == [s \in Sides |-> InLots(inst, f.number[SizeOf[s]])]
             h == [seq |-> seq + 1, inst |-> inst, flags |-> EMPTY]
             t == [price |-> price, qty |-> qty]
             e == [header |-> h, body |-> [kind |-> "TopOfBook", payload |-> t]]
             x == [event |-> e, frame |-> f]
  <1>1. inst \in 1 .. MaxSymbols /\ inst \in Nat /\ mappings[inst] = f.symbol
    <2>1. /\ found \in SUBSET Nat /\ found # {} /\ found \subseteq 1 .. Len(mappings)
          /\ Len(mappings) \in Nat /\ Len(mappings) <= MaxSymbols /\ MaxSymbols \in Nat
      BY BinanceAssumption, LenProperties DEF Decodes, FindSymbol, BinanceTypes
    <2>2. inst \in found
      BY <2>1, MinMember
    <2>3. inst \in 1 .. MaxSymbols
      <3> HIDE DEF found, inst
      <3> QED BY <2>1, <2>2
    <2> QED BY <2>1, <2>2, <2>3 DEF FindSymbol
  <1>2. TopOfBook(f) = e
    BY DEF TopOfBook, top_of_book, HotEventOf, Header
  <1> HIDE DEF inst
  <1>3. \A k \in Fields : f.number[k] \in Nat
    BY BinanceAssumption DEF Decodes, Frames
  <1>4. \A n \in Nat : n \div TickSize[inst] \in Nat /\ n \div LotSize[inst] \in Nat
    <2>1. TickSize[inst] \in Nat \ {0} /\ LotSize[inst] \in Nat \ {0}
      BY <1>1, BinanceAssumption
    <2> QED BY <2>1, Division
  <1>5. /\ \A n : /\ InTicks(inst, n) = n \div TickSize[inst]
                 /\ InLots(inst, n) = n \div LotSize[inst]
        /\ PriceOf["Bid"] = "b" /\ PriceOf["Ask"] = "a"
        /\ SizeOf["Bid"] = "B" /\ SizeOf["Ask"] = "A"
        /\ Sides = {"Bid", "Ask"} /\ Fields = {"b", "a", "B", "A"}
    BY DEF InTicks, InLots, PriceOf, SizeOf, Sides, Fields
  <1>6. /\ price["Bid"] = f.number["b"] \div TickSize[inst]
        /\ price["Ask"] = f.number["a"] \div TickSize[inst]
        /\ qty["Bid"] = f.number["B"] \div LotSize[inst]
        /\ qty["Ask"] = f.number["A"] \div LotSize[inst]
    BY <1>5
  <1>7. price \in [Sides -> Int] /\ qty \in [Sides -> Nat]
    BY <1>3, <1>4, <1>5
  <1> HIDE DEF price, qty
  <1>8. h \in EventHeader /\ t \in TopOfBookPayload
    BY <1>1, <1>7 DEF BinanceTypes, EventHeader, TopOfBookPayload, EventFlags, EMPTY
  <1>9. x \in Entries
    BY <1>8 DEF Entries, Variant
  <1>10. Faithful(x)
    BY <1>1, <1>6 DEF Faithful
  <1> QED BY <1>2, <1>9, <1>10

\* A readable frame is pushed.
LEMMA QueuedMore ==
    ASSUME BinanceInv, NEW x \in Entries, x.event.header.seq = seq + 1, Faithful(x),
           seq' = seq + 1, pushed' = Append(pushed, x), UNCHANGED <<mappings, popped>>
    PROVE  pushed' \in Seq(Entries) /\ Len(pushed') = Len(pushed) + 1 /\ Queued'
  <1> DEFINE n == Len(pushed)
  <1>1. /\ pushed \in Seq(Entries) /\ n \in Nat /\ seq \in Nat /\ popped \in Nat
        /\ drop_count \in Nat /\ seq = popped + n + drop_count
    BY LenProperties DEF BinanceInv, BinanceTypes, Accounted
  <1>2. /\ pushed' \in Seq(Entries) /\ Len(pushed') = n + 1 /\ pushed'[n + 1] = x
        /\ \A i \in 1 .. n : pushed'[i] = pushed[i]
    BY <1>1, AppendProperties
  <1>3. /\ \A i \in 1 .. n : SeqAt(pushed, i) > IF i = 1 THEN popped ELSE SeqAt(pushed, i - 1)
        /\ \A i \in 1 .. n : SeqAt(pushed, i) <= seq /\ Faithful(pushed[i])
    BY DEF BinanceInv, Queued, Rising
  <1>4. \A i \in 1 .. n : SeqAt(pushed, i) \in Nat
    <2>1. \A i \in 1 .. n : pushed[i] \in Entries
      BY <1>1, ElementOfSeq
    <2> QED BY <2>1 DEF SeqAt, Entries, EventHeader
  <1> HIDE DEF n
  <1>5. SeqAt(pushed', n + 1) = seq + 1 /\ \A i \in 1 .. n : SeqAt(pushed', i) = SeqAt(pushed, i)
    BY <1>2 DEF SeqAt
  <1>6. Rising(pushed', popped)
    <2> SUFFICES ASSUME NEW i \in 1 .. n + 1
                 PROVE  SeqAt(pushed', i) > IF i = 1 THEN popped ELSE SeqAt(pushed', i - 1)
      BY <1>2 DEF Rising
    <2>1. CASE i \in 1 .. n
      <3>1. i # 1 => i - 1 \in 1 .. n
        BY <1>1, <2>1
      <3> QED BY <1>3, <1>5, <2>1, <3>1
    <2>2. CASE i = n + 1 /\ n = 0
      BY <1>1, <1>5, <2>2
    <2>3. CASE i = n + 1 /\ n # 0
      <3>1. n \in 1 .. n /\ i - 1 = n /\ i # 1
        BY <1>1, <2>3
      <3>2. SeqAt(pushed', n) \in Nat /\ SeqAt(pushed', n) <= seq
        BY <1>3, <1>4, <1>5, <3>1
      <3> QED BY <1>1, <1>5, <2>3, <3>1, <3>2
    <2>4. i \in 1 .. n \/ i = n + 1
      BY <1>1
    <2> QED BY <2>1, <2>2, <2>3, <2>4
  <1>7. ASSUME NEW i \in 1 .. n + 1
        PROVE  SeqAt(pushed', i) <= seq + 1 /\ Faithful(pushed'[i])
    <2>1. CASE i \in 1 .. n
      BY <1>1, <1>2, <1>3, <1>4, <1>5, <2>1
    <2>2. CASE i = n + 1
      BY <1>1, <1>2, <1>5, <2>2
    <2>3. i \in 1 .. n \/ i = n + 1
      BY <1>1
    <2> QED BY <2>1, <2>2, <2>3
  <1>8. \A y : Faithful(y)' <=> Faithful(y)
    BY DEF Faithful
  <1> QED BY <1>2, <1>6, <1>7, <1>8 DEF Queued, n

\* A frame of the venue preserves the invariant, whatever it holds.
LEMMA FrameStep ==
    ASSUME BinanceInv, NEW symbol \in SymbolNames, NEW number \in Numbers,
           VenueSends(symbol, number)
    PROVE  BinanceInv'
  <1> DEFINE f == [wrapped |-> Len(subscribed) # 1, symbol |-> symbol, number |-> number]
             x == [event |-> TopOfBook(f), frame |-> f]
  <1>1. /\ \E i \in DOMAIN subscribed : subscribed[i] = symbol
        /\ OnFrame(f)
        /\ good' = IF FindSymbol(symbol) # {} /\ \A k \in Fields : number[k] # Bad
                   THEN good + 1 ELSE good
        /\ UNCHANGED <<mappings, combined_stream, subscribed, popped>>
    BY DEF VenueSends
  <1>2. f \in Frames
    BY BinanceAssumption DEF Frames
  <1>3. subscribed # <<>>
    BY <1>1, EmptySeq
  <1>4. Decodes(f) <=> FindSymbol(symbol) # {} /\ \A k \in Fields : number[k] # Bad
    BY <1>3 DEF Decodes, BinanceInv, ModeAgreed
  <1>5. /\ BinanceTypes /\ ModeAgreed /\ Accounted /\ Queued
        /\ Len(pushed) \in Nat /\ mappings # <<>>
    BY <1>3, LenProperties DEF BinanceInv, BinanceTypes, ModeAgreed
  <1>6. CASE ~Decodes(f)
    <2>1. UNCHANGED <<seq, pushed, drop_count, good>>
      BY <1>1, <1>4, <1>6 DEF OnFrame
    <2>2. \A y : Faithful(y)' <=> Faithful(y)
      BY <1>1 DEF Faithful
    <2> QED BY <1>1, <1>5, <2>1, <2>2
            DEF BinanceInv, BinanceTypes, ModeAgreed, Accounted, Queued, Rising, SeqAt
  <1>7. CASE Decodes(f) /\ seq' = seq + 1 /\ pushed' = Append(pushed, x) /\ UNCHANGED drop_count
    <2>1. x \in Entries /\ x.event.header.seq = seq + 1 /\ Faithful(x)
      BY <1>2, <1>5, <1>7, TopOfBookFaithful
    <2> HIDE DEF x
    <2>2. pushed' \in Seq(Entries) /\ Len(pushed') = Len(pushed) + 1 /\ Queued'
      BY <1>1, <1>7, <2>1, QueuedMore
    <2>3. good' = good + 1
      BY <1>1, <1>4, <1>7
    <2>4. BinanceTypes' /\ ModeAgreed'
      BY <1>1, <1>5, <1>7, <2>2, <2>3 DEF BinanceTypes, ModeAgreed
    <2>5. Accounted'
      <3>1. /\ seq = good /\ good = popped + Len(pushed) + drop_count
            /\ popped \in Nat /\ drop_count \in Nat /\ good \in Nat
        BY <1>5 DEF Accounted, BinanceTypes
      <3>2. good + 1 = popped + (Len(pushed) + 1) + drop_count
        BY <1>5, <3>1
      <3> QED BY <1>1, <1>7, <2>2, <2>3, <3>1, <3>2 DEF Accounted
    <2> QED BY <2>2, <2>4, <2>5 DEF BinanceInv
  <1>8. CASE Decodes(f) /\ seq' = seq + 1 /\ drop_count' = drop_count + 1 /\ UNCHANGED pushed
    <2>1. good' = good + 1
      BY <1>1, <1>4, <1>8
    <2>2. \A y : Faithful(y)' <=> Faithful(y)
      BY <1>1 DEF Faithful
    <2>3. \A i \in 1 .. Len(pushed) : SeqAt(pushed, i) \in Nat
      <3>1. \A i \in 1 .. Len(pushed) : pushed[i] \in Entries
        BY <1>5, ElementOfSeq DEF BinanceTypes
      <3> QED BY <3>1 DEF SeqAt, Entries, EventHeader
    <2>4. \A i \in 1 .. Len(pushed) : SeqAt(pushed, i) <= seq + 1 /\ Faithful(pushed[i])
      BY <1>5, <2>3 DEF Queued, BinanceTypes
    <2>5. Queued'
      BY <1>1, <1>5, <1>8, <2>2, <2>4 DEF Queued, Rising, SeqAt
    <2>6. BinanceTypes' /\ ModeAgreed' /\ Accounted'
      BY <1>1, <1>5, <1>8, <2>1 DEF BinanceTypes, ModeAgreed, Accounted
    <2> QED BY <2>5, <2>6 DEF BinanceInv
  <1> QED BY <1>1, <1>6, <1>7, <1>8 DEF OnFrame

\* The engine popping an event preserves the invariant.
LEMMA PopTobStep ==
    ASSUME BinanceInv, EnginePopsTob
    PROVE  BinanceInv'
  <1>1. /\ pushed # <<>> /\ pushed' = Tail(pushed) /\ popped' = popped + 1
        /\ UNCHANGED <<mappings, combined_stream, seq, subscribed, drop_count, good>>
    BY DEF EnginePopsTob
  <1>2. BinanceTypes /\ ModeAgreed /\ Accounted /\ Queued
    BY DEF BinanceInv
  <1> DEFINE n == Len(pushed)
  <1>3. /\ n \in Nat \ {0} /\ pushed' \in Seq(Entries) /\ Len(pushed') = n - 1
        /\ \A i \in 1 .. n - 1 : pushed'[i] = pushed[i + 1]
    BY <1>1, <1>2, HeadTailProperties, EmptySeq, LenProperties DEF BinanceTypes
  <1>4. \A i \in 1 .. n : SeqAt(pushed, i) \in Nat
    <2>1. \A i \in 1 .. n : pushed[i] \in Entries
      BY <1>2, ElementOfSeq DEF BinanceTypes
    <2> QED BY <2>1 DEF SeqAt, Entries, EventHeader
  <1>5. /\ \A i \in 1 .. n : SeqAt(pushed, i) > IF i = 1 THEN popped ELSE SeqAt(pushed, i - 1)
        /\ \A i \in 1 .. n : SeqAt(pushed, i) <= seq /\ Faithful(pushed[i])
    BY <1>2 DEF Queued, Rising
  <1>6. /\ popped \in Nat /\ drop_count \in Nat /\ good \in Nat /\ seq \in Nat
        /\ good = popped + n + drop_count /\ seq = good
    BY <1>2 DEF BinanceTypes, Accounted
  <1> HIDE DEF n
  <1>7. \A i \in 1 .. n - 1 : i + 1 \in 1 .. n /\ SeqAt(pushed', i) = SeqAt(pushed, i + 1)
    BY <1>3 DEF SeqAt
  <1>8. Rising(pushed', popped')
    <2> SUFFICES ASSUME NEW i \in 1 .. n - 1
                 PROVE  SeqAt(pushed', i) > IF i = 1 THEN popped + 1 ELSE SeqAt(pushed', i - 1)
      BY <1>1, <1>3 DEF Rising
    <2>1. SeqAt(pushed, i + 1) > SeqAt(pushed, i) /\ i \in 1 .. n /\ i + 1 \in 1 .. n
      <3>1. i + 1 \in 1 .. n /\ i \in 1 .. n /\ i + 1 # 1 /\ (i + 1) - 1 = i
        BY <1>3
      <3> QED BY <1>5, <3>1
    <2>2. CASE i = 1
      <3>1. SeqAt(pushed, 1) > popped
        BY <1>5, <2>1, <2>2
      <3> QED BY <1>4, <1>6, <1>7, <2>1, <2>2, <3>1
    <2>3. CASE i # 1
      <3>1. i - 1 \in 1 .. n - 1 /\ (i - 1) + 1 = i
        BY <1>3, <2>3
      <3>2. SeqAt(pushed', i - 1) = SeqAt(pushed, i)
        BY <1>7, <3>1
      <3> QED BY <1>7, <2>1, <2>3, <3>2
    <2> QED BY <2>2, <2>3
  <1>9. \A y : Faithful(y)' <=> Faithful(y)
    BY <1>1 DEF Faithful
  <1>10. \A i \in 1 .. n - 1 : SeqAt(pushed', i) <= seq /\ Faithful(pushed'[i])
    BY <1>3, <1>5, <1>7
  <1>11. Queued'
    BY <1>1, <1>3, <1>8, <1>9, <1>10 DEF Queued
  <1>12. Accounted'
    <2>1. good = (popped + 1) + (n - 1) + drop_count
      BY <1>3, <1>6
    <2> QED BY <1>1, <1>3, <1>6, <2>1 DEF Accounted
  <1>13. BinanceTypes' /\ ModeAgreed'
    BY <1>1, <1>2, <1>3, <1>6 DEF BinanceTypes, ModeAgreed
  <1> QED BY <1>11, <1>12, <1>13 DEF BinanceInv

\* The decoder is made, or the feed is spawned.
LEMMA SetupStep ==
    ASSUME BinanceInv,
           \/ \E m \in SymbolLists(SymbolNames \cup {LongName}, MaxSymbols + 1) : NewDecoder(m)
           \/ \E m \in SymbolLists(SymbolNames, MaxSymbols) : SpawnBinanceFeed(m)
    PROVE  BinanceInv'
  <1>1. BinanceTypes /\ ModeAgreed /\ Accounted /\ Queued
    BY DEF BinanceInv
  <1>2. ASSUME NEW m \in SymbolLists(SymbolNames \cup {LongName}, MaxSymbols + 1), NewDecoder(m)
        PROVE  BinanceInv'
    <2>1. m \in Seq(SymbolNames \cup {LongName}) /\ Len(m) \in Nat
      BY BinanceAssumption, ListsAreSequences, LenProperties
    <2>2. /\ mappings = <<>> /\ mappings' = m /\ m # <<>> /\ ~(Len(m) > MaxSymbols)
          /\ combined_stream' = (Len(m) > 1)
          /\ UNCHANGED <<seq, subscribed, drop_count, pushed, popped, good>>
      BY <1>2 DEF NewDecoder, DecoderError
    <2>3. pushed = <<>> /\ subscribed = <<>> /\ Len(pushed) = 0
      BY <1>1, <2>2, EmptySeq DEF ModeAgreed
    <2>4. BinanceTypes' /\ ModeAgreed' /\ Accounted'
      BY <1>1, <2>1, <2>2, <2>3, BinanceAssumption DEF BinanceTypes, ModeAgreed, Accounted
    <2>5. Queued'
      BY <2>2, <2>3 DEF Queued, Rising
    <2> QED BY <2>4, <2>5 DEF BinanceInv
  <1>3. ASSUME NEW m \in SymbolLists(SymbolNames, MaxSymbols), SpawnBinanceFeed(m)
        PROVE  BinanceInv'
    <2>1. m \in Seq(SymbolNames)
      BY BinanceAssumption, ListsAreSequences
    <2>2. /\ mappings # <<>> /\ m # <<>> /\ subscribed' = m
          /\ combined_stream' = (Len(m) > 1)
          /\ UNCHANGED <<mappings, seq, drop_count, pushed, popped, good>>
      BY <1>3 DEF SpawnBinanceFeed
    <2>3. Len(m) \in Nat \ {0}
      BY <2>1, <2>2, LenProperties, EmptySeq
    <2>4. combined_stream' = (Len(m) # 1) /\ combined_stream' \in BOOLEAN
      <3> DEFINE n == Len(m)
      <3>1. n \in Nat \ {0} /\ combined_stream' = (n > 1)
        BY <2>2, <2>3
      <3> HIDE DEF n
      <3>2. CASE n = 1
        <4>1. (n > 1) = FALSE
          BY <3>2
        <4>2. combined_stream' = FALSE
          BY <3>1, <4>1
        <4> QED BY <3>2, <4>2 DEF n
      <3>3. CASE n # 1
        <4>1. n > 1
          BY <3>1, <3>3
        <4>2. combined_stream' = TRUE
          BY <3>1, <4>1
        <4> QED BY <3>3, <4>2 DEF n
      <3> QED BY <3>2, <3>3
    <2>5. \A y : Faithful(y)' <=> Faithful(y)
      BY <2>2 DEF Faithful
    <2>6. BinanceTypes' /\ ModeAgreed' /\ Accounted'
      BY <1>1, <2>1, <2>2, <2>4 DEF BinanceTypes, ModeAgreed, Accounted
    <2>7. Queued'
      BY <1>1, <2>2, <2>5 DEF Queued, Rising, SeqAt
    <2> QED BY <2>6, <2>7 DEF BinanceInv
  <1> QED BY <1>2, <1>3

\* Every step preserves the invariant of the Binance decoder.
LEMMA BinanceStep == BinanceInv /\ [MCNext]_transportVars => BinanceInv'
  <1> SUFFICES ASSUME BinanceInv, [MCNext]_transportVars PROVE BinanceInv'
    OBVIOUS
  <1>1. CASE UNCHANGED binanceVars
    <2>1. UNCHANGED <<mappings, combined_stream, seq, subscribed, drop_count, pushed, popped, good>>
      BY <1>1 DEF binanceVars
    <2>2. \A y : Faithful(y)' <=> Faithful(y)
      BY <2>1 DEF Faithful
    <2> QED BY <2>1, <2>2
            DEF BinanceInv, BinanceTypes, ModeAgreed, Accounted, Queued, Rising, SeqAt
  <1>2. CASE BinanceNext
    BY <1>2, SetupStep, FrameStep, PopTobStep DEF BinanceNext
  <1> QED BY <1>1, <1>2
          DEF MCNext, Feed, Thread, Connect, Message, InFeed, Watch, InWatch, Binance,
              transportVars

\* The Binance decoder starts with its invariant.
LEMMA FirstBinance == MCInit => BinanceInv
  <1> SUFFICES ASSUME BinanceInit PROVE BinanceInv
    BY DEF MCInit
  <1>1. /\ mappings = <<>> /\ combined_stream = FALSE /\ seq = 0 /\ subscribed = <<>>
        /\ drop_count = 0 /\ pushed = <<>> /\ popped = 0 /\ good = 0
    BY DEF BinanceInit
  <1>2. BinanceTypes
    <2>1. /\ mappings \in Seq(SymbolNames \cup {LongName}) /\ subscribed \in Seq(SymbolNames)
          /\ pushed \in Seq(Entries) /\ Len(mappings) = 0
      BY <1>1, EmptySeq
    <2>2. Len(mappings) <= MaxSymbols
      BY <2>1, BinanceAssumption
    <2> QED BY <1>1, <2>1, <2>2 DEF BinanceTypes
  <1>3. ModeAgreed /\ Accounted
    BY <1>1 DEF ModeAgreed, Accounted
  <1>4. Queued
    BY <1>1 DEF Queued, Rising
  <1> QED BY <1>2, <1>3, <1>4 DEF BinanceInv

\* The invariant implies that every event is accounted for.
LEMMA BinanceSound == BinanceInv => TobAccounted
  <1> SUFFICES ASSUME BinanceInv PROVE TobAccounted
    OBVIOUS
  <1>1. DOMAIN pushed = 1 .. Len(pushed)
    BY LenProperties DEF BinanceInv, BinanceTypes
  <1> QED BY <1>1 DEF TobAccounted, BinanceInv, Accounted, Queued, Rising, SeqAt, Faithful

\* Every readable frame of a mapped symbol becomes one event, which is queued,
\* popped or counted as dropped, and says what the frame said of the right
\* instrument: for every list of mappings and of subscribed symbols, of any
\* length and with repetitions, and every size of queue.
THEOREM EveryTobAccounted == MCSpec => []TobAccounted
  BY FirstBinance, BinanceStep, BinanceSound, PTL DEF MCSpec

=============================================================================
