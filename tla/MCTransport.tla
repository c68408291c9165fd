---------------------------- MODULE MCTransport ----------------------------
(***************************************************************************)
(* The ingestion threads in one model: a feed thread; the timer and the    *)
(* monitor that watch a feed, whose messages may come at any time; and the *)
(* callback and decoder that a Binance feed runs.  Which of them a         *)
(* behaviour runs is chosen at the start; the others rest.                 *)
(***************************************************************************)
EXTENDS FeedThread, FeedMonitor, BinanceDecoder

VARIABLE part         \* "feed", "watch" or "binance"

\* Two instruments in different ticks and lots, and frames whose numbers differ
\* between the sides, or of which one is Bad.
MCTickSize == <<10, 4>>
MCLotSize == <<3, 7>>
Ticker(b, a, bidQty, askQty) ==
    [k \in Fields |-> CASE k = "b" -> b [] k = "a" -> a [] k = "B" -> bidQty [] k = "A" -> askQty]
MCNumbers ==
    LET readable == {Ticker(20, 41, 14, 30), Ticker(9, 10, 2, 3)}
    IN  readable \cup {[f EXCEPT ![k] = Bad] : f \in readable, k \in Fields}

transportVars == <<feedVars, watchVars, binanceVars, part>>

MCInit ==
    /\ FeedInit /\ MonitorInit /\ BinanceInit
    /\ part \in {"feed", "watch", "binance"}
    /\ part # "feed" => ping_interval = 0 /\ read_timeout = Min(ReadTimeouts)
    /\ part # "watch" => timer = "config error" /\ tickLeft = TickInterval

InFeed == part = "feed" /\ UNCHANGED <<watchVars, binanceVars, part>>
InWatch == part = "watch" /\ UNCHANGED <<feedVars, binanceVars, part>>

Thread == InFeed /\ ThreadStep
Connect == InFeed /\ ConnectOk /\ UNCHANGED <<config, shutdown, overdue>>

\* The callbacks of the adapters never ask for the end; others may.
Message ==
    /\ InFeed /\ \E goOn \in BOOLEAN : ReadMessage(goOn)
    /\ UNCHANGED <<config, shutdown, firstTry, overdue>>

Feed ==
    \/ Thread \/ Connect \/ Message
    \/ InFeed /\ (ReadPart \/ RequestShutdown \/ LinkFails \/ ThreadWaits)

Watch ==
    InWatch /\ (TimerFires \/ TimerExits \/ StopTimer \/ EnginePops \/ CountEvent \/ WatchWaits)

Binance == part = "binance" /\ BinanceNext /\ UNCHANGED <<feedVars, watchVars, part>>

MCNext == Feed \/ Watch \/ Binance

(***************************************************************************)
(* The feed thread is scheduled and time passes.  A connect returns, and   *)
(* the venue does not refuse it for ever; a PING on a silent link fails in *)
(* the end, because the kernel gives up on data that is not acknowledged;  *)
(* and a message that arrives in parts is complete in the end, because the *)
(* WebSocket library bounds its size.                                      *)
(***************************************************************************)
MCSpec ==
    /\ MCInit /\ [][MCNext]_transportVars
    /\ WF_transportVars(Thread) /\ WF_transportVars(InFeed /\ ThreadWaits)
    /\ SF_transportVars(Connect) /\ WF_transportVars(trickled /\ Message)
    /\ SF_transportVars(Thread /\ link = "silent" /\ PingFails /\ pc' = "sleep")

\* With a read timeout, a request to shut down ends the thread, and a link that
\* goes silent while PINGs are sent is replaced, unless the thread ends; one that
\* breaks is replaced in any case.
FeedLives ==
    /\ (shutdown /\ read_timeout # 0) ~> pc = "exited"
    /\ (link = "broken" \/ (link = "silent" /\ ping_interval # 0 /\ read_timeout # 0))
          ~> (link = "up" \/ pc = "exited")

=============================================================================
