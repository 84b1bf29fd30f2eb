------------------------------ MODULE Startup ------------------------------
(***************************************************************************)
(* The process that scripts/run.py starts, from its client to its end:     *)
(* _run_live() with the preflight, the feed tasks and the finally, over    *)
(* the connection of Feed, or _run_dry() over a synthetic feed.  The bot   *)
(* between start and stop is the subject of Bot.  Time is what a poll      *)
(* finds: its condition, or the deadline passed.                           *)
(***************************************************************************)
EXTENDS Feed

CONSTANT Book       \* the subscriber whose messages are order books

VARIABLES
    mode,           \* the command line: "live" or "dry"
    phase,          \* where the main task stands
    priced,         \* the market data store has a mid price
    feeding         \* the feed tasks that run

startVars == <<mode, phase, priced, feeding>>
startupVars == <<feedVars, startVars>>

Phases == {"main", "connect", "waitConn", "waitData", "balances", "orders", "feeds",
           "running", "stopping", "closing", "noConn", "noData", "ended"}

StartupInit ==
    /\ FeedInit
    /\ mode \in {"live", "dry"}
    /\ phase = "main"
    /\ priced = FALSE
    /\ feeding = {}

\* A step of the main task that is not on the connection.
Goes(from, to) == phase = from /\ phase' = to /\ UNCHANGED mode

-----------------------------------------------------------------------------
\* The live mode asks for a "yes" first; without one, or without keys or a pair,
\* the process ends.
ConfirmLive ==
    /\ mode = "live"
    /\ Goes("main", "connect") \/ Goes("main", "ended")
    /\ UNCHANGED <<feedVars, priced, feeding>>

\* client.connect() returns at once.
ConnectClient ==
    /\ Goes("connect", "waitConn")
    /\ Connect
    /\ UNCHANGED <<priced, feeding>>

WaitForConnection ==
    /\ \/ conn # 0 /\ Goes("waitConn", "waitData")
       \/ conn = 0 /\ Goes("waitConn", "noConn")
    /\ UNCHANGED <<feedVars, priced, feeding>>

WaitForData ==
    /\ \/ priced /\ Goes("waitData", "balances")
       \/ ~priced /\ Goes("waitData", "noData")
    /\ UNCHANGED <<feedVars, priced, feeding>>

\* Both catch whatever the client raises.
FetchBalances == Goes("balances", "orders") /\ UNCHANGED <<feedVars, priced, feeding>>
ReconcileOrders == Goes("orders", "feeds") /\ UNCHANGED <<feedVars, priced, feeding>>

\* The tasks are created here; each subscribes when it first runs.
StartFeeds ==
    /\ Goes("feeds", "running")
    /\ feeding' = Subscribers
    /\ UNCHANGED <<feedVars, priced>>

SubscribeFeed(s) ==
    /\ s \in feeding
    /\ Subscribe(s)
    /\ UNCHANGED startVars

\* A book that does not parse is logged and skipped.
FeedTask(s) ==
    /\ s \in feeding
    /\ Consume(s)
    /\ priced' \in {priced, priced \/ s = Book}
    /\ UNCHANGED <<mode, phase, feeding>>

\* The dry run is primed with a book and fed by a random walk.
StartDry ==
    /\ mode = "dry"
    /\ Goes("main", "running")
    /\ priced' = TRUE
    /\ UNCHANGED <<feedVars, feeding>>

\* bot.run() returns, raises, or is given up after the duration.
BotEnds == Goes("running", "stopping") /\ UNCHANGED <<feedVars, priced, feeding>>

\* The finally cancels the feed tasks, and then closes the client.
CancelFeeds ==
    /\ Goes("stopping", IF mode = "live" THEN "closing" ELSE "ended")
    /\ feeding' = {}
    /\ UNCHANGED <<feedVars, priced>>

\* A preflight that fails closes the client on its way out; close() waits for the
\* tasks it cancels.
CloseClient ==
    /\ phase \in {"closing", "noConn", "noData"}
    /\ Close
    /\ UNCHANGED startVars

Exit ==
    /\ task = "closed"
    /\ Goes("closing", "ended") \/ Goes("noConn", "ended") \/ Goes("noData", "ended")
    /\ UNCHANGED <<feedVars, priced, feeding>>

ProcessEnded == phase = "ended" /\ UNCHANGED startupVars

StartupNext ==
    \/ ConfirmLive \/ ConnectClient \/ WaitForConnection \/ WaitForData
    \/ FetchBalances \/ ReconcileOrders \/ StartFeeds
    \/ \E s \in Subscribers : SubscribeFeed(s) \/ FeedTask(s)
    \/ StartDry \/ BotEnds \/ CancelFeeds \/ CloseClient \/ Exit \/ ProcessEnded
    \/ (ConnectionStep \/ PingStep \/ VenueStep) /\ UNCHANGED startVars

StartupSpec == StartupInit /\ [][StartupNext]_startupVars

-----------------------------------------------------------------------------
(***************************************************************************)
(* "Wait for first valid market data": while the preflight waits, over a   *)
(* connection that is up and being read, the venue has been asked for the  *)
(* order book on it.                                                       *)
(***************************************************************************)
WaitsForDataAskedFor ==
    phase = "waitData" /\ task = "reading" => KeyOf[Book] \in sent
=============================================================================
