-------------------------------- MODULE Feed --------------------------------
(***************************************************************************)
(* WsManager of client/ws_manager.py: one websocket connection that is     *)
(* made again when it is lost, and the queues its messages are dispatched  *)
(* to.                                                                     *)
(*                                                                         *)
(* task is where the background task _reconnect() stands, with the reader  *)
(* it waits for.  It gives way where it awaits: the handshake, each send,  *)
(* the reader, the back-off.  Connections are numbered; conn is _conn, 0   *)
(* for None.  Between any two steps the venue sends a message or drops the *)
(* connection, a consumer subscribes or takes a message, and the ping      *)
(* tasks of this and of earlier connections wake up.                       *)
(***************************************************************************)
EXTENDS Naturals, Sequences, FiniteSets, SequencesExt

CONSTANTS
    Keys,           \* keys under which a queue may be registered, channel:topic
    Subscribers,    \* callers of subscribe(), each with a queue of its own
    KeyOf,          \* the key that a subscriber asks for
    Messages,       \* messages of the venue: their dispatch keys, most specific first
    QueueSize,      \* queue_size
    MaxAttempts,    \* max_reconnect_attempts, 0 for unlimited
    MaxTries,       \* bound on the failures in a row that are counted
    MaxConns,       \* bound on the connections made
    MaxMsgs         \* bound on the messages received

ASSUME FeedAssumption ==
    /\ KeyOf \in [Subscribers -> Keys]
    /\ Messages \subseteq Seq(Keys)
    /\ QueueSize \in Nat \ {0}
    /\ MaxAttempts \in Nat /\ MaxTries \in Nat /\ MaxConns \in Nat /\ MaxMsgs \in Nat

VARIABLES
    running,        \* _running
    conn,           \* the connection in _conn, 0 for None
    status,         \* the newest connection: "none", "open", "clean", "broken"
    task,           \* where _reconnect() stands
    todo,           \* keys that _resubscribe() has still to send
    attempt,        \* failures since the last connection
    registered,     \* the subscribers in _handlers
    queue,          \* the queue of each subscriber, messages by their number
    pings,          \* ping tasks that have not ended, by their connection
    newest,         \* _ping_task, the one started last
    made,           \* connections made so far
    received,       \* messages received so far
    sent,           \* history: keys subscribed on the newest connection
    owed,           \* history: keys registered when it was made
    given,          \* history: the messages given to each queue
    latest          \* history: the last message each consumer took

feedVars == <<running, conn, status, task, todo, attempt, registered, queue, pings,
              newest, made, received, sent, owed, given, latest>>

Tasks == {"none", "connecting", "resubscribing", "reading", "backoff",
          "ended", "failed", "closing", "closed"}

FeedInit ==
    /\ running = FALSE
    /\ conn = 0
    /\ status = "none"
    /\ task = "none"
    /\ todo = {} /\ sent = {} /\ owed = {}
    /\ attempt = 0
    /\ registered = {}
    /\ queue = [s \in Subscribers |-> << >>]
    /\ pings = {} /\ newest = 0
    /\ made = 0
    /\ received = 0
    /\ given = [s \in Subscribers |-> {}]
    /\ latest = [s \in Subscribers |-> 0]

\* _subscriptions
Subscriptions == {KeyOf[s] : s \in registered}

-----------------------------------------------------------------------------
(* The connection: connect(), _reconnect(), _resubscribe(), close()        *)

Connect ==
    /\ task = "none"
    /\ running' = TRUE
    /\ task' = "connecting"
    /\ UNCHANGED <<conn, status, todo, attempt, registered, queue, pings, newest, made,
                   received, sent, owed, given, latest>>

MutResumeOldSubscriptions ==
    /\ task = "connecting"
    /\ made < MaxConns
    /\ made' = made + 1
    /\ conn' = made'
    /\ status' = "open"
    /\ attempt' = 0
    /\ todo' = Subscriptions \ owed
    /\ owed' = Subscriptions
    /\ sent' = {}
    /\ task' = "resubscribing"
    /\ UNCHANGED <<running, registered, queue, pings, newest, received, given, latest>>

MutEstablishedKeepsOldConn ==
    /\ task = "connecting"
    /\ made < MaxConns
    /\ made' = made + 1
    /\ conn' = IF conn = 0 THEN made' ELSE conn
    /\ status' = "open"
    /\ attempt' = 0
    /\ todo' = Subscriptions
    /\ owed' = todo'
    /\ sent' = {}
    /\ task' = "resubscribing"
    /\ UNCHANGED <<running, registered, queue, pings, newest, received, given, latest>>

\* The subscriptions to send are listed now; one made later is not among them.
Established ==
    /\ task = "connecting"
    /\ made < MaxConns
    /\ made' = made + 1
    /\ conn' = made'
    /\ status' = "open"
    /\ attempt' = 0
    /\ todo' = Subscriptions
    /\ owed' = todo'
    /\ sent' = {}
    /\ task' = "resubscribing"
    /\ UNCHANGED <<running, registered, queue, pings, newest, received, given, latest>>

\* TimeoutError, ConnectionClosed or OSError, wherever it is raised.
Disconnected ==
    /\ attempt < MaxTries
    /\ conn' = 0
    /\ attempt' = attempt + 1
    /\ task' = IF 0 < MaxAttempts /\ MaxAttempts <= attempt' THEN "failed" ELSE "backoff"
    /\ todo' = {}

Refused ==
    /\ task = "connecting"
    /\ Disconnected
    /\ UNCHANGED <<running, status, registered, queue, pings, newest, made, received,
                   sent, owed, given, latest>>

\* A handshake answered with an HTTP error is none of these exceptions: the task
\* ends, and _conn stays as the connection before has left it.
HandshakeRejected ==
    /\ task = "connecting"
    /\ task' = "failed"
    /\ UNCHANGED <<running, conn, status, todo, attempt, registered, queue, pings,
                   newest, made, received, sent, owed, given, latest>>

\* send() of one subscription.
SendNext(key) ==
    /\ task = "resubscribing"
    /\ status = "open"
    /\ key \in todo
    /\ todo' = todo \ {key}
    /\ sent' = sent \cup {key}
    /\ UNCHANGED <<running, conn, status, task, attempt, registered, queue, pings,
                   newest, made, received, owed, given, latest>>

\* However it was closed, send() raises ConnectionClosed.
SendFails ==
    /\ task = "resubscribing"
    /\ status # "open"
    /\ todo # {}
    /\ Disconnected
    /\ UNCHANGED <<running, status, registered, queue, pings, newest, made, received,
                   sent, owed, given, latest>>

\* The reader and a ping task are started; an earlier ping task is let be.
StartTasks ==
    /\ task = "resubscribing"
    /\ todo = {}
    /\ pings' = pings \cup {made}
    /\ newest' = made
    /\ task' = "reading"
    /\ UNCHANGED <<running, conn, status, todo, attempt, registered, queue, made,
                   received, sent, owed, given, latest>>

\* A clean close ends the reader without an exception, and the loop connects
\* again at once with _conn as it is; a broken one raises out of the reader.
ReaderEnds ==
    /\ task = "reading"
    /\ \/ status = "clean" /\ task' = "connecting" /\ UNCHANGED <<conn, todo, attempt,
                                                                  newest>>
       \/ status = "broken" /\ Disconnected
    /\ UNCHANGED <<running, status, registered, queue, pings, newest, made, received,
                   sent, owed, given, latest>>

BackoffOver ==
    /\ task = "backoff"
    /\ task' = "connecting"
    /\ UNCHANGED <<running, conn, status, todo, attempt, registered, queue, pings,
                   newest, made, received, sent, owed, given, latest>>

\* The venue or the network drops the connection.
ConnectionLost ==
    /\ task \in {"resubscribing", "reading"}
    /\ status = "open"
    /\ status' \in {"clean", "broken"}
    /\ UNCHANGED <<running, conn, task, todo, attempt, registered, queue, pings, newest,
                   made, received, sent, owed, given, latest>>

\* close() cancels the task with its reader and the newest ping task; the context
\* manager of the connection closes it on the way out.
Close ==
    /\ task \notin {"none", "closing", "closed"}
    /\ running' = FALSE
    /\ pings' = pings \ {newest}
    /\ status' = IF status = "open" THEN "clean" ELSE status
    /\ todo' = {}
    /\ task' = "closing"
    /\ UNCHANGED <<conn, attempt, registered, queue, newest, made, received, sent, owed,
                   given, latest>>

\* ... and, when all of that has ended, forgets the connection.
Closed ==
    /\ task = "closing"
    /\ conn' = 0
    /\ task' = "closed"
    /\ UNCHANGED <<running, status, todo, attempt, registered, queue, pings, newest,
                   made, received, sent, owed, given, latest>>

-----------------------------------------------------------------------------
(* Pings                                                                   *)

MutPingOnce(i) ==
    /\ i \in pings
    /\ pings' = pings \ {i}
    /\ UNCHANGED <<running, conn, status, task, todo, attempt, registered, queue, newest,
                   made, received, sent, owed, given, latest>>

\* As if the loop caught what send() raises, and went round again.
MutPingRetriesErrors(i) ==
    /\ i \in pings
    /\ UNCHANGED feedVars

\* A ping task wakes and sends on the connection in _conn, which need not be the
\* one it was started for.  Without one it returns, on a dead one send() raises
\* and ends it, and it goes round again only while the manager runs.
PingWakes(i) ==
    /\ i \in pings
    /\ pings' = IF running /\ conn = made /\ status = "open" THEN pings ELSE pings \ {i}
    /\ UNCHANGED <<running, conn, status, task, todo, attempt, registered, queue,
                   newest, made, received, sent, owed, given, latest>>

-----------------------------------------------------------------------------
(* Messages: subscribe(), _reader_loop(), and who takes from the queues    *)

Subscribe(s) ==
    /\ s \notin registered
    /\ registered' = registered \cup {s}
    /\ UNCHANGED <<running, conn, status, task, todo, attempt, queue, pings, newest,
                   made, received, sent, owed, given, latest>>

MutDropNewest(q, m) == IF Len(q) < QueueSize THEN Append(q, m) ELSE q

\* put_nowait(), and what is done when the queue is full.
Put(q, m) == Append(IF Len(q) < QueueSize THEN q ELSE Tail(q), m)

MutAllMatches(msg) == {s \in registered : Contains(msg, KeyOf[s])}

\* Who gets a message: the queues under the most specific of its keys that has
\* any.  The channel alone is never a key of subscribe().
Receivers(msg) ==
    LET matching == SelectSeq(msg, LAMBDA key : key \in Subscriptions)
    IN  {s \in registered : matching # << >> /\ KeyOf[s] = Head(matching)}

Receive(msg) ==
    /\ task = "reading"
    /\ status = "open"
    /\ received < MaxMsgs
    /\ received' = received + 1
    /\ queue' = [s \in Subscribers |->
                    IF s \in Receivers(msg) THEN Put(queue[s], received') ELSE queue[s]]
    /\ given' = [s \in Subscribers |->
                    IF s \in Receivers(msg) THEN given[s] \cup {received'} ELSE given[s]]
    /\ UNCHANGED <<running, conn, status, task, todo, attempt, registered, pings,
                   newest, made, sent, owed, latest>>

\* A message that is no JSON object raises out of the reader and ends the task.
MalformedMessage ==
    /\ task = "reading"
    /\ status = "open"
    /\ status' = "clean"
    /\ task' = "failed"
    /\ UNCHANGED <<running, conn, todo, attempt, registered, queue, pings, newest, made,
                   received, sent, owed, given, latest>>

\* A feed task takes a message.
Consume(s) ==
    /\ queue[s] # << >>
    /\ latest' = [latest EXCEPT ![s] = Head(queue[s])]
    /\ queue' = [queue EXCEPT ![s] = Tail(@)]
    /\ UNCHANGED <<running, conn, status, task, todo, attempt, registered, pings,
                   newest, made, received, sent, owed, given>>

-----------------------------------------------------------------------------
ConnectionStep ==
    \/ Established \/ Refused \/ HandshakeRejected
    \/ SendFails \/ StartTasks \/ ReaderEnds \/ BackoffOver \/ Closed
    \/ \E key \in Keys : SendNext(key)

PingStep == \E i \in 1..MaxConns : PingWakes(i)

VenueStep == ConnectionLost \/ MalformedMessage \/ \E msg \in Messages : Receive(msg)

ConsumerStep == \E s \in Subscribers : Consume(s)

\* Once closed, the manager may rest.
Rest == task = "closed" /\ UNCHANGED feedVars

FeedNext ==
    \/ Connect \/ Close \/ ConnectionStep \/ PingStep \/ VenueStep \/ ConsumerStep
    \/ (\E s \in Subscribers : Subscribe(s)) \/ Rest

FeedSpec == FeedInit /\ [][FeedNext]_feedVars

\* Timers fire, and the event loop runs what they wake.
FeedFairness == /\ \A i \in 1..MaxConns : WF_feedVars(PingWakes(i))
                /\ WF_feedVars(Closed)

FeedFairSpec == FeedSpec /\ FeedFairness

-----------------------------------------------------------------------------
FeedTypeOK ==
    /\ running \in BOOLEAN
    /\ made \in 0..MaxConns /\ conn \in {0, made}
    /\ status \in {"none", "open", "clean", "broken"}
    /\ task \in Tasks
    /\ todo \subseteq Keys /\ sent \subseteq Keys /\ owed \subseteq Keys
    /\ attempt \in 0..MaxTries
    /\ registered \subseteq Subscribers
    /\ received \in 0..MaxMsgs
    /\ queue \in [Subscribers -> Seq(1..received)]
    /\ pings \subseteq 1..made /\ newest \in 0..made
    /\ given \in [Subscribers -> SUBSET (1..received)]
    /\ latest \in [Subscribers -> 0..received]

(***************************************************************************)
(* Whenever messages are read, every topic that was registered when the    *)
(* connection was made has been subscribed on this connection, however     *)
(* many connections were lost, and at whatever point, before it.           *)
(***************************************************************************)
ResubscribedOnEveryConnection == task = "reading" => owed \subseteq sent

(***************************************************************************)
(* A connection that is read is kept alive by a ping task: tasks of        *)
(* earlier connections that end, or that share it, never leave it without. *)
(***************************************************************************)
KeptAlive == task = "reading" /\ status = "open" => made \in pings

(***************************************************************************)
(* A queue that overflows loses its oldest messages only: it holds the     *)
(* newest of those given to it and not yet taken, in order, and a consumer *)
(* never takes an older message after a newer one.                         *)
(***************************************************************************)
QueueKeepsNewest ==
    \A s \in Subscribers :
        LET held == {queue[s][i] : i \in DOMAIN queue[s]}
            untaken == {m \in given[s] : m > latest[s]}
        IN  /\ \A i, j \in DOMAIN queue[s] : i < j => queue[s][i] < queue[s][j]
            /\ Len(queue[s]) = Min({QueueSize, Cardinality(untaken)})
            /\ held \subseteq untaken
            /\ \A m \in untaken \ held, k \in held : m < k

(***************************************************************************)
(* "deliver only to the most specific match": no message is given under    *)
(* two keys, whatever is registered, and when.                             *)
(***************************************************************************)
MostSpecificOnly ==
    \A s, t \in Subscribers : KeyOf[s] # KeyOf[t] => given[s] \cap given[t] = {}

(***************************************************************************)
(* Once the manager is closed every ping task ends, those of earlier       *)
(* connections that nobody cancels included.                               *)
(***************************************************************************)
PingsEnd == task = "closed" ~> pings = {}
=============================================================================
