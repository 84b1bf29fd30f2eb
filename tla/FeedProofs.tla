----------------------------- MODULE FeedProofs -----------------------------
(***************************************************************************)
(* What WsManager keeps of its connection and promises about it, for any   *)
(* number of subscribers, keys, connections and messages.                  *)
(***************************************************************************)
EXTENDS Feed, FiniteSetTheorems, TLAPS

(***************************************************************************)
(* The invariant.  The state of the connection and that of the messages    *)
(* are disturbed by different actions, so each has a part of its own.      *)
(***************************************************************************)
ConnectionTypeOK ==
    /\ running \in BOOLEAN
    /\ made \in 0..MaxConns /\ conn \in {0, made}
    /\ status \in {"none", "open", "clean", "broken"}
    /\ task \in Tasks
    /\ todo \subseteq Keys /\ sent \subseteq Keys /\ owed \subseteq Keys
    /\ attempt \in 0..MaxTries
    /\ registered \subseteq Subscribers
    /\ pings \subseteq 1..made /\ newest \in 0..made

MessagesTypeOK ==
    /\ received \in 0..MaxMsgs
    /\ queue \in [Subscribers -> Seq(1..received)]
    /\ given \in [Subscribers -> SUBSET (1..received)]
    /\ latest \in [Subscribers -> 0..received]

\* The task is on the connection in _conn, and the manager runs.
OnConnection ==
    /\ task \in {"connecting", "resubscribing", "reading", "backoff"} => running
    /\ task \in {"resubscribing", "reading"} => conn = made /\ made # 0

\* What _resubscribe() listed has been sent or is still to be sent.
ListedOrSent == task = "resubscribing" => owed \subseteq todo \cup sent

ConnectionInv ==
    /\ ConnectionTypeOK
    /\ OnConnection
    /\ ListedOrSent
    /\ ResubscribedOnEveryConnection
    /\ KeptAlive

messageVars == <<queue, received, given, latest>>

-----------------------------------------------------------------------------
\* The bounds are numbers.
LEMMA Bounds ==
    /\ QueueSize \in Nat /\ QueueSize > 0
    /\ MaxAttempts \in Nat /\ MaxTries \in Nat /\ MaxConns \in Nat /\ MaxMsgs \in Nat
  BY FeedAssumption

LEMMA ConnectionStart == FeedInit => ConnectionInv
  <1> SUFFICES ASSUME FeedInit PROVE ConnectionInv
    OBVIOUS
  <1>1. 0 \in 0..MaxConns /\ 0 \in 0..MaxTries
    BY Bounds
  <1>2. made = 0 /\ conn = 0 /\ newest = 0 /\ attempt = 0 /\ pings = {}
    BY DEF FeedInit
  <1>3. running \in BOOLEAN /\ status = "none" /\ task \in Tasks
    BY DEF FeedInit, Tasks
  <1>4. todo = {} /\ sent = {} /\ owed = {} /\ registered = {}
    BY DEF FeedInit
  <1>5. ConnectionTypeOK
    BY <1>1, <1>2, <1>3, <1>4 DEF ConnectionTypeOK
  <1> QED
    BY <1>5 DEF FeedInit, ConnectionInv, OnConnection, ListedOrSent,
       ResubscribedOnEveryConnection, KeptAlive

\* Subscribed topics are keys.
LEMMA SubscriptionsAreKeys ==
    ASSUME registered \subseteq Subscribers
    PROVE  Subscriptions \subseteq Keys
  BY FeedAssumption DEF Subscriptions

\* A failed connection leaves the task backing off or failed, on no connection.
LEMMA DisconnectedStep ==
    ASSUME ConnectionInv, Disconnected,
           UNCHANGED <<running, status, registered, pings, newest, made, sent, owed>>,
           task \in {"connecting", "resubscribing", "reading"}
    PROVE  ConnectionInv'
  <1> USE Bounds DEF ConnectionInv
  <1>1. task' \in {"failed", "backoff"}
    BY DEF Disconnected
  <1>2. ConnectionTypeOK'
    BY <1>1 DEF Disconnected, ConnectionTypeOK, Tasks
  <1>3. running
    BY DEF OnConnection
  <1> QED
    BY <1>1, <1>2, <1>3 DEF OnConnection, ListedOrSent, ResubscribedOnEveryConnection,
       KeptAlive

\* Every step keeps the invariant of the connection.
LEMMA ConnectionStepKeeps == ConnectionInv /\ [FeedNext]_feedVars => ConnectionInv'
  <1> SUFFICES ASSUME ConnectionInv, [FeedNext]_feedVars PROVE ConnectionInv'
    OBVIOUS
  <1> DEFINE Parts == /\ ConnectionTypeOK' /\ OnConnection' /\ ListedOrSent'
                      /\ ResubscribedOnEveryConnection' /\ KeptAlive'
  <1>0. Parts => ConnectionInv'
    BY DEF ConnectionInv
  <1> USE Bounds DEF ConnectionInv
  <1>1. CASE Connect
    BY <1>1 DEF Connect, ConnectionTypeOK, Tasks, OnConnection, ListedOrSent,
       ResubscribedOnEveryConnection, KeptAlive
  <1>2. CASE Established
    <2>1. todo' \subseteq Keys /\ owed' = todo' /\ sent' = {}
      BY <1>2, SubscriptionsAreKeys DEF Established, ConnectionTypeOK
    <2>2. made' \in 1..MaxConns /\ conn' = made' /\ made < made' /\ made \in Nat
      BY <1>2 DEF Established, ConnectionTypeOK
    <2>3. pings' \subseteq 1..made' /\ newest' \in 0..made'
      BY <1>2, <2>2 DEF Established, ConnectionTypeOK
    <2>4. running'
      BY <1>2 DEF Established, OnConnection
    <2>5. ConnectionTypeOK'
      BY <1>2, <2>1, <2>2, <2>3 DEF Established, ConnectionTypeOK, Tasks
    <2> QED
      BY <1>2, <2>1, <2>2, <2>4, <2>5 DEF Established, OnConnection, ListedOrSent,
         ResubscribedOnEveryConnection, KeptAlive
  <1>3. CASE Refused
    BY <1>3, DisconnectedStep DEF Refused
  <1>4. CASE HandshakeRejected
    BY <1>4 DEF HandshakeRejected, ConnectionTypeOK, Tasks, OnConnection, ListedOrSent,
       ResubscribedOnEveryConnection, KeptAlive
  <1>5. CASE \E key \in Keys : SendNext(key)
    BY <1>5 DEF SendNext, ConnectionTypeOK, Tasks, OnConnection, ListedOrSent,
       ResubscribedOnEveryConnection, KeptAlive
  <1>6. CASE SendFails
    BY <1>6, DisconnectedStep DEF SendFails
  <1>7. CASE StartTasks
    <2>1. pings' = pings \cup {made} /\ newest' = made /\ made' = made /\ made # 0
      BY <1>7 DEF StartTasks, OnConnection
    <2>2. ConnectionTypeOK'
      BY <1>7, <2>1 DEF StartTasks, ConnectionTypeOK, Tasks
    <2> QED
      BY <1>7, <2>1, <2>2 DEF StartTasks, OnConnection, ListedOrSent,
         ResubscribedOnEveryConnection, KeptAlive
  <1>8. CASE ReaderEnds
    <2>1. CASE status = "clean" /\ task' = "connecting"
                 /\ UNCHANGED <<conn, todo, attempt, newest>>
      BY <1>8, <2>1 DEF ReaderEnds, ConnectionTypeOK, Tasks, OnConnection, ListedOrSent,
         ResubscribedOnEveryConnection, KeptAlive
    <2>2. CASE status = "broken" /\ Disconnected
      BY <1>8, <2>2, DisconnectedStep DEF ReaderEnds
    <2> QED
      BY <1>8, <2>1, <2>2 DEF ReaderEnds
  <1>9. CASE BackoffOver
    BY <1>9 DEF BackoffOver, ConnectionTypeOK, Tasks, OnConnection, ListedOrSent,
       ResubscribedOnEveryConnection, KeptAlive
  <1>10. CASE ConnectionLost
    BY <1>10 DEF ConnectionLost, ConnectionTypeOK, Tasks, OnConnection, ListedOrSent,
       ResubscribedOnEveryConnection, KeptAlive
  <1>11. CASE Close
    BY <1>11 DEF Close, ConnectionTypeOK, Tasks, OnConnection, ListedOrSent,
       ResubscribedOnEveryConnection, KeptAlive
  <1>12. CASE Closed
    BY <1>12 DEF Closed, ConnectionTypeOK, Tasks, OnConnection, ListedOrSent,
       ResubscribedOnEveryConnection, KeptAlive
  <1>13. CASE PingStep
    <2> PICK i \in 1..MaxConns : PingWakes(i)
      BY <1>13 DEF PingStep
    <2>1. pings' \subseteq pings
      BY DEF PingWakes
    <2>2. task = "reading" /\ status = "open" => pings' = pings
      BY DEF PingWakes, OnConnection
    <2>3. UNCHANGED <<running, conn, status, task, todo, attempt, registered, newest,
                      made, sent, owed>>
      BY DEF PingWakes
    <2> QED
      BY <2>1, <2>2, <2>3 DEF ConnectionTypeOK, OnConnection, ListedOrSent,
         ResubscribedOnEveryConnection, KeptAlive
  <1>14. CASE \E s \in Subscribers : Subscribe(s)
    BY <1>14 DEF Subscribe, ConnectionTypeOK, OnConnection, ListedOrSent,
       ResubscribedOnEveryConnection, KeptAlive
  <1>15. CASE \E msg \in Messages : Receive(msg)
    BY <1>15 DEF Receive, ConnectionTypeOK, OnConnection, ListedOrSent,
       ResubscribedOnEveryConnection, KeptAlive
  <1>16. CASE MalformedMessage
    BY <1>16 DEF MalformedMessage, ConnectionTypeOK, Tasks, OnConnection, ListedOrSent,
       ResubscribedOnEveryConnection, KeptAlive
  <1>17. CASE ConsumerStep
    BY <1>17 DEF ConsumerStep, Consume, ConnectionTypeOK, OnConnection, ListedOrSent,
       ResubscribedOnEveryConnection, KeptAlive
  <1>18. CASE Rest \/ UNCHANGED feedVars
    BY <1>18 DEF Rest, feedVars, ConnectionTypeOK, OnConnection, ListedOrSent,
       ResubscribedOnEveryConnection, KeptAlive
  <1> QED
    BY <1>1, <1>2, <1>3, <1>4, <1>5, <1>6, <1>7, <1>8, <1>9, <1>10, <1>11, <1>12, <1>13,
       <1>14, <1>15, <1>16, <1>17, <1>18 DEF FeedNext, ConnectionStep, VenueStep

-----------------------------------------------------------------------------
(***************************************************************************)
(* The queues                                                              *)
(***************************************************************************)
LEMMA LeastOfTwo ==
    ASSUME NEW a \in Nat, NEW b \in Nat
    PROVE  Min({a, b}) = IF a <= b THEN a ELSE b
  <1> DEFINE m == IF a <= b THEN a ELSE b
  <1>1. m \in {a, b} /\ \A y \in {a, b} : m <= y
    OBVIOUS
  <1>2. \A x \in {a, b} : (\A y \in {a, b} : x <= y) => x = m
    OBVIOUS
  <1> HIDE DEF m
  <1>3. Min({a, b}) = m
    BY <1>1, <1>2 DEF Min
  <1> QED
    BY <1>3 DEF m

\* What a queue holds, and what it was given and its consumer has not taken.
Held(q) == {q[i] : i \in DOMAIN q}
Untaken(G, l) == {m \in G : m > l}

\* The queue q has kept the newest of the messages G that came after l.
Keeps(q, G, l) ==
    /\ \A i, j \in DOMAIN q : i < j => q[i] < q[j]
    /\ Held(q) \subseteq Untaken(G, l)
    /\ \A m \in Untaken(G, l) \ Held(q), k \in Held(q) : m < k
    /\ Len(q) = Min({QueueSize, Cardinality(Untaken(G, l))})
    /\ IsFiniteSet(Held(q)) /\ Cardinality(Held(q)) = Len(q)

LEMMA UntakenFinite ==
    ASSUME NEW r \in Nat, NEW G \in SUBSET (1..r), NEW l \in Nat
    PROVE  /\ IsFiniteSet(Untaken(G, l))
           /\ Cardinality(Untaken(G, l)) \in Nat
           /\ Untaken(G, l) \subseteq 1..r
  <1>1. IsFiniteSet(1..r)
    BY FS_Interval
  <1>2. Untaken(G, l) \in SUBSET (1..r)
    BY DEF Untaken
  <1>3. IsFiniteSet(Untaken(G, l))
    BY <1>1, <1>2, FS_Subset
  <1> QED
    BY <1>2, <1>3, FS_CardinalityType

\* The oldest message leaves: whether taken or dropped.
LEMMA TailFacts ==
    ASSUME NEW r \in Nat, NEW q \in Seq(1..r), q # << >>,
           \A i, j \in DOMAIN q : i < j => q[i] < q[j]
    PROVE  /\ Tail(q) \in Seq(1..r) /\ Len(Tail(q)) = Len(q) - 1 /\ Len(q) > 0
           /\ Head(q) \in 1..r
           /\ Held(Tail(q)) = Held(q) \ {Head(q)}
           /\ \A k \in Held(Tail(q)) : Head(q) < k
           /\ Head(q) \in Held(q)
           /\ \A i, j \in DOMAIN Tail(q) : i < j => Tail(q)[i] < Tail(q)[j]
  <1>1. /\ Tail(q) \in Seq(1..r) /\ Len(Tail(q)) = Len(q) - 1 /\ Len(q) \in Nat
        /\ Len(q) > 0
        /\ \A i \in 1..Len(Tail(q)) : Tail(q)[i] = q[i + 1]
        /\ Head(q) = q[1] /\ DOMAIN q = 1..Len(q) /\ DOMAIN Tail(q) = 1..Len(Tail(q))
    OBVIOUS
  <1>2. \A i \in DOMAIN q : q[i] \in 1..r
    OBVIOUS
  <1>3. \A i \in DOMAIN Tail(q) : Tail(q)[i] = q[i + 1] /\ i + 1 \in DOMAIN q /\ q[1] < q[i + 1]
    <2> TAKE i \in DOMAIN Tail(q)
    <2>1. i \in 1..Len(Tail(q)) /\ i + 1 \in 1..Len(q) /\ 1 \in 1..Len(q) /\ 1 < i + 1
      BY <1>1
    <2> QED
      BY <1>1, <2>1
  <1>4. \A i \in DOMAIN q : i # 1 => i - 1 \in DOMAIN Tail(q) /\ Tail(q)[i - 1] = q[i]
    BY <1>1
  <1>5. Held(Tail(q)) \subseteq Held(q) /\ \A k \in Held(Tail(q)) : q[1] < k
    BY <1>3 DEF Held
  <1>6. q[1] \in Held(q) /\ q[1] \in 1..r
    BY <1>1, <1>2 DEF Held
  <1>7. ASSUME NEW k \in Held(q), k # q[1]
        PROVE  k \in Held(Tail(q))
    <2> PICK i \in DOMAIN q : k = q[i]
      BY DEF Held
    <2> QED
      BY <1>4, <1>7 DEF Held
  <1>8. Held(Tail(q)) = Held(q) \ {q[1]}
    BY <1>5, <1>6, <1>7
  <1>9. \A i, j \in DOMAIN Tail(q) : i < j => Tail(q)[i] < Tail(q)[j]
    BY <1>1, <1>3
  <1> QED
    BY <1>1, <1>5, <1>6, <1>8, <1>9

LEMMA MoreNumbers ==
    ASSUME NEW r \in Nat, NEW q \in Seq(1..r)
    PROVE  q \in Seq(1..(r + 1))
  OBVIOUS

\* A newer message comes in behind the others.
LEMMA AppendFacts ==
    ASSUME NEW r \in Nat, NEW q \in Seq(1..r),
           \A i, j \in DOMAIN q : i < j => q[i] < q[j]
    PROVE  /\ Append(q, r + 1) \in Seq(1..(r + 1)) /\ Len(Append(q, r + 1)) = Len(q) + 1
           /\ Held(Append(q, r + 1)) = Held(q) \cup {r + 1}
           /\ Held(q) \subseteq 1..r
           /\ \A i, j \in DOMAIN Append(q, r + 1) :
                  i < j => Append(q, r + 1)[i] < Append(q, r + 1)[j]
  <1> DEFINE a == Append(q, r + 1)
  <1>1. q \in Seq(1..(r + 1))
    BY MoreNumbers
  <1>2. /\ a \in Seq(1..(r + 1)) /\ Len(a) = Len(q) + 1 /\ Len(q) \in Nat
        /\ DOMAIN a = 1..(Len(q) + 1) /\ DOMAIN q = 1..Len(q)
        /\ a[Len(q) + 1] = r + 1
        /\ \A i \in 1..Len(q) : a[i] = q[i]
    BY <1>1
  <1>3. \A i \in DOMAIN q : q[i] \in 1..r
    OBVIOUS
  <1> HIDE DEF a
  <1>4. \A i, j \in DOMAIN a : i < j => a[i] < a[j]
    <2> SUFFICES ASSUME NEW i \in DOMAIN a, NEW j \in DOMAIN a, i < j PROVE a[i] < a[j]
      OBVIOUS
    <2>1. i \in DOMAIN q /\ a[i] = q[i] /\ a[i] \in 1..r
      BY <1>2, <1>3
    <2>2. CASE j \in DOMAIN q
      BY <1>2, <2>1, <2>2
    <2>3. CASE j = Len(q) + 1
      BY <1>2, <2>1, <2>3
    <2> QED
      BY <1>2, <2>2, <2>3
  <1>5. Held(q) \subseteq 1..r
    BY <1>3 DEF Held
  <1>6. Held(a) = Held(q) \cup {r + 1}
    <2>1. Held(q) \subseteq Held(a) /\ r + 1 \in Held(a)
      <3>1. \A i \in DOMAIN q : i \in DOMAIN a /\ a[i] = q[i]
        BY <1>2
      <3>2. Len(q) + 1 \in DOMAIN a /\ a[Len(q) + 1] = r + 1
        BY <1>2
      <3> QED
        BY <3>1, <3>2 DEF Held
    <2>2. \A i \in DOMAIN a : a[i] = r + 1 \/ (i \in DOMAIN q /\ a[i] = q[i])
      BY <1>2
    <2> QED
      BY <2>1, <2>2 DEF Held
  <1> QED
    BY <1>2, <1>4, <1>5, <1>6 DEF a

LEMMA PutKeeps ==
    ASSUME NEW r \in Nat, NEW q \in Seq(1..r), NEW G \in SUBSET (1..r), NEW l \in 0..r,
           Keeps(q, G, l)
    PROVE  /\ Put(q, r + 1) \in Seq(1..(r + 1))
           /\ Keeps(Put(q, r + 1), G \cup {r + 1}, l)
  <1> DEFINE U == Untaken(G, l)
             c == Cardinality(U)
  <1>1. IsFiniteSet(U) /\ c \in Nat /\ U \subseteq 1..r
    BY UntakenFinite
  <1>2. Untaken(G \cup {r + 1}, l) = U \cup {r + 1}
    BY DEF Untaken
  <1>3. Cardinality(U \cup {r + 1}) = c + 1
    <2>1. r + 1 \notin U
      BY <1>1
    <2> HIDE DEF U
    <2> QED
      BY <1>1, <2>1, FS_AddElement
  <1>4. Len(q) = (IF QueueSize <= c THEN QueueSize ELSE c) /\ Len(q) \in Nat
    BY <1>1, LeastOfTwo, Bounds DEF Keeps
  <1>5. Min({QueueSize, c + 1}) = IF QueueSize <= c + 1 THEN QueueSize ELSE c + 1
    BY <1>1, LeastOfTwo, Bounds
  <1>6. /\ Held(q) \subseteq U /\ IsFiniteSet(Held(q)) /\ Cardinality(Held(q)) = Len(q)
        /\ \A m \in U \ Held(q), k \in Held(q) : m < k
        /\ \A i, j \in DOMAIN q : i < j => q[i] < q[j]
    BY DEF Keeps
  <1> HIDE DEF U, c
  <1>7. CASE Len(q) < QueueSize
    <2> DEFINE a == Append(q, r + 1)
    <2>1. /\ a \in Seq(1..(r + 1)) /\ Len(a) = Len(q) + 1
          /\ Held(a) = Held(q) \cup {r + 1} /\ Held(q) \subseteq 1..r
          /\ \A i, j \in DOMAIN a : i < j => a[i] < a[j]
      BY <1>6, AppendFacts
    <2> HIDE DEF a
    <2>2. IsFiniteSet(Held(a)) /\ Cardinality(Held(a)) = Len(a)
      <3>1. r + 1 \notin Held(q)
        BY <2>1
      <3>2. /\ IsFiniteSet(Held(q) \cup {r + 1})
            /\ Cardinality(Held(q) \cup {r + 1}) = Cardinality(Held(q)) + 1
        BY <1>6, <3>1, FS_AddElement
      <3> QED
        BY <1>6, <2>1, <3>2
    <2>3. Len(a) = Min({QueueSize, c + 1})
      BY <1>1, <1>4, <1>5, <1>7, <2>1, Bounds
    <2>4. \A m \in (U \cup {r + 1}) \ Held(a), k \in Held(a) : m < k
      BY <1>1, <1>6, <2>1
    <2>5. Keeps(a, G \cup {r + 1}, l)
      BY <1>2, <1>3, <1>6, <2>1, <2>2, <2>3, <2>4 DEF Keeps
    <2> QED
      BY <1>7, <2>1, <2>5 DEF Put, a
  <1>8. CASE ~(Len(q) < QueueSize)
    <2> DEFINE t == Tail(q)
               a == Append(t, r + 1)
    <2>1. q # << >> /\ QueueSize <= c /\ Len(q) = QueueSize
      BY <1>1, <1>4, <1>8, Bounds
    <2>2. /\ t \in Seq(1..r) /\ Len(t) = Len(q) - 1
          /\ Held(t) = Held(q) \ {Head(q)} /\ Head(q) \in Held(q)
          /\ \A k \in Held(t) : Head(q) < k
          /\ \A i, j \in DOMAIN t : i < j => t[i] < t[j]
      BY <1>6, <2>1, TailFacts
    <2> HIDE DEF t
    <2>3. /\ a \in Seq(1..(r + 1)) /\ Len(a) = Len(t) + 1
          /\ Held(a) = Held(t) \cup {r + 1} /\ Held(t) \subseteq 1..r
          /\ \A i, j \in DOMAIN a : i < j => a[i] < a[j]
      BY <2>2, AppendFacts
    <2> HIDE DEF a
    <2>4. IsFiniteSet(Held(t)) /\ Cardinality(Held(t)) = Len(t)
      BY <1>6, <2>2, FS_RemoveElement
    <2>5. IsFiniteSet(Held(a)) /\ Cardinality(Held(a)) = Len(a)
      <3>1. r + 1 \notin Held(t)
        BY <2>3
      <3>2. /\ IsFiniteSet(Held(t) \cup {r + 1})
            /\ Cardinality(Held(t) \cup {r + 1}) = Cardinality(Held(t)) + 1
        BY <2>4, <3>1, FS_AddElement
      <3> QED
        BY <2>3, <2>4, <3>2
    <2>6. Len(a) = Min({QueueSize, c + 1})
      BY <1>1, <1>4, <1>5, <2>1, <2>2, <2>3, Bounds
    <2>7. \A m \in (U \cup {r + 1}) \ Held(a), k \in Held(a) : m < k
      <3> TAKE m \in (U \cup {r + 1}) \ Held(a), k \in Held(a)
      <3>1. m \in U /\ m \notin Held(t) /\ m \in 1..r
        BY <1>1, <2>3
      <3>2. CASE k = r + 1
        BY <3>1, <3>2
      <3>3. CASE k \in Held(t)
        BY <1>6, <2>2, <3>1, <3>3
      <3> QED
        BY <2>3, <3>2, <3>3
    <2>8. Keeps(a, G \cup {r + 1}, l)
      BY <1>2, <1>3, <1>6, <2>2, <2>3, <2>5, <2>6, <2>7 DEF Keeps
    <2> QED
      BY <1>8, <2>3, <2>8 DEF Put, a, t
  <1> QED
    BY <1>7, <1>8

LEMMA TakeKeeps ==
    ASSUME NEW r \in Nat, NEW q \in Seq(1..r), NEW G \in SUBSET (1..r), NEW l \in 0..r,
           q # << >>, Keeps(q, G, l)
    PROVE  /\ Tail(q) \in Seq(1..r) /\ Head(q) \in 1..r
           /\ Keeps(Tail(q), G, Head(q))
  <1> DEFINE t == Tail(q)
             h == Head(q)
             U == Untaken(G, l)
  <1>1. /\ t \in Seq(1..r) /\ Len(t) = Len(q) - 1 /\ Len(q) > 0 /\ h \in 1..r
        /\ Held(t) = Held(q) \ {h} /\ h \in Held(q)
        /\ \A k \in Held(t) : h < k
        /\ \A i, j \in DOMAIN t : i < j => t[i] < t[j]
    BY TailFacts DEF Keeps
  <1>2. IsFiniteSet(U) /\ Cardinality(U) \in Nat /\ U \subseteq 1..r /\ l \in Nat
    <2>1. l \in Nat
      OBVIOUS
    <2> QED
      BY <2>1, UntakenFinite
  <1>3. /\ Held(q) \subseteq U /\ IsFiniteSet(Held(q)) /\ Cardinality(Held(q)) = Len(q)
        /\ \A m \in U \ Held(q), k \in Held(q) : m < k
        /\ Len(q) = Min({QueueSize, Cardinality(U)})
        /\ U = {m \in G : m > l}
    BY DEF Keeps, Untaken
  <1> HIDE DEF t, h, U
  <1>4. Len(q) <= QueueSize /\ Len(q) \in Nat
    BY <1>2, <1>3, LeastOfTwo, Bounds
  <1>5. Untaken(G, h) = Held(t)
    <2>1. ASSUME NEW m \in G, m > h
          PROVE  m \in Held(t)
      <3>1. h > l /\ m \in U
        BY <1>1, <1>3, <2>1 DEF Untaken
      <3> QED
        BY <1>1, <1>2, <1>3, <2>1, <3>1
    <2>2. \A m \in Held(t) : m \in G /\ m > h
      BY <1>1, <1>2, <1>3 DEF Untaken
    <2> QED
      BY <2>1, <2>2 DEF Untaken
  <1>6. IsFiniteSet(Held(t)) /\ Cardinality(Held(t)) = Len(t)
    BY <1>1, <1>3, FS_RemoveElement
  <1>7. Len(t) = Min({QueueSize, Cardinality(Held(t))})
    <2>1. Len(t) \in Nat /\ Len(t) < QueueSize
      BY <1>1, <1>4, Bounds
    <2>2. Min({QueueSize, Len(t)}) = IF QueueSize <= Len(t) THEN QueueSize ELSE Len(t)
      BY <2>1, LeastOfTwo, Bounds
    <2> QED
      BY <1>6, <2>1, <2>2, Bounds
  <1>8. Keeps(t, G, h)
    BY <1>1, <1>5, <1>6, <1>7 DEF Keeps
  <1> QED
    BY <1>1, <1>8 DEF t, h

-----------------------------------------------------------------------------
(***************************************************************************)
(* The messages: what the queues hold, and who was given what.             *)
(***************************************************************************)
QueuesKeep == \A s \in Subscribers : Keeps(queue[s], given[s], latest[s])

MessagesInv == MessagesTypeOK /\ QueuesKeep /\ MostSpecificOnly

LEMMA MessagesStart == FeedInit => MessagesInv
  <1> SUFFICES ASSUME FeedInit PROVE MessagesInv
    OBVIOUS
  <1>1. /\ received = 0
        /\ queue = [s \in Subscribers |-> << >>]
        /\ given = [s \in Subscribers |-> {}]
        /\ latest = [s \in Subscribers |-> 0]
    BY DEF FeedInit
  <1>2. << >> \in Seq(1..received) /\ received \in 0..MaxMsgs
    BY <1>1, Bounds
  <1>3. MessagesTypeOK
    BY <1>1, <1>2 DEF MessagesTypeOK
  <1>4. Keeps(<< >>, {}, 0)
    <2>1. Held(<< >>) = {} /\ Untaken({}, 0) = {} /\ Len(<< >>) = 0
      BY DEF Held, Untaken
    <2>2. Cardinality({}) = 0 /\ IsFiniteSet({})
      BY FS_EmptySet
    <2>3. Min({QueueSize, 0}) = 0
      BY LeastOfTwo, Bounds
    <2>4. DOMAIN << >> = {}
      OBVIOUS
    <2> QED
      BY <2>1, <2>2, <2>3, <2>4 DEF Keeps
  <1>5. QueuesKeep
    BY <1>1, <1>4 DEF QueuesKeep
  <1>6. MostSpecificOnly
    BY <1>1 DEF MostSpecificOnly
  <1> QED
    BY <1>3, <1>5, <1>6 DEF MessagesInv

\* A message is given to subscribers of one key only.
LEMMA OneKey ==
    ASSUME NEW msg, NEW s \in Receivers(msg), NEW t \in Receivers(msg)
    PROVE  KeyOf[s] = KeyOf[t]
  BY DEF Receivers

LEMMA ReceiveKeeps ==
    ASSUME MessagesInv, NEW msg \in Messages, Receive(msg)
    PROVE  MessagesInv'
  <1> DEFINE R == Receivers(msg)
  <1>1. /\ received \in Nat /\ received' = received + 1 /\ received' \in 0..MaxMsgs
        /\ latest' = latest
        /\ queue' = [s \in Subscribers |->
                         IF s \in R THEN Put(queue[s], received') ELSE queue[s]]
        /\ given' = [s \in Subscribers |->
                         IF s \in R THEN given[s] \cup {received'} ELSE given[s]]
    BY Bounds DEF Receive, MessagesInv, MessagesTypeOK
  <1>2. ASSUME NEW s \in Subscribers
        PROVE  /\ queue'[s] \in Seq(1..received')
               /\ given'[s] \in SUBSET (1..received')
               /\ latest'[s] \in 0..received'
               /\ Keeps(queue'[s], given'[s], latest'[s])
    <2>1. /\ queue[s] \in Seq(1..received) /\ given[s] \in SUBSET (1..received)
          /\ latest[s] \in 0..received /\ Keeps(queue[s], given[s], latest[s])
      BY DEF MessagesInv, MessagesTypeOK, QueuesKeep
    <2>2. CASE s \in R
      <3>1. queue'[s] = Put(queue[s], received + 1) /\ given'[s] = given[s] \cup {received + 1}
        BY <1>1, <2>2
      <3>2. /\ Put(queue[s], received + 1) \in Seq(1..(received + 1))
            /\ Keeps(Put(queue[s], received + 1), given[s] \cup {received + 1}, latest[s])
        BY <1>1, <2>1, PutKeeps
      <3> QED
        BY <1>1, <2>1, <3>1, <3>2
    <2>3. CASE s \notin R
      <3>1. queue'[s] = queue[s] /\ given'[s] = given[s] /\ latest'[s] = latest[s]
        BY <1>1, <2>3
      <3>2. 1..received \subseteq 1..received'
        BY <1>1
      <3>3. queue[s] \in Seq(1..received')
        BY <1>1, <2>1, MoreNumbers
      <3> QED
        BY <1>1, <2>1, <3>1, <3>2, <3>3
    <2> QED
      BY <2>2, <2>3
  <1>3. MessagesTypeOK'
    <2>1. /\ DOMAIN queue' = Subscribers /\ queue' = [s \in Subscribers |-> queue'[s]]
          /\ DOMAIN given' = Subscribers /\ given' = [s \in Subscribers |-> given'[s]]
          /\ latest' = [s \in Subscribers |-> latest'[s]]
      BY <1>1 DEF MessagesInv, MessagesTypeOK
    <2> QED
      BY <1>1, <1>2, <2>1 DEF MessagesTypeOK
  <1>4. QueuesKeep'
    BY <1>2 DEF QueuesKeep
  <1>5. MostSpecificOnly'
    <2> SUFFICES ASSUME NEW s \in Subscribers, NEW t \in Subscribers, KeyOf[s] # KeyOf[t]
                 PROVE  given'[s] \cap given'[t] = {}
      BY DEF MostSpecificOnly
    <2>1. given[s] \cap given[t] = {}
      BY DEF MessagesInv, MostSpecificOnly
    <2>2. received + 1 \notin given[s] /\ received + 1 \notin given[t]
      BY <1>1 DEF MessagesInv, MessagesTypeOK
    <2>3. ~(s \in R /\ t \in R)
      BY OneKey
    <2> QED
      BY <1>1, <2>1, <2>2, <2>3
  <1> QED
    BY <1>3, <1>4, <1>5 DEF MessagesInv

LEMMA ConsumeKeeps ==
    ASSUME MessagesInv, NEW s \in Subscribers, Consume(s)
    PROVE  MessagesInv'
  <1>1. /\ queue[s] # << >> /\ received' = received /\ given' = given
        /\ latest' = [latest EXCEPT ![s] = Head(queue[s])]
        /\ queue' = [queue EXCEPT ![s] = Tail(queue[s])]
    BY DEF Consume
  <1>2. MessagesTypeOK
    BY DEF MessagesInv
  <1>3. /\ Tail(queue[s]) \in Seq(1..received) /\ Head(queue[s]) \in 1..received
        /\ Keeps(Tail(queue[s]), given[s], Head(queue[s]))
    <2>1. /\ received \in Nat
          /\ queue[s] \in Seq(1..received) /\ given[s] \in SUBSET (1..received)
          /\ latest[s] \in 0..received /\ Keeps(queue[s], given[s], latest[s])
      BY DEF MessagesInv, MessagesTypeOK, QueuesKeep
    <2> QED
      BY <1>1, <2>1, TakeKeeps
  <1>4. MessagesTypeOK'
    BY <1>1, <1>2, <1>3 DEF MessagesTypeOK
  <1>5. QueuesKeep'
    BY <1>1, <1>2, <1>3 DEF MessagesInv, MessagesTypeOK, QueuesKeep
  <1> QED
    BY <1>1, <1>4, <1>5 DEF MessagesInv, MostSpecificOnly

\* Only the reader and the consumers touch the messages.
LEMMA MessageStepKeeps == MessagesInv /\ [FeedNext]_feedVars => MessagesInv'
  <1> SUFFICES ASSUME MessagesInv, [FeedNext]_feedVars PROVE MessagesInv'
    OBVIOUS
  <1>1. CASE \E msg \in Messages : Receive(msg)
    BY <1>1, ReceiveKeeps
  <1>2. CASE ConsumerStep
    BY <1>2, ConsumeKeeps DEF ConsumerStep
  <1>3. CASE UNCHANGED messageVars
    BY <1>3 DEF messageVars, MessagesInv, MessagesTypeOK, QueuesKeep, Keeps, MostSpecificOnly
  <1>4. CASE \/ Connect \/ Close \/ ConnectionStep \/ PingStep \/ ConnectionLost
            \/ MalformedMessage \/ (\E s \in Subscribers : Subscribe(s)) \/ Rest
            \/ UNCHANGED feedVars
    <2>1. UNCHANGED messageVars
      BY <1>4 DEF Connect, Close, ConnectionStep, Established, Refused, HandshakeRejected,
         SendNext, SendFails, StartTasks, ReaderEnds, BackoffOver, Closed, PingStep,
         PingWakes, ConnectionLost, MalformedMessage, Subscribe, Rest, feedVars, messageVars
    <2> QED
      BY <1>3, <2>1
  <1> QED
    BY <1>1, <1>2, <1>4 DEF FeedNext, VenueStep

-----------------------------------------------------------------------------
FeedInv == ConnectionInv /\ MessagesInv

LEMMA FeedInvariant == FeedSpec => []FeedInv
  <1>1. FeedInit => FeedInv
    BY ConnectionStart, MessagesStart DEF FeedInv
  <1>2. FeedInv /\ [FeedNext]_feedVars => FeedInv'
    BY ConnectionStepKeeps, MessageStepKeeps DEF FeedInv
  <1> QED
    BY <1>1, <1>2, PTL DEF FeedSpec

\* The types of the manager's state, over any number of lost connections: _conn is
\* the newest connection or None, and no ping task outruns the connections made.
THEOREM FeedTypeCorrect == FeedSpec => []FeedTypeOK
  <1>1. FeedInv => FeedTypeOK
    BY DEF FeedInv, ConnectionInv, MessagesInv, ConnectionTypeOK, MessagesTypeOK, FeedTypeOK
  <1> QED
    BY <1>1, FeedInvariant, PTL

\* Before _reconnect() reads, _resubscribe() has sent every topic registered when the
\* connection was made, wherever earlier connections were lost.
THEOREM Resubscribed == FeedSpec => []ResubscribedOnEveryConnection
  <1>1. FeedInv => ResubscribedOnEveryConnection
    BY DEF FeedInv, ConnectionInv
  <1> QED
    BY <1>1, FeedInvariant, PTL

\* The ping task of the connection that is read has not ended, whatever the ping
\* tasks of earlier connections do to theirs or to this one.
THEOREM PingsKeepConnection == FeedSpec => []KeptAlive
  <1>1. FeedInv => KeptAlive
    BY DEF FeedInv, ConnectionInv
  <1> QED
    BY <1>1, FeedInvariant, PTL

\* A full queue of subscribe() gives up its oldest messages, and only those.
THEOREM NewestAreKept == FeedSpec => []QueueKeepsNewest
  <1>1. FeedInv => QueueKeepsNewest
    BY DEF FeedInv, MessagesInv, QueuesKeep, Keeps, Held, Untaken, QueueKeepsNewest
  <1> QED
    BY <1>1, FeedInvariant, PTL

\* _reader_loop() delivers a message to the subscribers of one key only.
THEOREM DeliveredUnderOneKey == FeedSpec => []MostSpecificOnly
  <1>1. FeedInv => MostSpecificOnly
    BY DEF FeedInv, MessagesInv
  <1> QED
    BY <1>1, FeedInvariant, PTL
=============================================================================
