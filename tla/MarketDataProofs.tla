--------------------------- MODULE MarketDataProofs ---------------------------
(***************************************************************************)
(* What the order book promises, for any prices, sizes, snapshots and      *)
(* capacity of the ring: its sorted lists, lookups, ring and cached        *)
(* signals implement the book of the contract, and the queries read it.    *)
(***************************************************************************)
EXTENDS MarketData, DataLemmas, TLAPS

-----------------------------------------------------------------------------
(* The cached signals.                                                     *)


\* Every mutator forgets the cached signals: what compute_signals() serves from its cache is
\* what it would compute from the book as it stands.
THEOREM SignalsAreFresh == MarketSpec => []SignalsFresh
  <1>1. MarketInit => SignalsFresh
    BY DEF MarketInit, SignalsFresh
  <1>2. SignalsFresh /\ [MarketNext]_marketVars => SignalsFresh'
    <2> SUFFICES ASSUME SignalsFresh, [MarketNext]_marketVars PROVE SignalsFresh'
      OBVIOUS
    <2>1. ASSUME UNCHANGED <<levels, lookup, ring, ringNext, ringCount>>
          PROVE  CurrentSignals' = CurrentSignals
      <3>1. FlashCrash' = FlashCrash
        BY <2>1, Zenon DEF FlashCrash, RecentMids
      <3>2. DepthWall("buy")' = DepthWall("buy") /\ DepthWall("sell")' = DepthWall("sell")
        BY <2>1, Zenon DEF DepthWall
      <3>3. SpreadBps' = SpreadBps
        BY <2>1, Zenon DEF SpreadBps
      <3>4. Imbalance' = Imbalance
        BY <2>1, Zenon DEF Imbalance
      <3> QED
        BY <3>1, <3>2, <3>3, <3>4, Zenon DEF CurrentSignals
    <2>2. ASSUME NEW snapshot \in Snapshots, ApplySnapshot(snapshot) PROVE SignalsFresh'
      BY <2>2 DEF ApplySnapshot, SignalsFresh
    <2>3. ASSUME NEW side \in Sides2, NEW price \in Prices, NEW size \in LevelSizes \cup {0},
                 ApplyDelta(side, price, size)
          PROVE  SignalsFresh'
      BY <2>3 DEF ApplyDelta, SignalsFresh
    <2>4. CASE ComputeSignals
      BY <2>1, <2>4 DEF ComputeSignals, SignalsFresh
    <2>5. CASE UNCHANGED marketVars
      BY <2>1, <2>5 DEF marketVars, SignalsFresh
    <2> QED
      BY <2>2, <2>3, <2>4, <2>5 DEF MarketNext
  <1> QED
    BY <1>1, <1>2, PTL DEF MarketSpec

-----------------------------------------------------------------------------
\* An entry of the list of a side; a list with the best price first; what a list holds.
Level == [price : Prices, size : LevelSizes]

BestFirst(side, list) ==
    \A i, j \in 1..Len(list) : i < j => Better(side, list[i].price, list[j].price)

Members(list) == {list[i] : i \in 1..Len(list)}

\* On either side Better is a strict order of the prices, and a total one.
LEMMA BetterFacts ==
    ASSUME NEW side \in Sides2
    PROVE  /\ \A p \in Prices : ~Better(side, p, p)
           /\ \A p, q \in Prices : p # q => Better(side, p, q) \/ Better(side, q, p)
           /\ \A p, q, r \in Prices : Better(side, p, q) /\ Better(side, q, r) => Better(side, p, r)
           /\ \A p, q \in Prices : Better(side, p, q) => ~Better(side, q, p)
  BY MarketAssumption DEF Better, Sides2

\* bisect.insort of apply_delta(): the list grows by the entry and stays sorted.
LEMMA InsertKeepsSorted ==
    ASSUME NEW side \in Sides2, NEW list \in Seq(Level), BestFirst(side, list), NEW entry \in Level,
           \A i \in 1..Len(list) : list[i].price # entry.price
    PROVE  LET new == InsertSorted(side, list, entry)
           IN  /\ new \in Seq(Level) /\ Len(new) = Len(list) + 1
               /\ BestFirst(side, new)
               /\ Members(new) = Members(list) \cup {entry}
  <1> DEFINE n == Len(list)
             K == {i \in DOMAIN list : Better(side, list[i].price, entry.price)}
             k == Cardinality(K)
             new == InsertSorted(side, list, entry)
  <1>1. n \in Nat /\ DOMAIN list = 1..n /\ \A i \in 1..n : list[i] \in Level
    OBVIOUS
  <1>2. \A i \in 1..n : list[i].price \in Prices /\ entry.price \in Prices
    BY <1>1 DEF Level
  <1>3. k \in 0..n /\ K = 1..k
    <2>1. K \in SUBSET (1..n)
      BY <1>1
    <2>2. \A i \in K, j \in 1..n : j < i => j \in K
      <3> TAKE i \in K, j \in 1..n
      <3> HAVE j < i
      <3>1. i \in 1..n /\ Better(side, list[i].price, entry.price)
        BY <1>1
      <3>2. Better(side, list[j].price, list[i].price)
        BY <3>1 DEF BestFirst
      <3>3. Better(side, list[j].price, entry.price)
        BY <1>2, <3>1, <3>2, BetterFacts
      <3> QED
        BY <1>1, <3>3
    <2> HIDE DEF K
    <2> QED
      BY <1>1, <2>1, <2>2, DownClosed
  <1>4. \A i \in 1..n : IF i <= k THEN Better(side, list[i].price, entry.price)
                        ELSE Better(side, entry.price, list[i].price)
    <2> TAKE i \in 1..n
    <2>1. i <= k <=> i \in K
      <3> HIDE DEF K
      <3> QED
        BY <1>3
    <2>2. i \in K <=> Better(side, list[i].price, entry.price)
      BY <1>1
    <2>3. list[i].price # entry.price
      OBVIOUS
    <2> HIDE DEF k
    <2> QED
      BY <1>2, <2>1, <2>2, <2>3, BetterFacts
  <1>5. new = InsertAt(list, k + 1, entry)
    BY DEF InsertSorted
  <1> HIDE DEF k, K, new
  <1>6. /\ new \in Seq(Level) /\ Len(new) = n + 1
        /\ \A i \in 1..(n + 1) :
             new[i] = IF i <= k THEN list[i] ELSE IF i = k + 1 THEN entry ELSE list[i - 1]
    <2> HIDE DEF n
    <2>1. k \in 0..Len(list)
      BY <1>3 DEF n
    <2> DEFINE put == InsertAt(list, k + 1, entry)
    <2>2. /\ put \in Seq(Level) /\ Len(put) = Len(list) + 1
          /\ \A i \in 1..(Len(list) + 1) :
               put[i] = IF i <= k THEN list[i] ELSE IF i = k + 1 THEN entry ELSE list[i - 1]
      BY <2>1, InsertAtFacts
    <2>3. new = put
      BY <1>5
    <2> HIDE DEF put
    <2> QED
      BY <2>2, <2>3 DEF n
  <1> HIDE DEF n
  <1>7. BestFirst(side, new)
    <2> SUFFICES ASSUME NEW i \in 1..(n + 1), NEW j \in 1..(n + 1), i < j
                 PROVE  Better(side, new[i].price, new[j].price)
      BY <1>6 DEF BestFirst
    <2>0. \A a, b \in 1..n : a < b => Better(side, list[a].price, list[b].price)
      BY DEF BestFirst, n
    <2>1. CASE j <= k
      <3>1. i \in 1..n /\ j \in 1..n /\ new[i] = list[i] /\ new[j] = list[j]
        BY <1>1, <1>3, <1>6, <2>1
      <3> QED
        BY <2>0, <3>1
    <2>2. CASE i <= k /\ j = k + 1
      <3>1. i \in 1..n /\ new[i] = list[i] /\ new[j] = entry
        BY <1>1, <1>3, <1>6, <2>2
      <3> QED
        BY <1>4, <2>2, <3>1
    <2>3. CASE i <= k /\ j > k + 1
      <3>1. i \in 1..n /\ j - 1 \in 1..n /\ new[i] = list[i] /\ new[j] = list[j - 1] /\ i < j - 1
        BY <1>1, <1>3, <1>6, <2>3
      <3> QED
        BY <2>0, <3>1
    <2>4. CASE i = k + 1
      <3>1. j - 1 \in 1..n /\ ~(j - 1 <= k) /\ new[i] = entry /\ new[j] = list[j - 1]
        BY <1>1, <1>3, <1>6, <2>4
      <3> QED
        BY <1>4, <3>1
    <2>5. CASE i > k + 1
      <3>1. /\ i - 1 \in 1..n /\ j - 1 \in 1..n /\ i - 1 < j - 1
            /\ new[i] = list[i - 1] /\ new[j] = list[j - 1]
        BY <1>1, <1>3, <1>6, <2>5
      <3> QED
        BY <2>0, <3>1
    <2> QED
      BY <1>1, <1>3, <2>1, <2>2, <2>3, <2>4, <2>5
  <1>8. Members(new) = Members(list) \cup {entry}
    <2>1. \A i \in 1..(n + 1) : new[i] \in Members(list) \cup {entry}
      <3> TAKE i \in 1..(n + 1)
      <3>1. CASE i <= k
        BY <1>1, <1>3, <1>6, <3>1 DEF Members, n
      <3>2. CASE i = k + 1
        BY <1>1, <1>3, <1>6, <3>2
      <3>3. CASE i > k + 1
        <4>1. i - 1 \in 1..n /\ new[i] = list[i - 1]
          BY <1>1, <1>3, <1>6, <3>3
        <4> QED
          BY <4>1 DEF Members, n
      <3> QED
        BY <1>1, <1>3, <3>1, <3>2, <3>3
    <2>2. entry \in Members(new)
      <3>1. k + 1 \in 1..(n + 1) /\ new[k + 1] = entry
        BY <1>1, <1>3, <1>6
      <3> QED
        BY <1>6, <3>1 DEF Members
    <2>3. \A i \in 1..n : list[i] \in Members(new)
      <3> TAKE i \in 1..n
      <3>1. CASE i <= k
        <4>1. i \in 1..(n + 1) /\ new[i] = list[i]
          BY <1>1, <1>3, <1>6, <3>1
        <4> QED
          BY <1>6, <4>1 DEF Members
      <3>2. CASE i > k
        <4>1. i + 1 \in 1..(n + 1) /\ new[i + 1] = list[i]
          BY <1>1, <1>3, <1>6, <3>2
        <4> QED
          BY <1>6, <4>1 DEF Members
      <3> QED
        BY <1>1, <1>3, <3>1, <3>2
    <2> QED
      BY <1>6, <2>1, <2>2, <2>3 DEF Members, n
  <1> QED
    BY <1>6, <1>7, <1>8 DEF new, n

\* list.remove() of apply_delta(): the list loses the entry and stays sorted.
LEMMA RemoveKeepsSorted ==
    ASSUME NEW side \in Sides2, NEW list \in Seq(Level), BestFirst(side, list),
           NEW entry \in Members(list)
    PROVE  LET new == RemoveFirst(list, entry)
           IN  /\ new \in Seq(Level)
               /\ BestFirst(side, new)
               /\ Members(new) = Members(list) \ {entry}
  <1> DEFINE n == Len(list)
             new == RemoveFirst(list, entry)
  <1>1. n \in Nat /\ \A i \in 1..n : list[i] \in Level /\ list[i].price \in Prices
    <2>1. n \in Nat /\ \A i \in 1..n : list[i] \in Level
      OBVIOUS
    <2> QED
      BY <2>1 DEF Level
  <1>2. PICK k \in 1..n : list[k] = entry /\ new = RemoveAt(list, k)
    <2>1. \E i \in 1..Len(list) : list[i] = entry
      BY DEF Members
    <2> QED
      BY <2>1, RemoveFirstFacts
  <1> HIDE DEF new
  <1>3. /\ new \in Seq(Level) /\ Len(new) = n - 1
        /\ \A i \in 1..(n - 1) : new[i] = IF i < k THEN list[i] ELSE list[i + 1]
    BY <1>2, RemoveAtFacts
  <1> HIDE DEF n
  <1>4. \A a, b \in 1..n : a < b => Better(side, list[a].price, list[b].price)
    BY DEF BestFirst, n
  <1>5. BestFirst(side, new)
    <2> SUFFICES ASSUME NEW i \in 1..(n - 1), NEW j \in 1..(n - 1), i < j
                 PROVE  Better(side, new[i].price, new[j].price)
      BY <1>3 DEF BestFirst
    <2> DEFINE a == IF i < k THEN i ELSE i + 1
               b == IF j < k THEN j ELSE j + 1
    <2>1. a \in 1..n /\ b \in 1..n /\ a < b
      BY <1>1
    <2>2. new[i] = list[a] /\ new[j] = list[b]
      BY <1>1, <1>3
    <2> HIDE DEF a, b
    <2> QED
      BY <1>4, <2>1, <2>2
  <1>6. \A i \in 1..n : i # k => list[i] # entry
    <2> TAKE i \in 1..n
    <2> HAVE i # k
    <2>1. Better(side, list[i].price, list[k].price) \/ Better(side, list[k].price, list[i].price)
      BY <1>1, <1>4
    <2>2. ~Better(side, list[k].price, list[k].price)
      BY <1>1, BetterFacts
    <2> QED
      BY <1>2, <2>1, <2>2
  <1>7. Members(new) = Members(list) \ {entry}
    <2>1. \A i \in 1..(n - 1) : new[i] \in Members(list) \ {entry}
      <3> TAKE i \in 1..(n - 1)
      <3> DEFINE a == IF i < k THEN i ELSE i + 1
      <3>1. a \in 1..n /\ a # k /\ new[i] = list[a]
        BY <1>1, <1>3
      <3> HIDE DEF a
      <3> QED
        BY <1>6, <3>1 DEF Members, n
    <2>2. \A i \in 1..n : i # k => list[i] \in Members(new)
      <3> TAKE i \in 1..n
      <3> HAVE i # k
      <3> DEFINE a == IF i < k THEN i ELSE i - 1
      <3>1. a \in 1..(n - 1) /\ new[a] = list[i]
        BY <1>1, <1>3
      <3> HIDE DEF a
      <3> QED
        BY <1>3, <3>1 DEF Members
    <2>3. \A x \in Members(list) : \E i \in 1..n : x = list[i]
      BY DEF Members, n
    <2>4. \A x \in Members(new) : x \in Members(list) \ {entry}
      BY <1>3, <2>1 DEF Members
    <2>5. \A x \in Members(list) \ {entry} : x \in Members(new)
      <3> TAKE x \in Members(list) \ {entry}
      <3>1. PICK i \in 1..n : x = list[i]
        BY <2>3
      <3>2. i # k
        BY <1>2, <3>1
      <3> QED
        BY <2>2, <3>1, <3>2
    <2> QED
      BY <2>4, <2>5
  <1> QED
    BY <1>3, <1>5, <1>7 DEF new

\* sorted() of apply_snapshot(): finitely many entries with different prices have a list.
LEMMA SortedFacts ==
    ASSUME NEW side \in Sides2, NEW E \in SUBSET Level, IsFiniteSet(E),
           \A a, b \in E : a.price = b.price => a = b
    PROVE  LET new == Sorted(side, E)
           IN  new \in Seq(Level) /\ BestFirst(side, new) /\ Members(new) = E
  <1> DEFINE n == Cardinality(E)
             Orders(list) == \A i, j \in DOMAIN list :
                                i < j => Better(side, list[i].price, list[j].price)
             C == {T \in SUBSET E : \E list \in Seq(Level) :
                      BestFirst(side, list) /\ Members(list) = T /\ Len(list) = Cardinality(T)}
  <1>1. n \in Nat
    BY FS_CardinalityType
  <1>2. Inductive(C, E)
    <2> SUFFICES \A T \in SUBSET E : (\A x \in T : T \ {x} \in C) => T \in C
      BY DEF Inductive
    <2> TAKE T \in SUBSET E
    <2> HAVE \A x \in T : T \ {x} \in C
    <2>0. IsFiniteSet(T)
      BY FS_Subset
    <2>1. CASE T = {}
      <3>1. << >> \in Seq(Level) /\ BestFirst(side, << >>) /\ Members(<< >>) = {}
        BY DEF BestFirst, Members
      <3>2. Len(<< >>) = Cardinality(T)
        BY <2>1, FS_EmptySet
      <3> QED
        BY <2>1, <3>1, <3>2
    <2>2. CASE T # {}
      <3>1. PICK x \in T : TRUE
        BY <2>2
      <3>2. PICK list \in Seq(Level) :
              /\ BestFirst(side, list) /\ Members(list) = T \ {x}
              /\ Len(list) = Cardinality(T \ {x})
        BY <3>1
      <3>3. \A i \in 1..Len(list) : list[i].price # x.price
        <4> TAKE i \in 1..Len(list)
        <4>1. list[i] \in T \ {x}
          BY <3>2 DEF Members
        <4> QED
          BY <4>1
      <3> DEFINE new == InsertSorted(side, list, x)
      <3>4. /\ new \in Seq(Level) /\ Len(new) = Len(list) + 1 /\ BestFirst(side, new)
            /\ Members(new) = (T \ {x}) \cup {x}
        <4>1. x \in Level
          OBVIOUS
        <4>2. /\ new \in Seq(Level) /\ Len(new) = Len(list) + 1 /\ BestFirst(side, new)
              /\ Members(new) = Members(list) \cup {x}
          <5>1. BestFirst(side, list) /\ list \in Seq(Level)
            BY <3>2
          <5> HIDE DEF C, n
          <5> QED
            BY <3>3, <4>1, <5>1, InsertKeepsSorted
        <4> QED
          BY <3>2, <4>2
      <3> HIDE DEF new
      <3>5. Cardinality(T \ {x}) = Cardinality(T) - 1 /\ Cardinality(T) \in Nat
        BY <2>0, FS_RemoveElement, FS_CardinalityType
      <3>6. Members(new) = T /\ Len(new) = Cardinality(T)
        BY <3>2, <3>4, <3>5
      <3> QED
        BY <3>4, <3>6
    <2> QED
      BY <2>1, <2>2
  <1>3. PICK list \in Seq(Level) :
          BestFirst(side, list) /\ Members(list) = E /\ Len(list) = n
    <2> HIDE DEF C
    <2>1. E \in C
      BY <1>2, FiniteInduction
    <2> QED
      BY <2>1 DEF C
  <1>4. list \in [1..n -> E] /\ Orders(list)
    <2>1. DOMAIN list = 1..n /\ list = [i \in 1..n |-> list[i]]
      BY <1>1, <1>3
    <2>2. \A i \in 1..n : list[i] \in E
      BY <1>3 DEF Members
    <2>3. Orders(list)
      BY <1>3, <2>1 DEF BestFirst
    <2> HIDE DEF n
    <2> QED
      BY <2>1, <2>2, <2>3
  <1> DEFINE new == Sorted(side, E)
  <1>5. new \in [1..n -> E] /\ Orders(new)
    <2>1. new = CHOOSE l \in [1..n -> E] : Orders(l)
      BY DEF Sorted
    <2> HIDE DEF new, n, Orders
    <2> QED
      BY <1>4, <2>1
  <1> HIDE DEF new
  <1>6. new \in Seq(Level) /\ Len(new) = n /\ \A i \in 1..n : new[i] \in E
    <2> HIDE DEF n
    <2> QED
      BY <1>1, <1>5
  <1>7. \A i, j \in 1..n : i < j => Better(side, new[i].price, new[j].price)
    BY <1>5
  <1>8. Members(new) = E
    <2> DEFINE D == 1..n
    <2>1. new \in Injection(D, E)
      <3>1. \A i, j \in D : new[i] = new[j] => i = j
        <4> TAKE i, j \in D
        <4> HAVE new[i] = new[j]
        <4>1. new[i].price \in Prices
          BY <1>6 DEF Level
        <4>2. ~(i < j) /\ ~(j < i)
          BY <1>7, <4>1, BetterFacts
        <4> QED
          BY <1>1, <4>2
      <3>2. new \in [D -> E]
        BY <1>5
      <3> HIDE DEF D
      <3> QED
        BY <3>1, <3>2 DEF Injection, IsInjective
    <2>2. Cardinality(D) = Cardinality(E)
      BY <1>1, FS_Interval
    <2> HIDE DEF D
    <2>3. new \in Surjection(D, E)
      BY <2>1, <2>2, FS_Injection
    <2>4. \A e \in E : \E i \in D : new[i] = e
      BY <2>3 DEF Surjection
    <2> QED
      BY <1>6, <2>4 DEF D, Members
  <1> HIDE DEF n
  <1> QED
    BY <1>6, <1>7, <1>8 DEF BestFirst, new

-----------------------------------------------------------------------------
(* A side: its list shows the levels that its lookup knows.                  *)

\* A lookup: finitely many prices, each with a size.
IsBook(sizes) ==
    /\ IsFiniteSet(DOMAIN sizes) /\ DOMAIN sizes \subseteq Prices
    /\ sizes \in [DOMAIN sizes -> LevelSizes]

\* The list of a side shows just what its lookup knows, best first.
IsSide(side, list, sizes) ==
    /\ IsBook(sizes)
    /\ list \in Seq(Level) /\ BestFirst(side, list)
    /\ Members(list) = Entries(sizes)

\* The entries of a lookup have a price each, and no two the same.
LEMMA EntriesFacts ==
    ASSUME NEW sizes, IsBook(sizes)
    PROVE  /\ Entries(sizes) \subseteq Level /\ IsFiniteSet(Entries(sizes))
           /\ \A a, b \in Entries(sizes) : a.price = b.price => a = b
           /\ \A e \in Entries(sizes) : e.price \in DOMAIN sizes /\ e.size = sizes[e.price]
           /\ \A p \in DOMAIN sizes : [price |-> p, size |-> sizes[p]] \in Entries(sizes)
  <1> DEFINE h == [p \in DOMAIN sizes |-> [price |-> p, size |-> sizes[p]]]
  <1>1. IsFiniteSet({h[p] : p \in DOMAIN sizes})
    <2> HIDE DEF h
    <2> QED
      BY ImageFinite DEF IsBook
  <1>2. Entries(sizes) = {h[p] : p \in DOMAIN sizes}
    BY DEF Entries
  <1> QED
    BY <1>1, <1>2 DEF Entries, IsBook, Level

\* A snapshot leaves list and lookup in agreement.
LEMMA SnapshotSide ==
    ASSUME NEW snapshot \in Snapshots, NEW side \in Sides2
    PROVE  IsSide(side, Sorted(side, Entries(snapshot[side])), snapshot[side])
  <1>1. IsBook(snapshot[side])
    BY MarketAssumption DEF IsBook
  <1> DEFINE E == Entries(snapshot[side])
  <1>2. E \in SUBSET Level /\ IsFiniteSet(E) /\ \A a, b \in E : a.price = b.price => a = b
    BY <1>1, EntriesFacts
  <1> HIDE DEF E
  <1>3. /\ Sorted(side, E) \in Seq(Level) /\ BestFirst(side, Sorted(side, E))
        /\ Members(Sorted(side, E)) = E
    BY <1>2, SortedFacts
  <1> QED
    BY <1>1, <1>3 DEF IsSide, E

\* The list and the lookup of a side after a delta.
DeltaList(side, list, sizes, price, size) ==
    LET old == IF price \in DOMAIN sizes
               THEN RemoveFirst(list, [price |-> price, size |-> sizes[price]])
               ELSE list
    IN  IF size > 0 THEN InsertSorted(side, old, [price |-> price, size |-> size]) ELSE old

DeltaSizes(sizes, price, size) ==
    LET kept == DOMAIN sizes \ {price}
    IN  [p \in (IF size > 0 THEN kept \cup {price} ELSE kept) |->
            IF p = price THEN size ELSE sizes[p]]

\* A delta does: it replaces, adds or removes the level in both.
LEMMA DeltaSide ==
    ASSUME NEW side \in Sides2, NEW list, NEW sizes, IsSide(side, list, sizes),
           NEW price \in Prices, NEW size \in LevelSizes \cup {0}
    PROVE  IsSide(side, DeltaList(side, list, sizes, price, size), DeltaSizes(sizes, price, size))
  <1> DEFINE known == [price |-> price, size |-> sizes[price]]
             old == IF price \in DOMAIN sizes THEN RemoveFirst(list, known) ELSE list
             kept == DOMAIN sizes \ {price}
             entry == [price |-> price, size |-> size]
             new == [p \in (IF size > 0 THEN kept \cup {price} ELSE kept) |->
                        IF p = price THEN size ELSE sizes[p]]
  <1>1. IsBook(sizes) /\ list \in Seq(Level) /\ BestFirst(side, list)
        /\ Members(list) = Entries(sizes)
    BY DEF IsSide
  <1>2. \A e \in Entries(sizes) : e \in Level /\ e.price \in DOMAIN sizes /\ e.size = sizes[e.price]
    BY <1>1, EntriesFacts
  <1>3. /\ old \in Seq(Level) /\ BestFirst(side, old)
        /\ Members(old) = {e \in Entries(sizes) : e.price # price}
    <2>1. CASE price \in DOMAIN sizes
      <3>1. known \in Members(list)
        BY <1>1, <2>1, EntriesFacts
      <3> HIDE DEF known
      <3>2. /\ RemoveFirst(list, known) \in Seq(Level) /\ BestFirst(side, RemoveFirst(list, known))
            /\ Members(RemoveFirst(list, known)) = Entries(sizes) \ {known}
        BY <1>1, <3>1, RemoveKeepsSorted
      <3>3. Entries(sizes) \ {known} = {e \in Entries(sizes) : e.price # price}
        BY DEF Entries, known
      <3> QED
        BY <2>1, <3>2, <3>3
    <2>2. CASE price \notin DOMAIN sizes
      <3>1. Entries(sizes) = {e \in Entries(sizes) : e.price # price}
        BY <1>2, <2>2
      <3> QED
        BY <1>1, <2>2, <3>1
    <2> QED
      BY <2>1, <2>2
  <1> HIDE DEF old
  <1>4. IsBook(new)
    <2>1. DOMAIN new = IF size > 0 THEN kept \cup {price} ELSE kept
      OBVIOUS
    <2>2. IsFiniteSet(kept) /\ IsFiniteSet(kept \cup {price})
      BY <1>1, FS_RemoveElement, FS_AddElement DEF IsBook
    <2>3. DOMAIN new \subseteq Prices
      BY <1>1, <2>1 DEF IsBook
    <2>4. \A p \in DOMAIN new : new[p] \in LevelSizes
      BY <1>1, <2>1, MarketAssumption DEF IsBook
    <2>5. new \in [DOMAIN new -> LevelSizes]
      <3>1. new = [p \in DOMAIN new |-> new[p]]
        BY <2>1
      <3> HIDE DEF new
      <3> QED
        BY <2>4, <3>1
    <2> QED
      BY <2>1, <2>2, <2>3, <2>5 DEF IsBook
  <1>5. Entries(new) = {e \in Entries(sizes) : e.price # price}
                         \cup (IF size > 0 THEN {entry} ELSE {})
    <2> DEFINE kin == IF size > 0 THEN kept \cup {price} ELSE kept
               rest == {e \in Entries(sizes) : e.price # price}
    <2>1. DOMAIN new = kin
      OBVIOUS
    <2>2. rest = {[price |-> p, size |-> sizes[p]] : p \in kept}
      BY DEF Entries
    <2>3. \A p \in kept : new[p] = sizes[p]
      OBVIOUS
    <2>4. size > 0 => new[price] = size
      OBVIOUS
    <2>5. Entries(new) = {[price |-> p, size |-> new[p]] : p \in kin}
      BY <2>1 DEF Entries
    <2> HIDE DEF new, rest, kept
    <2>6. CASE size > 0
      <3>1. Entries(new) = {[price |-> p, size |-> new[p]] : p \in kept} \cup {entry}
        BY <2>4, <2>5, <2>6
      <3>2. {[price |-> p, size |-> new[p]] : p \in kept} = rest
        BY <2>2, <2>3
      <3> QED
        BY <2>6, <3>1, <3>2 DEF rest
    <2>7. CASE ~(size > 0)
      <3>1. Entries(new) = {[price |-> p, size |-> new[p]] : p \in kept}
        BY <2>5, <2>7
      <3>2. {[price |-> p, size |-> new[p]] : p \in kept} = rest
        BY <2>2, <2>3
      <3> QED
        BY <2>7, <3>1, <3>2 DEF rest
    <2> QED
      BY <2>6, <2>7
  <1>6. CASE size > 0
    <2>1. \A i \in 1..Len(old) : old[i].price # entry.price
      <3> TAKE i \in 1..Len(old)
      <3>1. old[i] \in {e \in Entries(sizes) : e.price # price}
        BY <1>3 DEF Members
      <3> QED
        BY <3>1
    <2>2. entry \in Level
      BY <1>6, MarketAssumption DEF Level
    <2> HIDE DEF entry
    <2>3. /\ InsertSorted(side, old, entry) \in Seq(Level)
          /\ BestFirst(side, InsertSorted(side, old, entry))
          /\ Members(InsertSorted(side, old, entry)) = Members(old) \cup {entry}
      BY <1>3, <2>1, <2>2, InsertKeepsSorted
    <2>4. IsSide(side, InsertSorted(side, old, entry), new)
      <3> HIDE DEF new
      <3> QED
        BY <1>3, <1>4, <1>5, <1>6, <2>3 DEF IsSide
    <2> QED
      BY <1>6, <2>4 DEF old, entry, DeltaList, DeltaSizes
  <1>7. CASE ~(size > 0)
    <2>1. IsSide(side, old, new)
      <3> HIDE DEF new
      <3> QED
        BY <1>3, <1>4, <1>5, <1>7 DEF IsSide
    <2> QED
      BY <1>7, <2>1 DEF old, DeltaList, DeltaSizes
  <1> QED
    BY <1>6, <1>7

\* What a side shows of the book that it keeps.
LEMMA SideShows ==
    ASSUME NEW side \in Sides2, NEW list, NEW sizes, IsSide(side, list, sizes)
    PROVE  /\ AsSizes(list) = sizes
           /\ list = << >> <=> DOMAIN sizes = {}
           /\ list # << >> => /\ list[1].price \in DOMAIN sizes
                              /\ \A p \in DOMAIN sizes :
                                    p # list[1].price => Better(side, list[1].price, p)
  <1>1. /\ sizes = [p \in DOMAIN sizes |-> sizes[p]]
        /\ list \in Seq(Level) /\ Members(list) = Entries(sizes) /\ DOMAIN list = 1..Len(list)
    BY DEF IsSide, IsBook
  <1>2. \A e \in Entries(sizes) : e.price \in DOMAIN sizes /\ e.size = sizes[e.price]
    BY EntriesFacts DEF IsSide
  <1>3. \A p \in DOMAIN sizes : \E i \in 1..Len(list) : list[i].price = p
    <2> TAKE p \in DOMAIN sizes
    <2>1. [price |-> p, size |-> sizes[p]] \in Members(list)
      BY <1>1 DEF Entries
    <2> QED
      BY <2>1 DEF Members
  <1>4. \A i \in 1..Len(list) : list[i] \in Entries(sizes)
    BY <1>1 DEF Members
  <1>5. AsSizes(list) = sizes
    <2>1. {list[i].price : i \in DOMAIN list} = DOMAIN sizes
      BY <1>1, <1>2, <1>3, <1>4
    <2>2. \A p \in DOMAIN sizes : (CHOOSE lv \in ToSet(list) : lv.price = p).size = sizes[p]
      <3> TAKE p \in DOMAIN sizes
      <3>1. ToSet(list) = Entries(sizes)
        BY <1>1 DEF ToSet, Members
      <3> DEFINE lv == CHOOSE e \in ToSet(list) : e.price = p
      <3>2. \E e \in ToSet(list) : e.price = p
        <4>1. PICK i \in 1..Len(list) : list[i].price = p
          BY <1>3
        <4>2. list[i] \in ToSet(list)
          BY <1>4, <3>1
        <4> QED
          BY <4>1, <4>2
      <3>3. lv \in ToSet(list) /\ lv.price = p
        BY <3>2
      <3> HIDE DEF lv
      <3>4. lv.size = sizes[p]
        BY <1>2, <3>1, <3>3
      <3> QED
        BY <3>4 DEF lv
    <2>3. AsSizes(list) = [p \in DOMAIN sizes |-> (CHOOSE lv \in ToSet(list) : lv.price = p).size]
      BY <2>1 DEF AsSizes
    <2>4. AsSizes(list) = [p \in DOMAIN sizes |-> sizes[p]]
      BY <2>2, <2>3
    <2> QED
      BY <1>1, <2>4
  <1>6. list = << >> <=> DOMAIN sizes = {}
    <2>1. list = << >> <=> Len(list) = 0
      BY <1>1
    <2> QED
      BY <1>1, <1>2, <1>3, <1>4, <2>1
  <1>7. ASSUME list # << >>
        PROVE  /\ list[1].price \in DOMAIN sizes
               /\ \A p \in DOMAIN sizes : p # list[1].price => Better(side, list[1].price, p)
    <2>1. 1 \in 1..Len(list)
      BY <1>1, <1>7
    <2>2. list[1].price \in DOMAIN sizes
      BY <1>2, <1>4, <2>1
    <2>3. \A p \in DOMAIN sizes : p # list[1].price => Better(side, list[1].price, p)
      <3> TAKE p \in DOMAIN sizes
      <3> HAVE p # list[1].price
      <3>1. PICK i \in 1..Len(list) : list[i].price = p
        BY <1>3
      <3>2. 1 < i
        BY <2>1, <3>1
      <3>3. \A a, b \in 1..Len(list) : a < b => Better(side, list[a].price, list[b].price)
        BY DEF IsSide, BestFirst
      <3> QED
        BY <2>1, <3>1, <3>2, <3>3
    <2> QED
      BY <2>2, <2>3
  <1> QED
    BY <1>5, <1>6, <1>7

-----------------------------------------------------------------------------
(* The ring: what it remembers, newest first, is what the contract says.     *)

\* The ring holds as many mids as were counted, and writes in turn once it is full.
RingInv ==
    /\ ring \in Seq(Nat \ {0}) /\ ringCount = Len(ring) /\ ringCount <= Capacity
    /\ ringNext \in 0..(Capacity - 1)
    /\ Len(ring) < Capacity => ringNext = Len(ring)

\* A mid that is written is the newest of those read backwards; the oldest is lost when
\* the ring is full, and so it is after the index has wrapped around.
LEMMA RecordStep ==
    ASSUME RingInv, NEW mid \in Nat, RecordMid(mid)
    PROVE  /\ RingInv'
           /\ RecentMids' = IF mid = 0 THEN RecentMids
                            ELSE SubSeq(<<mid>> \o RecentMids, 1,
                                        Min({Capacity, Len(RecentMids) + 1}))
  <1>0. Capacity \in Nat \ {0}
    BY MarketAssumption
  <1>1. CASE mid = 0
    BY <1>1 DEF RecordMid, RingInv, RecentMids
  <1>2. CASE mid # 0
    <2> DEFINE n == Len(ring)
    <2>1. /\ n \in Nat /\ ringCount = n /\ n <= Capacity /\ ringNext \in 0..(Capacity - 1)
          /\ n < Capacity => ringNext = n
          /\ \A i \in 1..n : ring[i] \in Nat \ {0}
      BY DEF RingInv
    <2>2. /\ ring' = IF n < Capacity THEN Append(ring, mid)
                     ELSE [ring EXCEPT ![ringNext + 1] = mid]
          /\ ringNext' = (ringNext + 1) % Capacity
          /\ ringCount' = Min({ringCount + 1, Capacity})
      BY <1>2 DEF RecordMid
    <2>3. ringNext' = IF ringNext + 1 = Capacity THEN 0 ELSE ringNext + 1
      <3>1. CASE ringNext + 1 = Capacity
        BY <1>0, <2>2, <3>1, ModFacts
      <3>2. CASE ringNext + 1 # Capacity
        <4>1. ringNext + 1 \in 0..(Capacity - 1)
          BY <1>0, <2>1, <3>2
        <4> QED
          BY <1>0, <2>2, <3>2, <4>1, ModFacts
      <3> QED
        BY <3>1, <3>2
    <2>4. /\ ring' \in Seq(Nat \ {0})
          /\ Len(ring') = IF n < Capacity THEN n + 1 ELSE n
          /\ ringNext + 1 \in 1..Len(ring') /\ ring'[ringNext + 1] = mid
          /\ \A i \in 1..n : i # ringNext + 1 => ring'[i] = ring[i]
      <3>1. CASE n < Capacity
        BY <1>2, <2>1, <2>2, <3>1 DEF RingInv
      <3>2. CASE ~(n < Capacity)
        BY <1>0, <1>2, <2>1, <2>2, <3>2 DEF RingInv
      <3> QED
        BY <3>1, <3>2
    <2> DEFINE m == IF n < Capacity THEN n + 1 ELSE n
    <2>5. ringCount' = m
      BY <1>0, <2>1, <2>2 DEF Min
    <2>6. RingInv'
      BY <1>0, <2>1, <2>3, <2>4, <2>5 DEF RingInv
    <2> DEFINE old == RecentMids
               seen == <<mid>> \o old
               new == RecentMids'
    <2>7. old \in Seq(Nat \ {0}) /\ Len(old) = n
      <3>1. old = [i \in 1..n |-> ring[((ringNext - i) % Capacity) + 1]]
        BY <2>1 DEF RecentMids
      <3>2. \A i \in 1..n : ((ringNext - i) % Capacity) + 1 \in 1..n
        <4> TAKE i \in 1..n
        <4>1. CASE i <= ringNext
          <5>1. ringNext - i \in 0..(Capacity - 1) /\ (ringNext - i) + 1 <= n
            BY <1>0, <2>1, <4>1
          <5>2. (ringNext - i) % Capacity = ringNext - i
            BY <1>0, <5>1, ModFacts
          <5> QED
            BY <2>1, <5>1, <5>2
        <4>2. CASE i > ringNext
          <5>1. n = Capacity /\ ringNext - i \in (-Capacity)..(-1)
            BY <1>0, <2>1, <4>2
          <5>2. (ringNext - i) % Capacity = ringNext - i + Capacity
            BY <1>0, <5>1, ModFacts
          <5> QED
            BY <2>1, <4>2, <5>1, <5>2
        <4> QED
          BY <2>1, <4>1, <4>2
      <3> HIDE DEF old
      <3>3. \A i \in 1..n : old[i] \in Nat \ {0}
        BY <2>1, <3>1, <3>2
      <3> HIDE DEF n
      <3> QED
        BY <2>1, <3>1, <3>3
    <2>8. /\ new = [i \in 1..m |-> ring'[((ringNext' - i) % Capacity) + 1]]
      BY <2>5 DEF RecentMids
    <2>9. \A i \in 1..n : old[i] = ring[((ringNext - i) % Capacity) + 1]
      BY <2>1 DEF RecentMids
    <2> HIDE DEF old, new
    <2>10. Len(seen) = n + 1 /\ seen[1] = mid /\ \A i \in 2..(n + 1) : seen[i] = old[i - 1]
      BY <1>2, <2>7
    <2>11. \A i \in 1..m : new[i] = seen[i]
      <3> TAKE i \in 1..m
      <3>0. new[i] = ring'[((ringNext' - i) % Capacity) + 1]
        BY <2>8
      <3>1. CASE i = 1
        <4>1. (ringNext' - 1) % Capacity = ringNext
          <5>1. CASE ringNext + 1 = Capacity
            <6>1. ringNext' - 1 \in (-Capacity)..(-1) /\ ringNext' - 1 + Capacity = ringNext
              BY <1>0, <2>1, <2>3, <5>1
            <6> QED
              BY <1>0, <6>1, ModFacts
          <5>2. CASE ringNext + 1 # Capacity
            <6>1. ringNext' - 1 \in 0..(Capacity - 1) /\ ringNext' - 1 = ringNext
              BY <1>0, <2>1, <2>3, <5>2
            <6> QED
              BY <1>0, <6>1, ModFacts
          <5> QED
            BY <5>1, <5>2
        <4> QED
          BY <2>4, <2>10, <3>0, <3>1, <4>1
      <3>2. CASE i # 1
        <4>1. i - 1 \in 1..n /\ i \in 2..(n + 1) /\ i <= Capacity /\ i \in Int
          BY <1>0, <2>1, <3>2
        <4> DEFINE at == (ringNext - (i - 1)) % Capacity
        <4>2. (ringNext' - i) % Capacity = at /\ at \in Int /\ at + 1 \in 1..n /\ at # ringNext
          <5>1. CASE i - 1 <= ringNext
            <6>1. ringNext - (i - 1) \in 0..(Capacity - 1) /\ ringNext - (i - 1) + 1 <= n
              BY <1>0, <2>1, <4>1, <5>1
            <6>2. at = ringNext - (i - 1)
              BY <1>0, <6>1, ModFacts
            <6>3. (ringNext' - i) % Capacity = ringNext - (i - 1)
              <7>1. CASE ringNext + 1 = Capacity
                <8>1. /\ ringNext' - i \in (-Capacity)..(-1)
                      /\ ringNext' - i + Capacity = ringNext - (i - 1)
                  BY <1>0, <2>1, <2>3, <4>1, <7>1
                <8> QED
                  BY <1>0, <8>1, ModFacts
              <7>2. CASE ringNext + 1 # Capacity
                <8>1. /\ ringNext' - i \in 0..(Capacity - 1)
                      /\ ringNext' - i = ringNext - (i - 1)
                  BY <1>0, <2>1, <2>3, <4>1, <5>1, <7>2
                <8> QED
                  BY <1>0, <8>1, ModFacts
              <7> QED
                BY <7>1, <7>2
            <6> QED
              BY <2>1, <4>1, <6>1, <6>2, <6>3
          <5>2. CASE i - 1 > ringNext
            <6>1. /\ ringNext - (i - 1) \in (-Capacity)..(-1) /\ n = Capacity
                  /\ ringNext + 1 # Capacity
              BY <1>0, <2>1, <4>1, <5>2
            <6>2. at = ringNext - (i - 1) + Capacity
              BY <1>0, <6>1, ModFacts
            <6>3. /\ ringNext' - i \in (-Capacity)..(-1)
                  /\ ringNext' - i + Capacity = ringNext - (i - 1) + Capacity
              BY <1>0, <2>1, <2>3, <4>1, <5>2, <6>1
            <6>4. (ringNext' - i) % Capacity = ringNext - (i - 1) + Capacity
              BY <1>0, <6>3, ModFacts
            <6> QED
              BY <1>0, <2>1, <4>1, <5>2, <6>1, <6>2, <6>4
          <5> QED
            BY <2>1, <4>1, <5>1, <5>2
        <4>3. seen[i] = ring[at + 1]
          BY <2>9, <2>10, <4>1
        <4> HIDE DEF at, seen
        <4>4. at + 1 # ringNext + 1
          BY <2>1, <4>2
        <4>5. ring'[at + 1] = ring[at + 1]
          BY <2>4, <4>2, <4>4
        <4> QED
          BY <3>0, <4>2, <4>3, <4>5
      <3> QED
        BY <3>1, <3>2
    <2>12. Min({Capacity, n + 1}) = m
      BY <1>0, <2>1 DEF Min
    <2>13. new = SubSeq(seen, 1, m)
      <3>1. m \in Nat /\ m <= n + 1
        BY <2>1
      <3>2. seen \in Seq(Nat)
        BY <2>7
      <3> HIDE DEF seen, m
      <3>3. SubSeq(seen, 1, m) = [i \in 1..m |-> seen[i]]
        BY <2>10, <3>1, <3>2
      <3>4. new = [i \in 1..m |-> new[i]]
        BY <2>8
      <3> QED
        BY <2>11, <3>3, <3>4
    <2> HIDE DEF seen, m
    <2> QED
      BY <1>2, <2>6, <2>7, <2>12, <2>13 DEF new, old, seen
  <1> QED
    BY <1>1, <1>2

-----------------------------------------------------------------------------
(* The book that the contract speaks of.                                     *)

\* The inductive invariant: list and lookup of either side agree, and the ring is in order.
MarketInv ==
    /\ levels = [s \in Sides2 |-> levels[s]] /\ lookup = [s \in Sides2 |-> lookup[s]]
    /\ \A s \in Sides2 : IsSide(s, levels[s], lookup[s])
    /\ RingInv

\* The first entries of the lists are the best prices that the contract speaks of.
LEMMA MidMatches ==
    ASSUME NEW lists, NEW sizes, \A s \in Sides2 : IsSide(s, lists[s], sizes[s])
    PROVE  MidPrice(lists) = Book!MidOf(sizes) /\ MidPrice(lists) \in Nat
  <1> DEFINE b == "buy"
             a == "sell"
  <1>0. b \in Sides2 /\ a \in Sides2
    BY DEF Sides2
  <1>1. \A s \in Sides2 :
          /\ lists[s] = << >> <=> DOMAIN sizes[s] = {}
          /\ lists[s] # << >> => /\ lists[s][1].price \in DOMAIN sizes[s]
                                 /\ \A p \in DOMAIN sizes[s] :
                                      p # lists[s][1].price => Better(s, lists[s][1].price, p)
    BY SideShows
  <1>2. \A s \in Sides2 : DOMAIN sizes[s] \subseteq Nat \ {0}
    BY MarketAssumption DEF IsSide, IsBook
  <1>3. CASE lists[b] = << >> \/ lists[a] = << >>
    <2>1. MidPrice(lists) = 0
      BY <1>3 DEF MidPrice, Best
    <2>2. Book!MidOf(sizes) = 0
      BY <1>0, <1>1, <1>3 DEF Book!MidOf
    <2> QED
      BY <2>1, <2>2
  <1>4. CASE lists[b] # << >> /\ lists[a] # << >>
    <2> DEFINE p == lists[b][1].price
               q == lists[a][1].price
    <2>1. /\ p \in DOMAIN sizes[b] /\ p \in Nat \ {0}
          /\ q \in DOMAIN sizes[a] /\ q \in Nat \ {0}
      BY <1>0, <1>1, <1>2, <1>4
    <2>2. \A r \in DOMAIN sizes[b] : r <= p /\ r \in Nat
      <3> TAKE r \in DOMAIN sizes[b]
      <3>1. r # p => Better(b, p, r)
        BY <1>0, <1>1, <1>4
      <3>2. r \in Nat
        BY <1>0, <1>2
      <3> HIDE DEF p
      <3> QED
        BY <2>1, <3>1, <3>2 DEF Better
    <2>3. \A r \in DOMAIN sizes[a] : q <= r /\ r \in Nat
      <3> TAKE r \in DOMAIN sizes[a]
      <3>1. r # q => Better(a, q, r)
        BY <1>0, <1>1, <1>4
      <3>2. r \in Nat
        BY <1>0, <1>2
      <3> HIDE DEF q
      <3> QED
        BY <2>1, <3>1, <3>2 DEF Better
    <2>4. MidPrice(lists) = p + q
      BY <1>4, <2>1 DEF MidPrice, Best
    <2>5. Book!MidOf(sizes) = Max(DOMAIN sizes[b]) + Min(DOMAIN sizes[a])
      BY <2>1 DEF Book!MidOf, Book!Max, Book!Min, Max, Min
    <2> HIDE DEF p, q
    <2>6. Max(DOMAIN sizes[b]) = p
      BY <2>1, <2>2 DEF Max
    <2>7. Min(DOMAIN sizes[a]) = q
      BY <2>1, <2>3 DEF Min
    <2> QED
      BY <2>1, <2>4, <2>5, <2>6, <2>7
  <1> QED
    BY <1>3, <1>4

\* Read as books, the lists are the lookups.
LEMMA DepthIsLookup ==
    ASSUME NEW lists, NEW sizes, sizes = [s \in Sides2 |-> sizes[s]],
           \A s \in Sides2 : IsSide(s, lists[s], sizes[s])
    PROVE  [s \in Sides2 |-> AsSizes(lists[s])] = sizes
  <1>1. \A s \in Sides2 : AsSizes(lists[s]) = sizes[s]
    BY SideShows
  <1>2. [s \in Sides2 |-> AsSizes(lists[s])] = [s \in Sides2 |-> sizes[s]]
    BY <1>1
  <1> QED
    BY <1>2

\* The empty book is in order.
LEMMA MarketInit_Inv ==
    ASSUME MarketInit
    PROVE  MarketInv
  <1>1. IsBook(<< >>) /\ Entries(<< >>) = {}
    BY FS_EmptySet DEF IsBook, Entries
  <1>2. \A s \in Sides2 : IsSide(s, << >>, << >>)
    BY <1>1 DEF IsSide, BestFirst, Members
  <1>3. RingInv
    BY MarketAssumption DEF MarketInit, RingInv
  <1> QED
    BY <1>2, <1>3 DEF MarketInit, MarketInv

\* The sizes of the sides once there are n at the price of a side.
Entered(sizes, side, price, n) ==
    LET kept == DOMAIN sizes[side] \ {price}
    IN  [sizes EXCEPT ![side] =
            [q \in (IF n = 0 THEN kept ELSE kept \cup {price}) |->
                IF q = price THEN n ELSE sizes[side][q]]]

\* One step keeps the invariant and is one of the book, or changes nothing of it.
LEMMA MarketStep ==
    ASSUME MarketInv, [MarketNext]_marketVars
    PROVE  /\ MarketInv'
           /\ \/ \E d \in Snapshots :
                   lookup' = d /\ RecentMids' = Book!Remembered(d)
              \/ \E s \in Sides2, p \in Prices, n \in LevelSizes \cup {0} :
                   /\ lookup' = Entered(lookup, s, p, n)
                   /\ RecentMids' = Book!Remembered(Entered(lookup, s, p, n))
              \/ UNCHANGED <<lookup, RecentMids>>
  <1>1. ASSUME \A s \in Sides2 : IsSide(s, levels'[s], lookup'[s]), RecordMid(MidPrice(levels'))
        PROVE  RingInv' /\ RecentMids' = Book!Remembered(lookup')
    <2>1. MidPrice(levels') = Book!MidOf(lookup') /\ MidPrice(levels') \in Nat
      BY <1>1, MidMatches
    <2>2. /\ RingInv'
          /\ RecentMids' = IF MidPrice(levels') = 0 THEN RecentMids
                           ELSE SubSeq(<<MidPrice(levels')>> \o RecentMids, 1,
                                       Min({Capacity, Len(RecentMids) + 1}))
      BY <1>1, <2>1, RecordStep DEF MarketInv
    <2> QED
      BY <2>1, <2>2 DEF Book!Remembered, Book!Min, Min
  <1>2. ASSUME NEW snapshot \in Snapshots, ApplySnapshot(snapshot)
        PROVE  /\ MarketInv'
               /\ lookup' = snapshot /\ RecentMids' = Book!Remembered(snapshot)
    <2>1. /\ levels' = [s \in Sides2 |-> Sorted(s, Entries(snapshot[s]))]
          /\ lookup' = snapshot /\ RecordMid(MidPrice(levels'))
      BY <1>2 DEF ApplySnapshot
    <2>2. snapshot = [s \in Sides2 |-> snapshot[s]]
      BY MarketAssumption
    <2>3. \A s \in Sides2 : IsSide(s, levels'[s], lookup'[s])
      BY <2>1, SnapshotSide
    <2>4. levels' = [s \in Sides2 |-> levels'[s]]
      BY <2>1
    <2> QED
      BY <1>1, <2>1, <2>2, <2>3, <2>4 DEF MarketInv
  <1>3. ASSUME NEW side \in Sides2, NEW price \in Prices, NEW size \in LevelSizes \cup {0},
               ApplyDelta(side, price, size)
        PROVE  /\ MarketInv'
               /\ lookup' = Entered(lookup, side, price, size)
               /\ RecentMids' = Book!Remembered(Entered(lookup, side, price, size))
    <2> DEFINE list == DeltaList(side, levels[side], lookup[side], price, size)
               known == DeltaSizes(lookup[side], price, size)
    <2>1. /\ levels' = [levels EXCEPT ![side] = list]
          /\ lookup' = [lookup EXCEPT ![side] = known]
          /\ RecordMid(MidPrice(levels'))
      BY <1>3, Zenon DEF ApplyDelta, DeltaList, DeltaSizes
    <2>2. IsSide(side, list, known)
      <3>1. IsSide(side, levels[side], lookup[side])
        BY DEF MarketInv
      <3> QED
        BY <3>1, DeltaSide
    <2>3. [lookup EXCEPT ![side] = known] = Entered(lookup, side, price, size)
      <3>1. size > 0 <=> size # 0
        BY MarketAssumption
      <3> QED
        BY <3>1, Zenon DEF DeltaSizes, Entered
    <2> HIDE DEF list, known
    <2>4. /\ levels' = [s \in Sides2 |-> levels'[s]] /\ lookup' = [s \in Sides2 |-> lookup'[s]]
          /\ levels'[side] = list /\ lookup'[side] = known
          /\ \A s \in Sides2 : s # side => levels'[s] = levels[s] /\ lookup'[s] = lookup[s]
      BY <2>1 DEF MarketInv
    <2>5. \A s \in Sides2 : IsSide(s, levels'[s], lookup'[s])
      BY <2>2, <2>4 DEF MarketInv
    <2>6. MarketInv' /\ RecentMids' = Book!Remembered(lookup')
      BY <1>1, <2>1, <2>4, <2>5 DEF MarketInv
    <2> QED
      BY <2>1, <2>3, <2>6
  <1>4. ASSUME UNCHANGED <<levels, lookup, ring, ringNext, ringCount>>
        PROVE  MarketInv' /\ UNCHANGED <<lookup, RecentMids>>
    BY <1>4 DEF MarketInv, RingInv, RecentMids
  <1>5. CASE ComputeSignals
    BY <1>4, <1>5 DEF ComputeSignals
  <1>6. CASE UNCHANGED marketVars
    BY <1>4, <1>6 DEF marketVars
  <1>7. CASE \E snapshot \in Snapshots : ApplySnapshot(snapshot)
    BY <1>2, <1>7
  <1>8. CASE \E side \in Sides2, price \in Prices, size \in LevelSizes \cup {0} :
                ApplyDelta(side, price, size)
    BY <1>3, <1>8
  <1> QED
    BY <1>5, <1>6, <1>7, <1>8 DEF MarketNext

\* The lists, the lookups and the ring agree after any sequence of snapshots, deltas and
\* signals.
THEOREM MarketInvariant == MarketSpec => []MarketInv
  <1>1. MarketInit => MarketInv
    BY MarketInit_Inv
  <1>2. MarketInv /\ [MarketNext]_marketVars => MarketInv'
    BY MarketStep
  <1> QED
    BY <1>1, <1>2, PTL DEF MarketSpec

\* Sorted lists, lookups, ring and cached signals implement the contract of PriceBook: a
\* book of sizes by price and the mids of the last changes, newest first.
THEOREM KeepsThePriceBook == MarketSpec => ImplementsPriceBook
  <1> DEFINE bar == [s \in Sides2 |-> AsSizes(levels[s])]
  <1>1. MarketInit => Book!BookInit
    <2> SUFFICES ASSUME MarketInit PROVE Book!BookInit
      OBVIOUS
    <2>1. bar = lookup
      BY MarketInit_Inv, DepthIsLookup DEF MarketInv
    <2>2. RecentMids = << >>
      BY DEF MarketInit, RecentMids
    <2> QED
      BY <2>1, <2>2 DEF MarketInit, Book!BookInit, Book!BookSides, Book!NoLevels, Sides2
  <1>2. MarketInv /\ [MarketNext]_marketVars
          => [Book!Replace \/ Book!Change]_<<bar, RecentMids>>
    <2> SUFFICES ASSUME MarketInv, [MarketNext]_marketVars
                 PROVE  [Book!Replace \/ Book!Change]_<<bar, RecentMids>>
      OBVIOUS
    <2>1. bar = lookup
      BY DepthIsLookup DEF MarketInv
    <2>2. MarketInv'
      BY MarketStep
    <2>3. bar' = lookup'
      BY <2>2, DepthIsLookup DEF MarketInv
    <2> HIDE DEF bar
    <2>4. CASE \E d \in Snapshots : lookup' = d /\ RecentMids' = Book!Remembered(d)
      BY <2>3, <2>4 DEF Book!Replace, bar
    <2>5. CASE \E s \in Sides2, p \in Prices, n \in LevelSizes \cup {0} :
                  /\ lookup' = Entered(lookup, s, p, n)
                  /\ RecentMids' = Book!Remembered(Entered(lookup, s, p, n))
      <3>1. PICK s \in Sides2, p \in Prices, n \in LevelSizes \cup {0} :
               /\ lookup' = Entered(lookup, s, p, n)
               /\ RecentMids' = Book!Remembered(Entered(lookup, s, p, n))
        BY <2>5
      <3>2. bar' = Entered(bar, s, p, n) /\ RecentMids' = Book!Remembered(Entered(bar, s, p, n))
        BY <2>1, <2>3, <3>1
      <3>3. s \in Book!BookSides
        BY DEF Book!BookSides, Sides2
      <3>4. Book!Change
        <4> SUFFICES
              \E s1 \in Book!BookSides, p1 \in Prices, n1 \in LevelSizes \cup {0} :
                 bar' = Entered(bar, s1, p1, n1)
                   /\ RecentMids' = Book!Remembered(Entered(bar, s1, p1, n1))
          BY Zenon DEF Book!Change, Entered, bar
        <4> QED
          BY <3>2, <3>3, Zenon
      <3> QED
        BY <3>4
    <2>6. CASE UNCHANGED <<lookup, RecentMids>>
      BY <2>1, <2>3, <2>6
    <2> QED
      BY <2>4, <2>5, <2>6, MarketStep
  <1> QED
    BY <1>1, <1>2, MarketInvariant, PTL DEF MarketSpec, ImplementsPriceBook, Book!BookSpec

-----------------------------------------------------------------------------
(* What the queries read off the lists.                                      *)

\* depth_at_price() adds up the list up to the first worse price; these are the levels of
\* the book that are at least as good.
LEMMA DepthIsSum ==
    ASSUME NEW side \in Sides2, NEW list, NEW sizes, IsSide(side, list, sizes),
           NEW price \in Prices
    PROVE  LET worse == {i \in DOMAIN list : Better(side, price, list[i].price)}
               good == {q \in DOMAIN sizes : ~Better(side, price, q)}
           IN  Total(IF worse = {} THEN list ELSE SubSeq(list, 1, Min(worse) - 1))
                 = FoldFunctionOnSet(+, 0, sizes, good)
  <1> DEFINE n == Len(list)
             worse == {i \in DOMAIN list : Better(side, price, list[i].price)}
             good == {q \in DOMAIN sizes : ~Better(side, price, q)}
             read == IF worse = {} THEN list ELSE SubSeq(list, 1, Min(worse) - 1)
             k == IF worse = {} THEN n ELSE Min(worse) - 1
  <1>1. /\ n \in Nat /\ DOMAIN list = 1..n /\ list \in Seq(Level)
        /\ \A i \in 1..n : list[i] \in Level /\ list[i] \in Members(list)
        /\ Members(list) = Entries(sizes) /\ IsBook(sizes)
    BY DEF IsSide, Members
  <1>2. /\ \A e \in Entries(sizes) : e.price \in DOMAIN sizes /\ e.size = sizes[e.price]
        /\ \A p \in DOMAIN sizes : [price |-> p, size |-> sizes[p]] \in Entries(sizes)
    BY <1>1, EntriesFacts
  <1>3. \A i, j \in 1..n : i < j => Better(side, list[i].price, list[j].price)
    BY DEF IsSide, BestFirst
  <1>4. \A i \in 1..n : /\ list[i].price \in DOMAIN sizes /\ list[i].price \in Prices
                        /\ list[i].size = sizes[list[i].price] /\ list[i].size \in Nat
    BY <1>1, <1>2, MarketAssumption DEF Level
  <1>5. k \in 0..n /\ \A i \in 1..n : i <= k <=> ~Better(side, price, list[i].price)
    <2>1. CASE worse = {}
      BY <1>1, <2>1
    <2>2. CASE worse # {}
      <3>1. worse \in SUBSET Nat
        BY <1>1
      <3>2. Min(worse) \in worse /\ \A i \in worse : Min(worse) <= i
        <4> HIDE DEF worse
        <4> QED
          BY <2>2, <3>1, MinFacts
      <3> DEFINE w == Min(worse)
      <3>3. w \in 1..n /\ Better(side, price, list[w].price)
        BY <1>1, <3>2
      <3>4. \A i \in 1..n : i < w => ~Better(side, price, list[i].price)
        <4> TAKE i \in 1..n
        <4> HAVE i < w
        <4>1. i \notin worse
          <5> HIDE DEF worse
          <5> QED
            BY <3>2, <3>3
        <4> QED
          BY <1>1, <4>1
      <3> HIDE DEF w, worse
      <3>5. \A i \in 1..n : i >= w => Better(side, price, list[i].price)
        <4> TAKE i \in 1..n
        <4> HAVE i >= w
        <4>1. CASE i = w
          BY <3>3, <4>1
        <4>2. CASE i # w
          <5>1. Better(side, list[w].price, list[i].price)
            BY <1>1, <1>3, <3>3, <4>2
          <5> QED
            BY <1>4, <3>3, <5>1, BetterFacts
        <4> QED
          BY <4>1, <4>2
      <3>6. k = w - 1
        BY <2>2 DEF w
      <3> QED
        BY <1>1, <3>3, <3>4, <3>5, <3>6
    <2> QED
      BY <2>1, <2>2
  <1>6. read \in Seq(Level) /\ Len(read) = k /\ \A i \in 1..k : read[i] = list[i]
    <2>1. CASE worse = {}
      BY <1>1, <2>1
    <2>2. CASE worse # {}
      <3>1. read = SubSeq(list, 1, k)
        BY <2>2
      <3> HIDE DEF read, k
      <3>2. /\ SubSeq(list, 1, k) \in Seq(Level) /\ Len(SubSeq(list, 1, k)) = k
            /\ \A i \in 1..k : SubSeq(list, 1, k)[i] = list[i]
        BY <1>1, <1>5
      <3> QED
        BY <3>1, <3>2
    <2> QED
      BY <2>1, <2>2
  <1> HIDE DEF read, k, worse
  <1> DEFINE S == 1..k
             f == SizesOf(read)
             h == [i \in S |-> list[i].price]
  <1>7. IsFiniteSet(S) /\ \A i \in S : i \in 1..n
    BY <1>1, <1>5, FS_Interval
  <1>8. DOMAIN f = S /\ \A i \in S : f[i] = list[i].size /\ f[i] \in Nat
    BY <1>4, <1>6, <1>7 DEF SizesOf
  <1>9. \A i, j \in S : h[i] = h[j] => i = j
    <2> TAKE i, j \in S
    <2> HAVE h[i] = h[j]
    <2>1. list[i].price = list[j].price /\ i \in 1..n /\ j \in 1..n
      BY <1>7
    <2>2. ~(i < j) /\ ~(j < i)
      BY <1>3, <1>4, <2>1, BetterFacts
    <2> QED
      BY <1>1, <2>1, <2>2
  <1>10. \A i \in S : sizes[h[i]] = f[i]
    BY <1>4, <1>7, <1>8
  <1>11. {h[i] : i \in S} = good
    <2>1. \A i \in S : h[i] \in good
      <3> TAKE i \in S
      <3>1. h[i] = list[i].price /\ i \in 1..n /\ i <= k
        BY <1>5, <1>7
      <3> QED
        BY <1>4, <1>5, <3>1
    <2>2. \A q \in good : \E i \in S : q = h[i]
      <3> TAKE q \in good
      <3>1. [price |-> q, size |-> sizes[q]] \in Members(list)
        BY <1>1, <1>2
      <3>2. PICK i \in 1..n : list[i] = [price |-> q, size |-> sizes[q]]
        BY <3>1 DEF Members
      <3>3. list[i].price = q
        BY <3>2
      <3>4. i <= k
        BY <1>5, <3>3
      <3>5. i \in S
        BY <1>5, <3>4
      <3> QED
        BY <3>3, <3>5
    <2> HIDE DEF good, h, S
    <2> QED
      BY <2>1, <2>2
  <1>12. Total(read) = SumOver(f, S)
    <2>1. Total(read) = FoldFunctionOnSet(+, 0, f, DOMAIN f)
      BY Zenon DEF Total, FoldSeq, FoldFunction
    <2> HIDE DEF f
    <2> QED
      BY <1>8, <2>1 DEF SumOver
  <1>13. SumOver(f, S) = SumOver(sizes, {h[i] : i \in S})
    <2> HIDE DEF f, h, S
    <2>1. Carries(h, S, f, sizes)
      BY <1>8, <1>9, <1>10 DEF Carries
    <2> QED
      BY <1>7, <2>1, SumImage
  <1>14. Total(read) = SumOver(sizes, good)
    <2> HIDE DEF good, h, S, f
    <2> QED
      BY <1>11, <1>12, <1>13
  <1> QED
    BY <1>14 DEF SumOver, read, worse

(***************************************************************************)
(* The average price: what has been taken after the m best levels, and     *)
(* what has been paid for it.                                              *)
(***************************************************************************)
\* The state of the loop of vwap(), how it begins, and how it goes over a list.
Taken == [left : Nat, cost : Nat, size : Nat, part : Nat, at : Nat \ {0}]

Start(notional) == [left |-> notional, cost |-> 0, size |-> 0, part |-> 0, at |-> 1]

IsRun(run, notional, list) ==
    /\ run[0] = Start(notional)
    /\ \A m \in 1..Len(list) : run[m] = Take(run[m - 1], list[m])

\* Prices and sizes of a level are positive numbers.
LEMMA LevelNat ==
    ASSUME NEW level \in Level
    PROVE  level.price \in Nat \ {0} /\ level.size \in Nat \ {0}
  BY MarketAssumption DEF Level

\* One turn of the loop.
LEMMA TakeTyped ==
    ASSUME NEW taken \in Taken, NEW level \in Level
    PROVE  Take(taken, level) \in Taken
  <1> DEFINE worth == level.size * level.price
  <1>1. worth \in Nat /\ level.price \in Nat \ {0} /\ level.size \in Nat
    BY LevelNat
  <1>2. Take(taken, level) =
          IF taken.left = 0 THEN taken
          ELSE IF worth >= taken.left
               THEN [taken EXCEPT !.part = taken.left, !.at = level.price, !.left = 0]
               ELSE [taken EXCEPT !.cost = @ + worth, !.size = @ + level.size, !.left = @ - worth]
    BY DEF Take
  <1> HIDE DEF worth
  <1>3. /\ taken.left \in Nat /\ taken.cost \in Nat /\ taken.size \in Nat
        /\ taken.part \in Nat /\ taken.at \in Nat \ {0}
    BY DEF Taken
  <1>4. CASE taken.left = 0
    BY <1>2, <1>4
  <1>5. CASE taken.left # 0 /\ worth >= taken.left
    <2>1. Take(taken, level) = [taken EXCEPT !.part = taken.left, !.at = level.price, !.left = 0]
      BY <1>2, <1>5
    <2>2. Take(taken, level) = [left |-> 0, cost |-> taken.cost, size |-> taken.size,
                                part |-> taken.left, at |-> level.price]
      BY <2>1 DEF Taken
    <2> QED
      BY <1>1, <1>3, <2>2 DEF Taken
  <1>6. CASE taken.left # 0 /\ ~(worth >= taken.left)
    <2>1. Take(taken, level)
            = [taken EXCEPT !.cost = @ + worth, !.size = @ + level.size, !.left = @ - worth]
      BY <1>2, <1>6
    <2>2. /\ taken.left - worth \in Nat /\ taken.cost + worth \in Nat
          /\ taken.size + level.size \in Nat
      BY <1>1, <1>3, <1>6
    <2> QED
      BY <2>1, <2>2 DEF Taken
  <1> QED
    BY <1>4, <1>5, <1>6

\* The fold over the list is a run of the loop.
LEMMA TakeRuns ==
    ASSUME NEW notional \in Nat, NEW list \in Seq(Level)
    PROVE  \E run : IsRun(run, notional, list)
                      /\ FoldLeft(Take, Start(notional), list) = run[Len(list)]
  <1> DEFINE n == Len(list)
             step == [q \in Taken \X (1..n) |-> Take(q[1], list[q[2]])]
             base == Start(notional)
  <1>0. n \in Nat /\ DOMAIN list = 1..n /\ \A i \in 1..n : list[i] \in Level
    OBVIOUS
  <1>1. base \in Taken
    BY DEF Taken, Start
  <1>2. step \in [Taken \X (1..n) -> Taken]
    BY <1>0, TakeTyped
  <1>3. \A v \in Taken, i \in 1..n : step[<<v, i>>] = Take(v, list[i])
    OBVIOUS
  <1> HIDE DEF step, base, n
  <1>4. PICK it \in [SUBSET (1..n) -> Taken] :
           \A T \in SUBSET (1..n) :
              it[T] = IF T = {} THEN base ELSE step[<<it[T \ {Max(T)}], Max(T)>>]
    <2>1. PICK it : IsLeftFold(it, n, Taken, base, step)
      BY <1>0, <1>1, <1>2, FoldLeftTable
    <2> QED
      BY <2>1 DEF IsLeftFold
  <1>5. it = [T \in SUBSET (1..n) |->
                IF T = {} THEN base ELSE Take(it[T \ {Max(T)}], list[Max(T)])]
    <2>1. \A T \in SUBSET (1..n) :
             it[T] = IF T = {} THEN base ELSE Take(it[T \ {Max(T)}], list[Max(T)])
      <3> TAKE T \in SUBSET (1..n)
      <3>1. it[T] = IF T = {} THEN base ELSE step[<<it[T \ {Max(T)}], Max(T)>>]
        BY <1>4
      <3>2. T # {} => Max(T) \in 1..n /\ it[T \ {Max(T)}] \in Taken
        BY <1>0, <1>4, MaxFacts
      <3> QED
        BY <1>3, <3>1, <3>2
    <2> QED
      BY <1>4, <2>1
  <1> DEFINE jt == CHOOSE iter : iter = [T \in SUBSET (1..n) |->
                     IF T = {} THEN base ELSE Take(iter[T \ {Max(T)}], list[Max(T)])]
  <1>6. jt = [T \in SUBSET (1..n) |->
                IF T = {} THEN base ELSE Take(jt[T \ {Max(T)}], list[Max(T)])]
    BY <1>5
  <1>7. FoldLeft(Take, base, list) = jt[1..n]
    BY <1>0 DEF FoldLeft, MapThenFoldSet
  <1> HIDE DEF jt
  <1>8. \A T \in SUBSET (1..n) :
           jt[T] = IF T = {} THEN base ELSE Take(jt[T \ {Max(T)}], list[Max(T)])
    BY <1>6
  <1> DEFINE run == [m \in 0..n |-> jt[1..m]]
  <1>9. run[0] = base
    <2>1. 1..0 = {} /\ {} \in SUBSET (1..n) /\ 0 \in 0..n
      BY <1>0
    <2> QED
      BY <1>8, <2>1
  <1>10. \A m \in 1..n : run[m] = Take(run[m - 1], list[m])
    <2> TAKE m \in 1..n
    <2>1. 1..m # {} /\ 1..m \in SUBSET (1..n) /\ Max(1..m) = m /\ (1..m) \ {m} = 1..(m - 1)
      BY <1>0, PrefixSets, PrefixMax, PrefixLess
    <2>2. jt[1..m] = Take(jt[1..(m - 1)], list[m])
      BY <1>8, <2>1
    <2>3. m \in 0..n /\ m - 1 \in 0..n
      BY <1>0
    <2> QED
      BY <2>2, <2>3
  <1>11. run[n] = jt[1..n]
    BY <1>0
  <1> HIDE DEF run
  <1>12. IsRun(run, notional, list) /\ FoldLeft(Take, base, list) = run[n]
    BY <1>7, <1>9, <1>10, <1>11 DEF IsRun, n, base
  <1> QED
    BY <1>12 DEF base, n

\* What has been paid so far is between lo and hi a piece.
Within(taken, lo, hi) ==
    /\ taken.cost <= hi * taken.size /\ lo * taken.size <= taken.cost
    /\ taken.part # 0 => taken.at \in lo..hi

\* A turn that takes a level between lo and hi pays between lo and hi a piece.
LEMMA TakeWithin ==
    ASSUME NEW taken \in Taken, NEW level \in Level, NEW lo \in Nat, NEW hi \in Nat,
           level.price \in lo..hi, Within(taken, lo, hi)
    PROVE  Within(Take(taken, level), lo, hi)
  <1> DEFINE p == level.price
             z == level.size
             new == Take(taken, level)
  <1>1. p \in Nat \ {0} /\ z \in Nat /\ lo <= p /\ p <= hi
    BY LevelNat
  <1>2. /\ taken.left \in Nat /\ taken.cost \in Nat /\ taken.size \in Nat /\ taken.part \in Nat
        /\ taken.at \in Nat
    BY DEF Taken
  <1>3. CASE taken.left = 0
    BY <1>3 DEF Take
  <1>4. CASE taken.left # 0 /\ z * p >= taken.left
    <2>1. new = [taken EXCEPT !.part = taken.left, !.at = p, !.left = 0]
      BY <1>4 DEF Take
    <2>2. new.cost = taken.cost /\ new.size = taken.size /\ new.at = p
      BY <2>1 DEF Taken
    <2> HIDE DEF new, p, z
    <2> QED
      BY <1>1, <2>2 DEF Within, new, p
  <1>5. CASE taken.left # 0 /\ ~(z * p >= taken.left)
    <2>1. new = [taken EXCEPT !.cost = @ + z * p, !.size = @ + z, !.left = @ - z * p]
      BY <1>5 DEF Take
    <2>2. /\ new.cost = taken.cost + z * p /\ new.size = taken.size + z
          /\ new.part = taken.part /\ new.at = taken.at
      BY <2>1 DEF Taken
    <2> HIDE DEF new, p, z
    <2>3. p * z <= hi * z /\ lo * z <= p * z /\ p * z \in Nat /\ hi * z \in Nat /\ lo * z \in Nat
      BY <1>1, Times
    <2>4. /\ z * p = p * z
          /\ hi * (taken.size + z) = hi * taken.size + hi * z
          /\ lo * (taken.size + z) = lo * taken.size + lo * z
          /\ hi * taken.size \in Nat /\ lo * taken.size \in Nat
      BY <1>1, <1>2, SMTT(30)
    <2>5. new.cost <= hi * new.size /\ lo * new.size <= new.cost
      BY <1>2, <2>2, <2>3, <2>4 DEF Within
    <2> QED
      BY <2>2, <2>5 DEF Within, new
  <1> QED
    BY <1>1, <1>2, <1>3, <1>4, <1>5

\* What vwap() returns for any notional is between the worst and the best price of the side.
LEMMA VwapWithin ==
    ASSUME NEW side \in Sides2, NEW list, NEW sizes, IsSide(side, list, sizes),
           NEW notional \in Nat, NEW lo \in Nat, NEW hi \in Nat,
           \A p \in DOMAIN sizes : p \in lo..hi
    PROVE  LET taken == FoldLeft(Take, Start(notional), list)
               cost == (taken.cost + taken.part) * taken.at
               size == taken.size * taken.at + taken.part
           IN  cost <= hi * size /\ lo * size <= cost
  <1> DEFINE n == Len(list)
  <1>1. /\ n \in Nat /\ list \in Seq(Level)
        /\ \A i \in 1..n : list[i] \in Level /\ list[i] \in Entries(sizes)
    BY DEF IsSide, Members
  <1>2. \A i \in 1..n : list[i].price \in lo..hi
    BY <1>1, EntriesFacts DEF IsSide
  <1>3. PICK run : IsRun(run, notional, list)
                     /\ FoldLeft(Take, Start(notional), list) = run[n]
    BY <1>1, TakeRuns
  <1>4. /\ run[0] = Start(notional)
        /\ \A m \in 1..n : run[m] = Take(run[m - 1], list[m])
    BY <1>3 DEF IsRun
  <1> HIDE DEF n
  <1> DEFINE G == {m \in 0..n : run[m] \in Taken /\ Within(run[m], lo, hi)}
  <1>5. 0 \in G
    BY <1>1, <1>4 DEF Start, Taken, Within
  <1>6. \A m \in 1..n : m - 1 \in G => m \in G
    <2> TAKE m \in 1..n
    <2> HAVE m - 1 \in G
    <2>1. run[m - 1] \in Taken /\ Within(run[m - 1], lo, hi) /\ list[m] \in Level
          /\ list[m].price \in lo..hi /\ run[m] = Take(run[m - 1], list[m]) /\ m \in 0..n
      BY <1>1, <1>2, <1>4
    <2>2. run[m] \in Taken /\ Within(run[m], lo, hi)
      BY <2>1, TakeTyped, TakeWithin
    <2> QED
      BY <2>1, <2>2
  <1>7. n \in G
    <2> HIDE DEF G
    <2>1. \A m \in 0..n : m \in G
      BY <1>1, <1>5, <1>6, UpTo
    <2> QED
      BY <1>1, <2>1
  <1> DEFINE taken == FoldLeft(Take, Start(notional), list)
  <1>8. taken \in Taken /\ Within(taken, lo, hi)
    BY <1>3, <1>7 DEF n
  <1> HIDE DEF taken
  <1> DEFINE c == taken.cost
             z == taken.size
             part == taken.part
             at == taken.at
  <1>9. /\ c \in Nat /\ z \in Nat /\ part \in Nat /\ at \in Nat \ {0}
        /\ c <= hi * z /\ lo * z <= c
        /\ part # 0 => lo <= at /\ at <= hi
    BY <1>8 DEF Taken, Within
  <1> HIDE DEF c, z, part, at
  <1>10. hi * z \in Nat /\ lo * z \in Nat
    BY <1>9
  <1>11. c * at <= (hi * z) * at /\ (lo * z) * at <= c * at
    BY <1>9, <1>10, Times
  <1>12. at * part <= hi * part /\ lo * part <= at * part
    <2>1. CASE part = 0
      BY <1>9, <2>1
    <2>2. CASE part # 0
      BY <1>9, <2>2, Times
    <2> QED
      BY <2>1, <2>2
  <1>13. /\ (c + part) * at = c * at + at * part
         /\ hi * (z * at + part) = (hi * z) * at + hi * part
         /\ lo * (z * at + part) = (lo * z) * at + lo * part
    BY <1>9, SMTT(30)
  <1>14. /\ c * at \in Nat /\ at * part \in Nat /\ (hi * z) * at \in Nat /\ hi * part \in Nat
         /\ (lo * z) * at \in Nat /\ lo * part \in Nat
    BY <1>9, <1>10
  <1>15. (c + part) * at <= hi * (z * at + part) /\ lo * (z * at + part) <= (c + part) * at
    BY <1>11, <1>12, <1>13, <1>14
  <1> QED
    BY <1>15 DEF c, z, part, at, taken

\* The queries answer from the book: the best price of either side is one that no other is
\* better than, the depth at any price is the sum over the levels at least as good, and the
\* average price for any notional lies between the lowest and the highest price of the side.
THEOREM QueriesReadTheBook == MarketSpec => []QueriesMatchBook
  <1> SUFFICES ASSUME MarketInv PROVE QueriesMatchBook
    BY MarketInvariant, PTL
  <1> SUFFICES ASSUME NEW s \in Sides2
               PROVE  LET sizes == lookup[s]
                      IN  /\ IF DOMAIN sizes = {} THEN Best(levels, s) = 0
                             ELSE /\ Best(levels, s) \in DOMAIN sizes
                                  /\ \A q \in DOMAIN sizes : ~Better(s, q, Best(levels, s))
                          /\ \A p \in Prices :
                                DepthAtPrice(s, p)
                                  = FoldFunctionOnSet(+, 0, sizes,
                                                      {q \in DOMAIN sizes : ~Better(s, p, q)})
                          /\ DOMAIN sizes # {} =>
                                \A n \in Notionals :
                                    LET v == Vwap(s, n)
                                    IN  /\ v[1] <= Max(DOMAIN sizes) * v[2]
                                        /\ v[1] >= Min(DOMAIN sizes) * v[2]
    BY DEF QueriesMatchBook
  <1>1. IsSide(s, levels[s], lookup[s])
    BY DEF MarketInv
  <1>2. \A p \in Prices :
           DepthAtPrice(s, p) =
             FoldFunctionOnSet(+, 0, lookup[s], {q \in DOMAIN lookup[s] : ~Better(s, p, q)})
    BY <1>1, DepthIsSum DEF DepthAtPrice
  <1>4. IF DOMAIN lookup[s] = {} THEN Best(levels, s) = 0
        ELSE /\ Best(levels, s) \in DOMAIN lookup[s]
             /\ \A q \in DOMAIN lookup[s] : ~Better(s, q, Best(levels, s))
    <2>1. /\ levels[s] = << >> <=> DOMAIN lookup[s] = {}
          /\ levels[s] # << >> =>
                /\ levels[s][1].price \in DOMAIN lookup[s]
                /\ \A q \in DOMAIN lookup[s] :
                      q # levels[s][1].price => Better(s, levels[s][1].price, q)
      BY <1>1, SideShows
    <2>2. DOMAIN lookup[s] \subseteq Prices
      BY <1>1 DEF IsSide, IsBook
    <2>3. Best(levels, s) = IF levels[s] = << >> THEN 0 ELSE levels[s][1].price
      BY DEF Best
    <2>4. CASE levels[s] = << >>
      BY <2>1, <2>3, <2>4
    <2>5. CASE levels[s] # << >>
      <3> DEFINE best == levels[s][1].price
      <3>1. best \in Prices /\ best \in DOMAIN lookup[s]
            /\ \A q \in DOMAIN lookup[s] : q # best => Better(s, best, q)
        BY <2>1, <2>2, <2>5
      <3>2. Best(levels, s) = best
        BY <2>3, <2>5
      <3> HIDE DEF best
      <3>3. \A q \in DOMAIN lookup[s] : ~Better(s, q, best)
        BY <2>2, <3>1, BetterFacts
      <3> QED
        BY <3>1, <3>2, <3>3
    <2> QED
      BY <2>4, <2>5
  <1>3. ASSUME NEW n \in Notionals, DOMAIN lookup[s] # {}
        PROVE  LET v == Vwap(s, n)
               IN  /\ v[1] <= Max(DOMAIN lookup[s]) * v[2]
                   /\ v[1] >= Min(DOMAIN lookup[s]) * v[2]
    <2> DEFINE D == DOMAIN lookup[s]
               taken == FoldLeft(Take, Start(n), levels[s])
               cost == (taken.cost + taken.part) * taken.at
               size == taken.size * taken.at + taken.part
    <2>1. IsFiniteSet(D) /\ D \in SUBSET Nat /\ D # {}
      BY <1>1, <1>3, MarketAssumption DEF IsSide, IsBook
    <2>2. n \in Nat
      BY MarketAssumption
    <2> HIDE DEF D
    <2>3. Min(D) \in D /\ \A q \in D : Min(D) <= q
      BY <2>1, MinFacts
    <2>4. Max(D) \in D /\ \A q \in D : q <= Max(D)
      BY <2>1, MaxOfFinite
    <2>5. Min(D) \in Nat /\ Max(D) \in Nat /\ \A q \in D : q \in Min(D)..Max(D)
      <3>1. Min(D) \in Nat /\ Max(D) \in Nat
        BY <2>1, <2>3, <2>4
      <3>2. \A q \in D : q \in Nat /\ Min(D) <= q /\ q <= Max(D)
        BY <2>1, <2>3, <2>4
      <3> QED
        BY <3>1, <3>2
    <2>6. cost <= Max(D) * size /\ Min(D) * size <= cost
      BY <1>1, <2>2, <2>5, VwapWithin DEF D
    <2>7. Vwap(s, n) = <<cost, size>>
      BY DEF Vwap, Start
    <2> HIDE DEF cost, size
    <2>8. Vwap(s, n)[1] = cost /\ Vwap(s, n)[2] = size
      BY <2>7
    <2>9. Vwap(s, n)[1] >= Min(D) * Vwap(s, n)[2]
      BY <2>6, <2>8
    <2> QED
      BY <2>6, <2>8, <2>9 DEF D
  <1> QED
    BY <1>2, <1>3, <1>4
=============================================================================
