---------------------------- MODULE QuotingProofs ----------------------------
(***************************************************************************)
(* What the strategies promise whoever drives them, for every ladder,      *)
(* threshold, cooldown and market.                                         *)
(***************************************************************************)
EXTENDS Quoting, DataLemmas, TLAPS

(***************************************************************************)
(* The accumulator                                                         *)
(***************************************************************************)
IsAccumulator(a) ==
    a \in [ref : Int, spike : BOOLEAN, ratchet : Int, suspended : BOOLEAN, trigger : Int,
           recovered : BOOLEAN]

ArePrices(P) == \A p \in P : p \in Int /\ p > 0

LEMMA LadderPrices ==
    ASSUME NEW ratchet \in Int, NEW up \in BOOLEAN
    PROVE  ArePrices(Ladder(ratchet, up))
  <1>1. \A price \in Int : Aligned(price, up) \in Int
    BY DEF Aligned
  <1>2. \A i \in 0..(LadderRungs - 1) : ratchet - i * RungSpacing \in Int
    BY AccumulatorAssumption
  <1> QED
    BY <1>1, <1>2 DEF Ladder, ArePrices

\* What a call of desired_orders() may do: it leaves a ratchet that is set where it
\* is, and asks for a collapsed ladder only if a recovery is at hand.
LEMMA DesiredFacts ==
    ASSUME NEW a, IsAccumulator(a), NEW up \in BOOLEAN
    PROVE  LET r == Desired(a, up)
           IN  /\ IsAccumulator(r.state)
               /\ r.state.ref = a.ref
               /\ a.ratchet > 0 => r.state.ratchet = a.ratchet
               /\ ArePrices(r.orders)
               /\ r.state.recovered => a.recovered \/ (a.suspended /\ ~r.state.suspended)
               /\ r.orders # {} =>
                     /\ ~r.state.recovered /\ ~r.state.suspended
                     /\ a.suspended \/ a.recovered \/ ~Collapsed(a.ref, r.orders)
  <1> DEFINE r == Desired(a, up)
             woken == [a EXCEPT !.suspended = FALSE, !.recovered = @ \/ a.suspended]
             set == [woken EXCEPT !.ratchet = IF @ <= 0 THEN a.ref - StartOffset ELSE @,
                                  !.recovered = FALSE]
             rungs == Ladder(set.ratchet, up)
             fallen == [set EXCEPT !.suspended = TRUE, !.trigger = a.ref]
  <1>1. /\ IsAccumulator(woken) /\ ~woken.suspended /\ woken.ref = a.ref
        /\ woken.recovered = (a.recovered \/ a.suspended) /\ woken.ratchet = a.ratchet
    BY DEF IsAccumulator
  <1>2. /\ IsAccumulator(set) /\ ~set.suspended /\ set.ref = a.ref /\ ~set.recovered
        /\ a.ratchet > 0 => set.ratchet = a.ratchet
    <2>1. StartOffset \in Int /\ a.ref \in Int /\ a.ratchet \in Int
      BY AccumulatorAssumption DEF IsAccumulator
    <2> DEFINE ratchet == IF woken.ratchet <= 0 THEN a.ref - StartOffset ELSE woken.ratchet
    <2>2. ratchet \in Int /\ (a.ratchet > 0 => ratchet = a.ratchet)
      BY <1>1, <2>1
    <2>3. set = [woken EXCEPT !.ratchet = ratchet, !.recovered = FALSE]
      OBVIOUS
    <2> HIDE DEF woken, ratchet, set
    <2> QED
      BY <1>1, <2>2, <2>3 DEF IsAccumulator
  <1>3. ArePrices(rungs) /\ ArePrices({})
    BY <1>2, LadderPrices DEF IsAccumulator, ArePrices
  <1>4. /\ IsAccumulator(fallen) /\ fallen.ref = a.ref /\ ~fallen.recovered
        /\ fallen.suspended /\ fallen.ratchet = set.ratchet
    <2> HIDE DEF set
    <2> QED
      BY <1>2 DEF IsAccumulator
  <1>5. \/ r = [state |-> a, orders |-> {}]
        \/ r = [state |-> woken, orders |-> {}]
        \/ r = [state |-> fallen, orders |-> {}]
        \/ /\ r = [state |-> set, orders |-> rungs]
           /\ woken.recovered \/ ~Collapsed(a.ref, rungs)
    BY DEF Desired
  <1> DEFINE Goal == /\ IsAccumulator(r.state)
                     /\ r.state.ref = a.ref
                     /\ a.ratchet > 0 => r.state.ratchet = a.ratchet
                     /\ ArePrices(r.orders)
                     /\ r.state.recovered => \/ a.recovered
                                             \/ a.suspended /\ ~r.state.suspended
                     /\ r.orders # {} =>
                           /\ ~r.state.recovered /\ ~r.state.suspended
                           /\ a.suspended \/ a.recovered \/ ~Collapsed(a.ref, r.orders)
  <1>0. SUFFICES Goal
    OBVIOUS
  <1> HIDE DEF r, woken, set, rungs, fallen
  <1>6. CASE r = [state |-> a, orders |-> {}]
    BY <1>3, <1>6
  <1>7. CASE r = [state |-> woken, orders |-> {}]
    BY <1>1, <1>3, <1>7
  <1>8. CASE r = [state |-> fallen, orders |-> {}]
    BY <1>2, <1>3, <1>4, <1>8
  <1>9. CASE /\ r = [state |-> set, orders |-> rungs]
             /\ woken.recovered \/ ~Collapsed(a.ref, rungs)
    BY <1>1, <1>2, <1>3, <1>9
  <1> QED
    BY <1>5, <1>6, <1>7, <1>8, <1>9

-----------------------------------------------------------------------------
(***************************************************************************)
(* The depth keeper.  What its flash log holds is of no account here.      *)
(***************************************************************************)
IsKeeper(d) ==
    /\ DOMAIN d = {"ref", "spike", "dormant", "left", "flashes"}
    /\ d.dormant \in BOOLEAN /\ d.spike \in BOOLEAN
    /\ d.ref \in Int /\ d.left \in Nat

LEMMA NewKeeper == IsKeeper(NewDepthKeeper)
  BY DEF IsKeeper, NewDepthKeeper

LEMMA QuotesOfFacts ==
    ASSUME NEW d, IsKeeper(d)
    PROVE  /\ IsKeeper(QuotesOf(d).state) /\ QuotesOf(d).state.left = d.left
           /\ d.dormant /\ d.left > 0 =>
                 QuotesOf(d).state.dormant /\ QuotesOf(d).orders = {}
  <1> DEFINE woken == [d EXCEPT !.dormant = FALSE]
  <1>1. IsKeeper(woken) /\ woken.left = d.left
    BY DEF IsKeeper
  <1>2. CASE d.ref <= 0 \/ d.spike \/ (d.dormant /\ d.left > 0)
    BY <1>2 DEF QuotesOf
  <1>3. CASE ~(d.ref <= 0 \/ d.spike \/ (d.dormant /\ d.left > 0))
    <2>1. QuotesOf(d) = [state |-> woken, orders |-> Tiers(d.ref)]
      BY <1>3 DEF QuotesOf
    <2> HIDE DEF woken
    <2> QED
      BY <1>1, <1>3, <2>1
  <1> QED
    BY <1>2, <1>3

LEMMA FlashReportedFacts ==
    ASSUME NEW d, IsKeeper(d)
    PROVE  LET e == FlashReported(d)
           IN  /\ IsKeeper(e)
               /\ d.dormant => e.dormant /\ e.left = d.left
               /\ e.dormant /\ ~d.dormant => e.left = DormantTime
               /\ ~e.dormant => e.left = d.left
  <1> DEFINE log == SelectSeq(Append(d.flashes, 0), LAMBDA age : age <= FlashWindow)
             logged == [d EXCEPT !.flashes = log]
             asleep == [logged EXCEPT !.dormant = TRUE, !.left = DormantTime]
  <1> HIDE DEF log
  <1>1. /\ IsKeeper(logged) /\ logged.left = d.left /\ logged.dormant = d.dormant
    BY DEF IsKeeper
  <1>2. IsKeeper(asleep) /\ asleep.dormant /\ asleep.left = DormantTime
    <2> HIDE DEF logged
    <2> QED
      BY <1>1, DepthKeeperAssumption DEF IsKeeper
  <1>3. \/ FlashReported(d) = logged
        \/ FlashReported(d) = asleep /\ ~d.dormant
    BY <1>1 DEF FlashReported, EnterDormant, log
  <1> HIDE DEF logged, asleep
  <1> QED
    BY <1>1, <1>2, <1>3

LEMMA AgedKeeper ==
    ASSUME NEW d, IsKeeper(d)
    PROVE  /\ IsKeeper(DepthAged(d)) /\ DepthAged(d).dormant = d.dormant
           /\ DepthAged(d).left = IF d.left > 0 THEN d.left - 1 ELSE 0
  BY DEF IsKeeper, DepthAged

-----------------------------------------------------------------------------
(***************************************************************************)
(* The reference price                                                     *)
(***************************************************************************)
Mids == [mid : Int, age : Int]

IsRefPrice(p) ==
    /\ DOMAIN p = {"ref", "active", "left", "past"}
    /\ p.ref \in Int /\ p.active \in BOOLEAN
    /\ p.past \in Seq(Mids)

\* A side without a best bid or ask of others is 0.
LEMMA MidFacts ==
    ASSUME NEW bid \in Nat, NEW ask \in Nat
    PROVE  MidWithoutOwn(bid, ask) \in Nat
  BY DEF MidWithoutOwn

LEMMA UpdateFacts ==
    ASSUME NEW p, IsRefPrice(p), NEW bid \in Nat, NEW ask \in Nat
    PROVE  LET q == FlagRead(RefUpdated(p, bid, ask))
           IN  /\ IsRefPrice(q)
               /\ q.ref = p.ref \/ (q.ref = MidWithoutOwn(bid, ask) /\ q.ref # 0)
  <1> DEFINE q == RefUpdated(p, bid, ask)
             past == Append(p.past, [mid |-> MidWithoutOwn(bid, ask), age |-> 0])
             hit == SpikeIn(past, MidWithoutOwn(bid, ask)) /\ ~p.active
  <1>1. /\ IsRefPrice(q)
        /\ q.ref = p.ref \/ (q.ref = MidWithoutOwn(bid, ask) /\ q.ref # 0)
    <2>1. CASE MidWithoutOwn(bid, ask) = 0
      BY <2>1 DEF RefUpdated
    <2>2. CASE MidWithoutOwn(bid, ask) # 0
      <3>1. q = [ref |-> MidWithoutOwn(bid, ask), past |-> past,
                 active |-> p.active \/ hit,
                 left |-> IF hit THEN SpikeQuiet ELSE p.left]
        BY <2>2 DEF RefUpdated
      <3>2. past \in Seq(Mids)
        <4>1. [mid |-> MidWithoutOwn(bid, ask), age |-> 0] \in Mids
          BY MidFacts DEF Mids
        <4> QED
          BY <4>1 DEF IsRefPrice
      <3>3. p.active \/ hit \in BOOLEAN
        BY DEF IsRefPrice
      <3> HIDE DEF q, past, hit
      <3> QED
        BY <2>2, <3>1, <3>2, <3>3, MidFacts DEF IsRefPrice
    <2> QED
      BY <2>1, <2>2
  <1> HIDE DEF q
  <1>2. /\ IsRefPrice(FlagRead(q)) /\ FlagRead(q).ref = q.ref
    BY <1>1 DEF IsRefPrice, FlagRead
  <1> QED
    BY <1>1, <1>2 DEF q

\* What remains in the window was in it.
LEMMA WindowFacts ==
    ASSUME NEW past \in Seq(Mids)
    PROVE  InWindow(past) \in Seq(Mids) /\ Len(InWindow(past)) <= Len(past)
  <1> DEFINE young == {i \in DOMAIN past : past[i].age <= SpikeWindow}
             n == Len(past)
  <1>1. n \in Nat /\ DOMAIN past = 1..n
    OBVIOUS
  <1>2. CASE young = {}
    <2>1. InWindow(past) = << >>
      BY <1>2 DEF InWindow
    <2> QED
      BY <1>1, <2>1
  <1>3. CASE young # {}
    <2> DEFINE first == Min(young)
    <2>1. first \in 1..n
      <3>1. young \in SUBSET Nat /\ young \subseteq 1..n
        BY <1>1
      <3> HIDE DEF young
      <3> QED
        BY <1>3, <3>1, MinFacts
    <2>2. InWindow(past) = SubSeq(past, first, n)
      BY <1>3 DEF InWindow
    <2> HIDE DEF first, n, young
    <2>3. \A i \in first..n : past[i] \in Mids
      BY <1>1, <2>1
    <2>4. SubSeq(past, first, n) \in Seq(Mids) /\ Len(SubSeq(past, first, n)) = n - first + 1
      BY <1>1, <2>1, <2>3
    <2> QED
      BY <1>1, <2>1, <2>2, <2>4 DEF n
  <1> QED
    BY <1>2, <1>3

LEMMA AgedMids ==
    ASSUME NEW past \in Seq(Mids)
    PROVE  Older(past) \in Seq(Mids) /\ Len(Older(past)) = Len(past)
  <1>1. \A e \in Mids : [e EXCEPT !.age = @ + 1] \in Mids
    BY DEF Mids
  <1> QED
    BY <1>1 DEF Older

LEMMA AgedPrice ==
    ASSUME NEW p, IsRefPrice(p)
    PROVE  /\ IsRefPrice(RefAged(p)) /\ RefAged(p).ref = p.ref
           /\ Len(RefAged(p).past) <= Len(p.past)
  <1>1. Older(p.past) \in Seq(Mids) /\ Len(Older(p.past)) = Len(p.past)
    BY AgedMids DEF IsRefPrice
  <1>2. InWindow(Older(p.past)) \in Seq(Mids) /\ Len(InWindow(Older(p.past))) <= Len(p.past)
    BY <1>1, WindowFacts
  <1> QED
    BY <1>2 DEF IsRefPrice, RefAged

-----------------------------------------------------------------------------
(***************************************************************************)
(* The invariant: the state of both strategies, that a recovery is due     *)
(* exactly while _just_recovered can be set, and that a storm's cooldown   *)
(* outlasts the time the keeper must be quiet.                             *)
(***************************************************************************)
AccumInv ==
    /\ IsAccumulator(accum)
    /\ kind = "accum" => ArePrices(orders)
    /\ accum.recovered => reprieve = "due"
    /\ LadderWithinCollapse

KeeperInv ==
    /\ IsKeeper(keeper)
    /\ quiet \in Nat /\ quiet <= keeper.left
    /\ quiet > 0 => kind = "depth" /\ keeper.dormant /\ orders = {}

QuotingInv ==
    /\ IsRefPrice(rp)
    /\ kind \in {"accum", "depth"}
    /\ AccumInv
    /\ KeeperInv

\* The accumulator's ratchet as the property on its steps wants it.
RatchetKept == accum.ratchet > 0 => accum'.ratchet = accum.ratchet

LEMMA QuotingStart == QuotingInit => QuotingInv
  <1> SUFFICES ASSUME QuotingInit PROVE QuotingInv
    OBVIOUS
  <1>1. IsAccumulator(accum) /\ ~accum.recovered
    BY DEF QuotingInit, NewAccumulator, IsAccumulator
  <1>2. IsKeeper(keeper) /\ keeper.left = 0
    BY NewKeeper DEF QuotingInit, NewDepthKeeper
  <1>3. IsRefPrice(rp)
    BY DEF QuotingInit, NoRefPrice, IsRefPrice
  <1>4. orders = {} /\ quiet = 0 /\ kind \in {"accum", "depth"}
    BY DEF QuotingInit
  <1> QED
    BY <1>1, <1>2, <1>3, <1>4
       DEF QuotingInv, AccumInv, KeeperInv, ArePrices, LadderWithinCollapse

\* No orders: nothing about them can be wrong.
LEMMA NoOrders ==
    ASSUME AccumInv, orders' = {}, reprieve' = Reprieved(FALSE, {}), kind' = kind,
           IsAccumulator(accum'), accum'.recovered => accum.recovered
    PROVE  AccumInv'
  BY DEF AccumInv, Reprieved, ArePrices, LadderWithinCollapse

LEMMA AskedKeeps ==
    ASSUME QuotingInv, NEW price \in Int, NEW spike \in BOOLEAN, NEW ask \in BOOLEAN,
           Asked(price, spike, ask), kind' = kind, quiet' = quiet
    PROVE  AccumInv' /\ KeeperInv' /\ RatchetKept
  <1> DEFINE a == [accum EXCEPT !.ref = price, !.spike = spike]
             d == [keeper EXCEPT !.ref = price, !.spike = spike]
  <1>1. /\ IsAccumulator(a) /\ a.ref = price /\ a.ratchet = accum.ratchet
        /\ a.suspended = accum.suspended /\ a.recovered = accum.recovered
    BY DEF QuotingInv, AccumInv, IsAccumulator
  <1>2. IsKeeper(d) /\ d.left = keeper.left /\ d.dormant = keeper.dormant
    BY DEF QuotingInv, KeeperInv, IsKeeper
  <1>3. CASE kind = "accum"
    <2>1. PICK up \in BOOLEAN :
             LET r == IF ask THEN Desired(a, up) ELSE [state |-> a, orders |-> {}]
             IN  /\ accum' = r.state
                 /\ orders' = r.orders
                 /\ reprieve' = Reprieved(a.suspended /\ ~r.state.suspended, r.orders)
                 /\ UNCHANGED keeper
      BY <1>3 DEF Asked
    <2>2. CASE ask
      <3> DEFINE r == Desired(a, up)
      <3>1. /\ accum' = r.state /\ orders' = r.orders
            /\ reprieve' = Reprieved(a.suspended /\ ~accum'.suspended, orders')
            /\ keeper' = keeper
        BY <2>1, <2>2
      <3>2. /\ IsAccumulator(accum')
            /\ accum'.ref = a.ref
            /\ a.ratchet > 0 => accum'.ratchet = a.ratchet
            /\ ArePrices(orders')
            /\ accum'.recovered => a.recovered \/ (a.suspended /\ ~accum'.suspended)
            /\ orders' # {} =>
                  /\ ~accum'.recovered /\ ~accum'.suspended
                  /\ a.suspended \/ a.recovered \/ ~Collapsed(a.ref, orders')
        <4> HIDE DEF a
        <4>1. LET q == Desired(a, up)
              IN  /\ IsAccumulator(q.state)
                  /\ q.state.ref = a.ref
                  /\ a.ratchet > 0 => q.state.ratchet = a.ratchet
                  /\ ArePrices(q.orders)
                  /\ q.state.recovered => a.recovered \/ (a.suspended /\ ~q.state.suspended)
                  /\ q.orders # {} =>
                        /\ ~q.state.recovered /\ ~q.state.suspended
                        /\ a.suspended \/ a.recovered \/ ~Collapsed(a.ref, q.orders)
          BY <1>1, DesiredFacts
        <4> QED
          BY <3>1, <4>1
      <3> HIDE DEF r, a
      <3>3. accum'.recovered => reprieve' = "due"
        BY <1>1, <3>1, <3>2 DEF Reprieved, QuotingInv, AccumInv
      <3>4. LadderWithinCollapse'
        BY <1>1, <3>1, <3>2 DEF Reprieved, QuotingInv, AccumInv, LadderWithinCollapse
      <3>5. KeeperInv'
        BY <1>3, <3>1 DEF QuotingInv, KeeperInv
      <3> QED
        BY <1>1, <3>2, <3>3, <3>4, <3>5 DEF AccumInv, RatchetKept
    <2>3. CASE ~ask
      <3>1. /\ accum' = a /\ orders' = {} /\ keeper' = keeper
            /\ reprieve' = Reprieved(FALSE, {})
        BY <2>1, <2>3 DEF Reprieved
      <3> HIDE DEF a
      <3>2. AccumInv'
        BY <1>1, <3>1, NoOrders DEF QuotingInv
      <3> QED
        BY <1>1, <1>3, <3>1, <3>2 DEF QuotingInv, KeeperInv, RatchetKept
    <2> QED
      BY <2>2, <2>3
  <1>4. CASE kind = "depth"
    <2>1. /\ UNCHANGED <<accum, reprieve>>
          /\ keeper' = IF ask THEN QuotesOf(d).state ELSE d
          /\ orders' = IF ask THEN QuotesOf(d).orders ELSE {}
      BY <1>4 DEF Asked
    <2> HIDE DEF d
    <2>2. /\ IsKeeper(keeper') /\ keeper'.left = keeper.left
          /\ keeper.dormant /\ keeper.left > 0 => keeper'.dormant /\ orders' = {}
      BY <1>2, <2>1, QuotesOfFacts
    <2>3. KeeperInv'
      BY <2>2 DEF QuotingInv, KeeperInv, IsKeeper
    <2>4. AccumInv'
      BY <1>4, <2>1 DEF QuotingInv, AccumInv, LadderWithinCollapse
    <2> QED
      BY <2>1, <2>3, <2>4 DEF RatchetKept
  <1> QED
    BY <1>3, <1>4 DEF QuotingInv

-----------------------------------------------------------------------------
\* Own orders hide a side of the top; what is left are numbers.
LEMMA TopOfBook ==
    ASSUME NEW q \in Quotes, NEW own \in SUBSET {1, 2}
    PROVE  /\ [i \in {1, 2} |-> IF i \in own THEN 0 ELSE q[i]][1] \in Nat
           /\ [i \in {1, 2} |-> IF i \in own THEN 0 ELSE q[i]][2] \in Nat
           /\ q[1] \in Nat \ {0} /\ q[2] \in Nat \ {0}
           /\ (q[1] + q[2]) \div 2 \in Int
  <1>1. q[1] \in Nat \ {0} /\ q[2] \in Nat \ {0}
    BY QuotingAssumption
  <1> QED
    BY <1>1

\* A tick, on or off, updates the reference price and asks the strategy or does not.
LEMMA TickDoes ==
    ASSUME Tick
    PROVE  /\ PriceTick
           /\ \/ Asked(rp'.ref, FALSE, TRUE)
              \/ Asked(rp'.ref, rp'.active, FALSE)
              \/ Silent
  <1>1. CASE TickOn
    BY <1>1 DEF TickOn
  <1>2. CASE TickOff
    BY <1>2 DEF TickOff
  <1> QED
    BY <1>1, <1>2 DEF Tick

LEMMA TickKeeps ==
    ASSUME QuotingInv, Tick
    PROVE  QuotingInv' /\ RatchetKept
  <1>1. PICK own \in SUBSET {1, 2} :
           LET top == [i \in {1, 2} |-> IF i \in own THEN 0 ELSE quote'[i]]
           IN  rp' = FlagRead(RefUpdated(rp, top[1], top[2]))
    BY TickDoes DEF PriceTick
  <1>2. IsRefPrice(rp')
    BY <1>1, TickDoes, TopOfBook, UpdateFacts DEF PriceTick, QuotingInv
  <1>3. kind' = kind /\ quiet' = quiet
    BY TickDoes DEF PriceTick
  <1>4. CASE Asked(rp'.ref, FALSE, TRUE) \/ Asked(rp'.ref, rp'.active, FALSE)
    BY <1>2, <1>3, <1>4, AskedKeeps DEF IsRefPrice, QuotingInv
  <1>5. CASE Silent
    <2>1. AccumInv' /\ KeeperInv'
      BY <1>3, <1>5, NoOrders DEF Silent, QuotingInv, AccumInv, KeeperInv
    <2> QED
      BY <1>2, <1>3, <1>5, <2>1 DEF Silent, QuotingInv, RatchetKept
  <1> QED
    BY <1>4, <1>5, TickDoes

LEMMA CallsKeep ==
    ASSUME QuotingInv, Snapshot \/ CallMarket
    PROVE  QuotingInv' /\ RatchetKept
  <1>1. quote' \in Quotes /\ rp' = rp /\ kind' = kind /\ quiet' = quiet
    BY DEF Snapshot, CallMarket
  <1>2. PICK spike \in BOOLEAN, ask \in BOOLEAN :
           Asked((quote'[1] + quote'[2]) \div 2, spike, ask)
    BY DEF Snapshot, CallMarket
  <1>3. AccumInv' /\ KeeperInv' /\ RatchetKept
    BY <1>1, <1>2, TopOfBook, AskedKeeps
  <1> QED
    BY <1>1, <1>3 DEF QuotingInv

LEMMA FillKeeps ==
    ASSUME QuotingInv, CallFill
    PROVE  /\ QuotingInv'
           /\ accum.ratchet > 0 => accum'.ratchet \in 1..accum.ratchet
  <1>1. PICK price \in orders : accum' = RatchetDown(accum, price)
    BY DEF CallFill
  <1>2. /\ kind = "accum" /\ orders' = {} /\ reprieve' = Reprieved(FALSE, {})
        /\ kind' = kind /\ UNCHANGED <<rp, keeper, quiet>>
    BY DEF CallFill
  <1>3. price \in Int /\ price > 0 /\ IsAccumulator(accum)
    BY <1>2 DEF QuotingInv, AccumInv, ArePrices
  <1>4. /\ IsAccumulator(accum') /\ accum'.recovered = accum.recovered
        /\ accum.ratchet > 0 => accum'.ratchet \in 1..accum.ratchet
    BY <1>1, <1>3 DEF RatchetDown, IsAccumulator
  <1>5. AccumInv'
    BY <1>2, <1>4, NoOrders DEF QuotingInv
  <1> QED
    BY <1>2, <1>4, <1>5 DEF QuotingInv, KeeperInv

LEMMA HaltKeeps ==
    ASSUME QuotingInv, CallHalt
    PROVE  QuotingInv' /\ RatchetKept
  <1>1. /\ orders' = {} /\ reprieve' = Reprieved(FALSE, {})
        /\ kind' = kind /\ UNCHANGED <<rp, quiet>>
        /\ accum' = accum \/ accum' = Halted(accum)
        /\ keeper' = keeper \/ keeper' = MadeDormant(keeper)
    BY DEF CallHalt
  <1>2. /\ IsAccumulator(accum') /\ accum'.recovered = accum.recovered
        /\ accum'.ratchet = accum.ratchet
    BY <1>1 DEF Halted, IsAccumulator, QuotingInv, AccumInv
  <1>3. IsKeeper(keeper') /\ keeper'.left = keeper.left /\ (keeper.dormant => keeper'.dormant)
    BY <1>1 DEF MadeDormant, IsKeeper, QuotingInv, KeeperInv
  <1>4. AccumInv'
    BY <1>1, <1>2, NoOrders DEF QuotingInv
  <1>5. KeeperInv'
    BY <1>1, <1>3 DEF QuotingInv, KeeperInv
  <1> QED
    BY <1>1, <1>2, <1>4, <1>5 DEF QuotingInv, RatchetKept

LEMMA FlashKeeps ==
    ASSUME QuotingInv, CallFlash
    PROVE  QuotingInv' /\ RatchetKept
  <1>1. /\ kind = "depth" /\ kind' = kind /\ orders' = {}
        /\ UNCHANGED <<rp, accum, reprieve>>
        /\ keeper' = FlashReported(keeper)
        /\ quiet' = IF keeper'.dormant /\ ~keeper.dormant THEN DormantTime ELSE quiet
    BY DEF CallFlash
  <1>2. /\ IsKeeper(keeper')
        /\ keeper.dormant => keeper'.dormant /\ keeper'.left = keeper.left
        /\ keeper'.dormant /\ ~keeper.dormant => keeper'.left = DormantTime
        /\ ~keeper'.dormant => keeper'.left = keeper.left
    BY <1>1, FlashReportedFacts DEF QuotingInv, KeeperInv
  <1>3. KeeperInv'
    BY <1>1, <1>2, DepthKeeperAssumption DEF QuotingInv, KeeperInv, IsKeeper
  <1>4. AccumInv'
    BY <1>1 DEF QuotingInv, AccumInv, ArePrices, LadderWithinCollapse
  <1> QED
    BY <1>1, <1>3, <1>4 DEF QuotingInv, RatchetKept

LEMMA ResetAccumulator ==
    ASSUME NEW a, IsAccumulator(a)
    PROVE  IsAccumulator(AccumulatorReset(a)) /\ AccumulatorReset(a).recovered = a.recovered
  <1> DEFINE b == [a EXCEPT !.ratchet = 0]
             c == [b EXCEPT !.suspended = FALSE]
  <1>1. IsAccumulator(AccumulatorReset(a))
    <2>1. IsAccumulator(b)
      BY DEF IsAccumulator
    <2>2. IsAccumulator(c)
      BY <2>1 DEF IsAccumulator
    <2>3. AccumulatorReset(a) = [c EXCEPT !.trigger = 0]
      BY DEF AccumulatorReset
    <2> HIDE DEF b, c
    <2> QED
      BY <2>2, <2>3 DEF IsAccumulator
  <1>2. AccumulatorReset(a).recovered = a.recovered
    BY DEF AccumulatorReset, IsAccumulator
  <1> QED
    BY <1>1, <1>2

LEMMA ResetKeeper ==
    ASSUME NEW d, IsKeeper(d)
    PROVE  IsKeeper(DepthKeeperReset(d))
  BY DEF DepthKeeperReset, IsKeeper

LEMMA ResetKeeps ==
    ASSUME QuotingInv, CallReset
    PROVE  QuotingInv'
  <1>1. /\ orders' = {} /\ reprieve' = Reprieved(FALSE, {}) /\ quiet' = 0
        /\ kind' = kind /\ rp' = rp
        /\ accum' = accum \/ accum' = AccumulatorReset(accum)
        /\ keeper' = keeper \/ keeper' = DepthKeeperReset(keeper)
    BY DEF CallReset
  <1>2. IsAccumulator(accum') /\ accum'.recovered = accum.recovered
    BY <1>1, ResetAccumulator DEF QuotingInv, AccumInv
  <1>3. IsKeeper(keeper')
    BY <1>1, ResetKeeper DEF QuotingInv, KeeperInv
  <1>4. AccumInv'
    BY <1>1, <1>2, NoOrders DEF QuotingInv
  <1> QED
    BY <1>1, <1>3, <1>4 DEF QuotingInv, KeeperInv, IsKeeper

LEMMA TimeKeeps ==
    ASSUME QuotingInv, TimePasses
    PROVE  QuotingInv' /\ RatchetKept
  <1>1. /\ rp' = RefAged(rp) /\ keeper' = DepthAged(keeper)
        /\ quiet' = IF quiet > 0 THEN quiet - 1 ELSE 0
        /\ UNCHANGED <<kind, accum, orders, reprieve>>
    BY DEF TimePasses
  <1>2. IsRefPrice(rp')
    BY <1>1, AgedPrice DEF QuotingInv
  <1>3. /\ IsKeeper(keeper') /\ keeper'.dormant = keeper.dormant
        /\ keeper'.left = IF keeper.left > 0 THEN keeper.left - 1 ELSE 0
    BY <1>1, AgedKeeper DEF QuotingInv, KeeperInv
  <1>4. KeeperInv'
    BY <1>1, <1>3 DEF QuotingInv, KeeperInv, IsKeeper
  <1>5. AccumInv'
    BY <1>1 DEF QuotingInv, AccumInv, LadderWithinCollapse
  <1> QED
    BY <1>1, <1>2, <1>4, <1>5 DEF QuotingInv, RatchetKept

LEMMA QuotingStepKeeps == QuotingInv /\ [QuotingNext]_quotingVars => QuotingInv'
  <1> SUFFICES ASSUME QuotingInv, [QuotingNext]_quotingVars PROVE QuotingInv'
    OBVIOUS
  <1>1. CASE UNCHANGED quotingVars
    BY <1>1 DEF quotingVars, QuotingInv, AccumInv, KeeperInv, LadderWithinCollapse
  <1> QED
    BY <1>1, TickKeeps, CallsKeep, FillKeeps, HaltKeeps, FlashKeeps, ResetKeeps, TimeKeeps
       DEF QuotingNext

LEMMA QuotingInvariant == QuotingSpec => []QuotingInv
  BY QuotingStart, QuotingStepKeeps, PTL DEF QuotingSpec

-----------------------------------------------------------------------------
\* A ladder whose lowest rung is further above the price than the threshold is asked for
\* at most once after each recovery, as the first ladder computed after it: in the call
\* that found the accumulator recovered or, if a spike cut that call short, however long
\* after it.
THEOREM CollapseHeeded == QuotingSpec => []LadderWithinCollapse
  <1>1. QuotingInv => LadderWithinCollapse
    BY DEF QuotingInv, AccumInv
  <1> QED
    BY <1>1, QuotingInvariant, PTL

\* A storm of flashes silences the depth keeper for its whole cooldown: no halt, spike
\* or further flash, nor any price, wakes it early.
THEOREM StormSilences == QuotingSpec => []QuietAfterFlashStorm
  <1>1. QuotingInv => QuietAfterFlashStorm
    BY DEF QuotingInv, KeeperInv, QuietAfterFlashStorm
  <1> QED
    BY <1>1, QuotingInvariant, PTL

\* desired_orders(), on_fill() and on_state_change() in any order never lift a ratchet
\* that is set, and nothing but reset() unsets it.
THEOREM LadderOnlyFalls == QuotingSpec => RatchetNeverRises
  <1> DEFINE Falls == accum.ratchet > 0 => /\ accum'.ratchet <= accum.ratchet
                                           /\ accum'.ratchet > 0 \/ CallReset
  <1>1. QuotingInv /\ [QuotingNext]_quotingVars => [Falls]_quotingVars
    <2> SUFFICES ASSUME QuotingInv, QuotingNext PROVE Falls
      BY DEF quotingVars
    <2>1. accum.ratchet \in Int
      BY DEF QuotingInv, AccumInv, IsAccumulator
    <2>2. CASE Tick \/ Snapshot \/ CallMarket \/ CallHalt \/ CallFlash \/ TimePasses
      BY <2>1, <2>2, TickKeeps, CallsKeep, HaltKeeps, FlashKeeps, TimeKeeps DEF RatchetKept
    <2>3. CASE CallFill
      BY <2>1, <2>3, FillKeeps
    <2>4. CASE CallReset
      <3>1. accum' = accum \/ accum' = AccumulatorReset(accum)
        BY <2>4 DEF CallReset
      <3>2. accum'.ratchet = accum.ratchet \/ accum'.ratchet = 0
        BY <3>1 DEF AccumulatorReset, QuotingInv, AccumInv, IsAccumulator
      <3> QED
        BY <2>1, <2>4, <3>2
    <2> QED
      BY <2>2, <2>3, <2>4 DEF QuotingNext
  <1> QED
    BY <1>1, QuotingInvariant, PTL DEF QuotingSpec, RatchetNeverRises

\* Over a market that is not crossed, what is left of its top without the bot's own
\* orders has its mid, or its only side, between the best bid and ask.
LEMMA MidInside ==
    ASSUME NEW b \in Nat \ {0}, NEW a \in Nat \ {0}, b <= a,
           NEW bid \in {0, b}, NEW ask \in {0, a}, MidWithoutOwn(bid, ask) # 0
    PROVE  b <= MidWithoutOwn(bid, ask) /\ MidWithoutOwn(bid, ask) <= a
  <1>1. CASE bid = b /\ ask = a
    <2>1. b <= (b + a) \div 2 /\ (b + a) \div 2 <= a
      OBVIOUS
    <2> QED
      BY <1>1, <2>1 DEF MidWithoutOwn
  <1>2. CASE bid = 0 /\ ask = a
    BY <1>2 DEF MidWithoutOwn
  <1>3. CASE bid = b /\ ask = 0
    BY <1>3 DEF MidWithoutOwn
  <1>4. CASE bid = 0 /\ ask = 0
    BY <1>4 DEF MidWithoutOwn
  <1> QED
    BY <1>1, <1>2, <1>3, <1>4

\* update() moves the reference price only to a price within the best bid and ask, own
\* orders at the top or not, in any market that is never crossed.
THEOREM PriceFromTheMarket ==
    ASSUME \A q \in Quotes : q[1] <= q[2]
    PROVE  QuotingSpec => RefInsideMarket
  <1> DEFINE Inside == rp'.ref # rp.ref => quote'[1] <= rp'.ref /\ rp'.ref <= quote'[2]
  <1>1. QuotingInv /\ [QuotingNext]_quotingVars => [Inside]_quotingVars
    <2> SUFFICES ASSUME QuotingInv, QuotingNext PROVE Inside
      BY DEF quotingVars
    <2>1. CASE Tick
      <3>1. PICK own \in SUBSET {1, 2} :
               LET top == [i \in {1, 2} |-> IF i \in own THEN 0 ELSE quote'[i]]
               IN  rp' = FlagRead(RefUpdated(rp, top[1], top[2]))
        BY <2>1, TickDoes DEF PriceTick
      <3> DEFINE bid == IF 1 \in own THEN 0 ELSE quote'[1]
                 ask == IF 2 \in own THEN 0 ELSE quote'[2]
      <3>2. /\ quote'[1] \in Nat \ {0} /\ quote'[2] \in Nat \ {0}
            /\ quote'[1] <= quote'[2]
        BY <2>1, TickDoes, TopOfBook DEF PriceTick
      <3>3. /\ bid \in {0, quote'[1]} /\ ask \in {0, quote'[2]}
            /\ bid \in Nat /\ ask \in Nat
        BY <3>2
      <3>4. rp' = FlagRead(RefUpdated(rp, bid, ask))
        BY <3>1
      <3> HIDE DEF bid, ask
      <3>5. rp'.ref = rp.ref \/ (rp'.ref = MidWithoutOwn(bid, ask) /\ rp'.ref # 0)
        BY <3>3, <3>4, UpdateFacts DEF QuotingInv
      <3> QED
        BY <3>2, <3>3, <3>5, MidInside
    <2>2. CASE TimePasses
      BY <2>2, AgedPrice DEF TimePasses, QuotingInv
    <2> QED
      BY <2>1, <2>2 DEF QuotingNext, Snapshot, CallMarket, CallFill, CallHalt, CallFlash,
         CallReset
  <1> QED
    BY <1>1, QuotingInvariant, PTL DEF QuotingSpec, RefInsideMarket

\* What update() and a look at the flag leave of the window: one mid more, if there is
\* a price, and the flag up if the flag was not and that mid is a jump.
LEMMA JumpSeen ==
    ASSUME NEW p, IsRefPrice(p), NEW bid \in Nat, NEW ask \in Nat, p.past # << >>
    PROVE  LET q == FlagRead(RefUpdated(p, bid, ask))
           IN  Len(q.past) > Len(p.past) /\ Jumped(q.past[1].mid, q.ref) => q.active \/ p.active
  <1> DEFINE mid == MidWithoutOwn(bid, ask)
             past == Append(p.past, [mid |-> mid, age |-> 0])
             hit == SpikeIn(past, mid) /\ ~p.active
             r == RefUpdated(p, bid, ask)
  <1>1. CASE mid = 0
    <2>1. FlagRead(r).past = p.past
      BY <1>1 DEF RefUpdated, FlagRead, IsRefPrice
    <2> QED
      BY <2>1 DEF IsRefPrice
  <1>2. CASE mid # 0
    <2>1. r = [ref |-> mid, past |-> past, active |-> p.active \/ hit,
               left |-> IF hit THEN SpikeQuiet ELSE p.left]
      BY <1>2 DEF RefUpdated
    <2>2. Len(past) > 1
      BY DEF IsRefPrice
    <2>3. Jumped(past[1].mid, mid) => SpikeIn(past, mid)
      BY <2>2 DEF SpikeIn
    <2>4. p.active \in BOOLEAN
      BY DEF IsRefPrice
    <2> HIDE DEF past, mid, r, hit
    <2>5. FlagRead(r).past = past /\ FlagRead(r).ref = mid
      BY <2>1 DEF FlagRead
    <2>6. CASE hit
      <3>1. r = [ref |-> mid, past |-> past, active |-> TRUE, left |-> SpikeQuiet]
        <4>1. (p.active \/ hit) = TRUE
          BY <2>6
        <4> QED
          BY <2>1, <2>6, <4>1
      <3>2. FlagRead(r).active
        <4>1. FlagRead(r) = [r EXCEPT !.active = r.active /\ r.left > 0]
          BY DEF FlagRead
        <4>2. (r.active /\ r.left > 0) = TRUE
          BY <3>1, RefPriceAssumption
        <4> QED
          BY <3>1, <4>1, <4>2
      <3> QED
        BY <3>2 DEF r
    <2>7. CASE ~hit
      BY <2>3, <2>5, <2>7 DEF r, hit
    <2> QED
      BY <2>6, <2>7
  <1> QED
    BY <1>1, <1>2

\* A jump from the oldest mid in the window is flagged by the update that sees it, at any
\* threshold, unless the flag of an earlier one was up at the last look.
THEOREM JumpsAreFlagged == QuotingSpec => JumpIsFlagged
  <1> DEFINE Flagged == Len(rp'.past) > Len(rp.past) /\ rp.past # << >>
                        /\ Jumped(rp'.past[1].mid, rp'.ref) => rp'.active \/ rp.active
  <1>1. QuotingInv /\ [QuotingNext]_quotingVars => [Flagged]_quotingVars
    <2> SUFFICES ASSUME QuotingInv, QuotingNext, rp.past # << >>,
                        Len(rp'.past) > Len(rp.past), Jumped(rp'.past[1].mid, rp'.ref)
                 PROVE  rp'.active \/ rp.active
      BY DEF quotingVars
    <2>1. Len(rp.past) \in Nat
      BY DEF QuotingInv, IsRefPrice
    <2>2. CASE Tick
      <3>1. PICK own \in SUBSET {1, 2} :
               LET top == [i \in {1, 2} |-> IF i \in own THEN 0 ELSE quote'[i]]
               IN  rp' = FlagRead(RefUpdated(rp, top[1], top[2]))
        BY <2>2, TickDoes DEF PriceTick
      <3> DEFINE bid == [i \in {1, 2} |-> IF i \in own THEN 0 ELSE quote'[i]][1]
                 ask == [i \in {1, 2} |-> IF i \in own THEN 0 ELSE quote'[i]][2]
      <3>2. bid \in Nat /\ ask \in Nat
        BY <2>2, TickDoes, TopOfBook DEF PriceTick
      <3>3. rp' = FlagRead(RefUpdated(rp, bid, ask))
        BY <3>1
      <3> HIDE DEF bid, ask
      <3> QED
        BY <3>2, <3>3, JumpSeen DEF QuotingInv
    <2>3. CASE TimePasses
      <3>1. Len(rp'.past) <= Len(rp.past) /\ IsRefPrice(rp')
        BY <2>3, AgedPrice DEF TimePasses, QuotingInv
      <3>2. Len(rp'.past) \in Nat
        BY <3>1 DEF IsRefPrice
      <3> QED
        BY <2>1, <3>1, <3>2
    <2>4. CASE rp' = rp
      BY <2>1, <2>4
    <2> QED
      BY <2>2, <2>3, <2>4 DEF QuotingNext, Snapshot, CallMarket, CallFill, CallHalt, CallFlash,
         CallReset
  <1> QED
    BY <1>1, QuotingInvariant, PTL DEF QuotingSpec, JumpIsFlagged
=============================================================================
