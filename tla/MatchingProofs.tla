--------------------------- MODULE MatchingProofs ---------------------------
(***************************************************************************)
(* What the matching loop leaves behind, for every value of its constants: *)
(* a book in which no two orders could trade, and accounts that are those  *)
(* of the abstract ledger and of the recorded trades.                      *)
(***************************************************************************)
EXTENDS MarketProofs, MarketLedger, Sums

USE SMTT(20), ZenonT(20)

-----------------------------------------------------------------------------
(* The matching loop leaves no crossed book behind.  The argument has two  *)
(* halves.  If the book is crossed, the place function finds a             *)
(* counterparty: a best order exists (a finite set of candidates has a     *)
(* minimum in price and age), it is at least as good as the crossing one,  *)
(* the search by id finds it again, and both orders have units.  And while *)
(* a command is matched, only the order being placed can be crossed,       *)
(* because the loop keeps placing the same order.                          *)

\* Among the resting orders of a side there is a best one.
LEMMA BestExists ==
    ASSUME TypeOK, NEW side \in Side, NEW item, Resting(side, item) # {}
    PROVE  \E i \in Resting(side, item) : i \in Best(side, item)
<1> DEFINE S == Resting(side, item)
           Key(i) == IF side = "SELL" THEN orderbook[i].unit_price
                                      ELSE MAX_UNIT_PRICE - orderbook[i].unit_price
           K == {Key(i) : i \in S}
<1>1. \A i \in S : i \in Position /\ i \in Nat
  BY BookType DEF Resting
<1>2. \A i \in S : orderbook[i].unit_price \in 1..MAX_UNIT_PRICE
  BY <1>1, BookType DEF OrderType
<1>3. \A i \in S : Key(i) \in Nat
  BY <1>2, MarketAssumption
<1>4. PICK m \in K : \A n \in K : m <= n
  <2>1. K \subseteq Nat /\ K # {}
    BY <1>3
  <2> HIDE DEF K
  <2> QED
    BY <2>1, NatMin, ZenonT(20)
<1>5. PICK b \in {i \in S : Key(i) = m} : \A n \in {i \in S : Key(i) = m} : b <= n
  <2> DEFINE F == {i \in S : Key(i) = m}
  <2>1. F \subseteq Nat /\ F # {}
    BY <1>1, <1>4
  <2> HIDE DEF F
  <2>2. \E b \in F : \A n \in F : b <= n
    BY <2>1, NatMin, ZenonT(20)
  <2> QED
    BY <2>2 DEF F
<1>6. ASSUME NEW j \in S PROVE Ahead(side, b, j)
  <2>1. Key(b) <= Key(j)
    BY <1>4, <1>5
  <2>2. Key(b) = Key(j) => b <= j
    BY <1>5
  <2>3. orderbook[b].unit_price \in Int /\ orderbook[j].unit_price \in Int
    BY <1>2, <1>5
  <2>4. CASE side = "SELL"
    BY <2>1, <2>2, <2>3, <2>4 DEF Ahead
  <2>5. CASE side = "BUY"
    BY MarketAssumption, <2>1, <2>2, <2>3, <2>5 DEF Ahead
  <2> QED
    BY <2>4, <2>5 DEF Side
<1> QED
  BY <1>5, <1>6 DEF Best

\* When no two orders share trader and id, an order that some resting order
\* crosses has a counterparty.
LEMMA CrossedIsPlaced ==
    ASSUME TypeOK, LiveOrdersHaveUnits, KeysDistinct, NEW side \in Side,
           NEW p \in Position, Live(p), orderbook[p].order_type = side,
           NEW j \in Resting(Opposite(side), orderbook[p].item),
           Acceptable(Opposite(side), j, orderbook[p].unit_price)
    PROVE  Counterparty(side, p) # {}
<1> DEFINE opp == Opposite(side)
           item == orderbook[p].item
           limit == orderbook[p].unit_price
<1>1. opp \in Side
  BY DEF Opposite, Side
<1>2. PICK b \in Resting(opp, item) : b \in Best(opp, item)
  BY <1>1, BestExists
<1>3. /\ b \in Position /\ j \in Position /\ Live(b)
      /\ orderbook[b].unit_price \in Int /\ orderbook[j].unit_price \in Int /\ limit \in Int
  BY <1>2, BookType DEF Resting, OrderType
<1>4. Acceptable(opp, b, limit)
  <2>1. Ahead(opp, b, j)
    BY <1>2 DEF Best
  <2> QED
    BY <1>3, <2>1 DEF Acceptable, Ahead
<1>5. b \in getBestOrder(opp, item, limit)
  <2>1. SameKey(b, b)
    BY <1>3 DEF SameKey
  <2>2. \A k \in DOMAIN orderbook : SameKey(b, k) => k = b
    BY <1>3, BookType DEF SameKey, KeysDistinct
  <2>3. b <= b
    BY <1>3 DEF Position
  <2> QED
    BY <1>2, <1>3, <1>4, <2>1, <2>2, <2>3, BookType DEF getBestOrder
<1>6. orderbook[p].quantity > 0 /\ orderbook[b].quantity > 0 /\ p # NULL
  BY <1>3, BookType DEF LiveOrdersHaveUnits, NULL
<1> QED
  BY <1>5, <1>6 DEF Counterparty

\* Only the order being placed can be crossed, and as long as nothing is
\* amended it is the order that main() holds in `order'.
CrossInv ==
    KeysDistinct =>
        /\ \A i, j \in Position : Crossed(i, j) => placing # Idle /\ placing.pos \in {i, j}
        /\ placing # Idle => /\ placing.pos = order /\ order \in Position
                             /\ placing.side = orderbook[order].order_type

\* Every step keeps it.
LEMMA CrossStep ==
    TypeOK /\ LiveOrdersHaveUnits /\ CrossInv /\ [Next]_vars => CrossInv'
<1> SUFFICES ASSUME TypeOK, LiveOrdersHaveUnits, CrossInv, [Next]_vars, KeysDistinct'
             PROVE  /\ \A i, j \in Position' :
                         Crossed(i, j)' => placing' # Idle /\ placing'.pos \in {i, j}
                    /\ placing' # Idle => /\ placing'.pos = order' /\ order' \in Position'
                                          /\ placing'.side = orderbook'[order'].order_type
  BY DEF CrossInv
<1> DEFINE Goal == /\ \A i, j \in Position' :
                         Crossed(i, j)' => placing' # Idle /\ placing'.pos \in {i, j}
                   /\ placing' # Idle => /\ placing'.pos = order' /\ order' \in Position'
                                         /\ placing'.side = orderbook'[order'].order_type
<1>b. /\ orderbook' \in Seq(OrderType) /\ Len(orderbook') >= Len(orderbook)
      /\ \A i \in Position : SameOrder(orderbook[i], orderbook'[i])
      /\ \A i \in Position : Live(i)' => Live(i)
  BY BookStep DEF Live
<1>p. \A i \in Position : i \in Position'
  BY <1>b, BookType DEF Position
<1>k. KeysDistinct
  BY <1>b, <1>p DEF KeysDistinct, SameOrder
<1>i. /\ \A i, j \in Position : Crossed(i, j) => placing # Idle /\ placing.pos \in {i, j}
      /\ placing # Idle => /\ placing.pos = order /\ order \in Position
                           /\ placing.side = orderbook[order].order_type
  BY <1>k DEF CrossInv
<1>c. \A i, j \in Position : Crossed(i, j)' => Crossed(i, j)
  BY <1>b DEF Crossed, SameOrder
<1>0. ASSUME Len(orderbook') = Len(orderbook), placing' = placing,
             order' = order \/ placing = Idle
      PROVE  Goal
  <2>1. Position' = Position
    BY <1>0 DEF Position
  <2> QED
    BY <1>0, <1>b, <1>c, <1>i, <2>1 DEF SameOrder
<1>1. ASSUME NEW t \in Trader, NEW side \in Side, NEW item \in Product, NEW id \in IdWord,
             NEW quantity \in QuantityWord, NEW price \in PriceWord,
             OrderReceived(t, side, id, item, quantity, price)
      PROVE  Goal
  <2> DEFINE n == Len(orderbook) + 1
  <2>1. Len(orderbook') = n /\ orderbook'[n] = newOrder(t, side, id, item, quantity, price)
    BY <1>1, OrderReceivedFacts
  <2>2. /\ placing = Idle /\ order' = n
        /\ placing' = [side |-> side, pos |-> n] /\ placing' # Idle
    BY <1>1, BookType DEF OrderReceived, StartPlacing, Idle, NULL
  <2>3. \A i \in Position' : i \in Position \/ i = n
    BY <2>1, BookType DEF Position
  <2>4. n \in Position' /\ orderbook'[n].order_type = side
    BY <2>1, BookType DEF Position, newOrder
  <2> HIDE DEF n
  <2> QED
    BY <1>c, <1>i, <2>2, <2>3, <2>4
<1>2. ASSUME NEW t \in Trader, NEW id \in IdWord,
             NEW quantity \in QuantityWord, NEW price \in PriceWord,
             AmendRequest(t, id, quantity, price)
      PROVE  FALSE
  <2> DEFINE n == Len(orderbook) + 1
  <2>1. PICK i \in Position :
          /\ orderbook[i].trader = t /\ orderbook[i].order_id = atoi(id)
          /\ Len(orderbook') = n
          /\ orderbook'[n] =
               newOrder(t, orderbook[i].order_type, id, orderbook[i].item, quantity, price)
    BY <1>2, AmendRequestFacts
  <2>2. orderbook'[n].trader = t /\ orderbook'[n].order_id = atoi(id)
    BY <2>1 DEF newOrder
  <2>3. orderbook'[i].trader = t /\ orderbook'[i].order_id = atoi(id)
    BY <1>b, <2>1 DEF SameOrder
  <2>4. n \in Position' /\ i \in Position' /\ i # n
    BY <1>p, <2>1, BookType DEF Position
  <2> HIDE DEF n
  <2> QED
    BY <2>2, <2>3, <2>4 DEF KeysDistinct
<1>3. ASSUME NEW t \in Trader, NEW id \in IdWord, CancelRequest(t, id) PROVE Goal
  <2>1. Len(orderbook') = Len(orderbook)
    BY <1>3, CancelRequestFacts
  <2> QED
    BY <1>3, <1>0, <2>1 DEF CancelRequest
<1>4. CASE PlaceOrder
  <2>1. PICK r \in Counterparty(placing.side, placing.pos) : Trade(placing.pos, r)
    BY <1>4 DEF PlaceOrder
  <2>2. Len(orderbook') = Len(orderbook)
    BY <1>4, <2>1, TradeFacts DEF PlaceOrder
  <2>3. placing # Idle /\ order' = order /\ placing' = [placing EXCEPT !.pos = order]
    BY <1>4 DEF PlaceOrder
  <2>4. placing' = placing
    <3>1. placing \in [side : Side, pos : 0..Len(orderbook)]
      BY <2>3 DEF TypeOK
    <3> QED
      BY <1>i, <2>3, <3>1
  <2> QED
    BY <1>0, <2>2, <2>3, <2>4
<1>5. CASE PlacingDone
  <2>1. orderbook' = orderbook /\ placing' = Idle /\ placing # Idle
        /\ Counterparty(placing.side, placing.pos) = {}
    BY <1>5 DEF PlacingDone, book
  <2>2. Position' = Position
    BY <2>1 DEF Position
  <2>3. ASSUME NEW i \in Position, NEW j \in Position, Crossed(i, j) PROVE FALSE
    <3>1. placing.pos \in {i, j} /\ placing.side = orderbook[placing.pos].order_type
      BY <1>i, <2>1, <2>3
    <3>2. CASE placing.pos = i
      <4>1. j \in Resting("SELL", orderbook[i].item) /\ Live(i) /\ orderbook[i].order_type = "BUY"
        BY <2>3, BookType DEF Crossed, Resting
      <4>2. Acceptable("SELL", j, orderbook[i].unit_price)
        BY <2>3, BookType DEF Crossed, Acceptable, OrderType
      <4>3. "SELL" = Opposite("BUY") /\ "BUY" \in Side
        BY DEF Opposite, Side
      <4>4. Counterparty("BUY", i) # {}
        BY <1>k, <4>1, <4>2, <4>3, CrossedIsPlaced
      <4> QED
        BY <2>1, <3>1, <3>2, <4>1, <4>4
    <3>3. CASE placing.pos = j
      <4>1. i \in Resting("BUY", orderbook[j].item) /\ Live(j) /\ orderbook[j].order_type = "SELL"
        BY <2>3, BookType DEF Crossed, Resting
      <4>2. Acceptable("BUY", i, orderbook[j].unit_price)
        BY <2>3 DEF Crossed, Acceptable
      <4>3. "BUY" = Opposite("SELL") /\ "SELL" \in Side
        BY DEF Opposite, Side
      <4>4. Counterparty("SELL", j) # {}
        BY <1>k, <4>1, <4>2, <4>3, CrossedIsPlaced
      <4> QED
        BY <2>1, <3>1, <3>3, <4>1, <4>4
    <3> QED
      BY <3>1, <3>2, <3>3
  <2> QED
    BY <1>c, <2>1, <2>2, <2>3
<1>6. ASSUME NEW t \in Trader, Command(t) PROVE Goal
  <2>1. ASSUME NEW id \in IdWord, NEW quantity \in QuantityWord, NEW price \in PriceWord,
               OrderRejected(t, id, quantity, price)
        PROVE  Goal
    <3>1. orderbook' = orderbook /\ placing' = placing /\ placing = Idle
      BY <2>1 DEF OrderRejected, book
    <3> HIDE DEF Goal
    <3> QED
      BY <1>0, <3>1
  <2>2. ASSUME UNCHANGED <<book, ledger, order, placing>> PROVE Goal
    <3>1. orderbook' = orderbook /\ placing' = placing /\ order' = order
      BY <2>2 DEF book
    <3> HIDE DEF Goal
    <3> QED
      BY <1>0, <3>1
  <2>3. ASSUME NEW id \in IdWord, NEW quantity \in QuantityWord, NEW price \in PriceWord,
               AmendRejected(t, id, quantity, price)
        PROVE  Goal
    BY ONLY <2>2, <2>3 DEF AmendRejected
  <2>4. ASSUME NEW id \in IdWord, CancelRejected(t, id) PROVE Goal
    BY ONLY <2>2, <2>4 DEF CancelRejected
  <2>5. ASSUME InvalidMessage(t) PROVE Goal
    BY ONLY <2>2, <2>5 DEF InvalidMessage
  <2> HIDE DEF Goal
  <2> QED
    BY ONLY t \in Trader, <1>6, <1>1, <1>2, <1>3, <2>1, <2>3, <2>4, <2>5, ZenonT(20) DEF Command
<1>7. CASE UNCHANGED vars
  BY <1>0, <1>7 DEF vars
<1> QED
  BY <1>4, <1>5, <1>6, <1>7 DEF Next

\* Between commands no two live orders could trade, unless an id was reused
\* or an order amended.
THEOREM Uncrossed == Spec => []BookUncrossedWithoutAmend
<1>1. Init => CrossInv
  BY DEF Init, CrossInv, Position
<1>2. CrossInv => BookUncrossedWithoutAmend
  BY DEF CrossInv, BookUncrossedWithoutAmend, BookUncrossed
<1> QED
  BY <1>1, <1>2, TypeCorrect, LiveUnits, CrossStep, PTL DEF Spec
-----------------------------------------------------------------------------
(* The matching loop makes progress.  An iteration that trades closes an   *)
(* order for good and makes none live, so it leaves fewer live orders; and *)
(* no command reopens an order, so every trade there ever was has closed   *)
(* one of its own.                                                         *)

\* An iteration that trades takes at least one order out of the live ones.
LEMMA FewerLive ==
    ASSUME TypeOK, PlaceOrder
    PROVE  Position' = Position /\ LiveOrders' \subseteq LiveOrders /\ LiveOrders' # LiveOrders
<1>1. PICK r \in Position, amount \in Nat :
        /\ placing.pos \in Position /\ Live(placing.pos) /\ Live(r)
        /\ Len(orderbook') = Len(orderbook)
        /\ \E i \in {placing.pos, r} : orderbook'[i].completed
        /\ \A i \in Position \ {placing.pos, r} : orderbook'[i] = orderbook[i]
  BY PlaceOrderFacts, ZenonT(60)
<1>2. Position' = Position
  <2>1. Len(orderbook') = Len(orderbook)
    BY <1>1
  <2> QED
    BY <2>1 DEF Position
<1>3. \A i \in Position : Live(i)' => Live(i)
  BY <1>1 DEF Live
<1>4. \E i \in Position : Live(i) /\ ~Live(i)'
  BY <1>1 DEF Live
<1> QED
  BY <1>2, <1>3, <1>4 DEF LiveOrders

\* The live orders and the closed ones are finitely many.
LEMMA BookFinite ==
    ASSUME TypeOK
    PROVE  /\ IsFiniteSet(Position) /\ IsFiniteSet(LiveOrders)
           /\ IsFiniteSet(Position \ LiveOrders)
           /\ Cardinality(LiveOrders) \in Nat /\ Cardinality(Position \ LiveOrders) \in Nat
<1>1. IsFiniteSet(Position)
  BY BookType, FS_Interval DEF Position
<1>2. LiveOrders \subseteq Position /\ Position \ LiveOrders \subseteq Position
  BY DEF LiveOrders
<1>3. IsFiniteSet(LiveOrders) /\ IsFiniteSet(Position \ LiveOrders)
  BY <1>1, <1>2, FS_Subset
<1> QED
  BY <1>1, <1>3, FS_CardinalityType

\* LoopShrinksBook: an iteration of the matching loop that trades leaves fewer
\* live orders, whatever order the loop places.
THEOREM LoopProgress == Spec => LoopShrinksBook
<1>1. TypeOK /\ [Next]_vars =>
        [PlaceOrder => /\ LiveOrders' \subseteq LiveOrders
                       /\ Cardinality(LiveOrders') < Cardinality(LiveOrders)]_vars
  <2> SUFFICES ASSUME TypeOK, [Next]_vars, PlaceOrder
               PROVE  /\ LiveOrders' \subseteq LiveOrders
                      /\ Cardinality(LiveOrders') < Cardinality(LiveOrders)
    OBVIOUS
  <2>1. LiveOrders' \subseteq LiveOrders /\ LiveOrders' # LiveOrders
    BY FewerLive
  <2>2. IsFiniteSet(LiveOrders) /\ Cardinality(LiveOrders) \in Nat
    BY BookFinite
  <2>3. /\ IsFiniteSet(LiveOrders') /\ Cardinality(LiveOrders') <= Cardinality(LiveOrders)
        /\ Cardinality(LiveOrders') # Cardinality(LiveOrders)
    BY <2>1, <2>2, FS_Subset
  <2>4. Cardinality(LiveOrders') \in Nat
    BY <2>3, FS_CardinalityType
  <2> QED
    BY <2>1, <2>2, <2>3, <2>4
<1> QED
  BY <1>1, TypeCorrect, PTL DEF Spec, LoopShrinksBook

\* Every step keeps the trades within the closed orders.
LEMMA TradesStep == TypeOK /\ TradesBounded /\ [Next]_vars => TradesBounded'
<1> SUFFICES ASSUME TypeOK, TradesBounded, [Next]_vars PROVE TradesBounded'
  OBVIOUS
<1> DEFINE closed == Position \ LiveOrders
<1>1. IsFiniteSet(closed') /\ Cardinality(closed') \in Nat
  <2>1. orderbook' \in Seq(OrderType)
    BY BookStep
  <2>2. IsFiniteSet(Position')
    BY <2>1, FS_Interval DEF Position
  <2>3. closed' \subseteq Position'
    OBVIOUS
  <2> HIDE DEF closed
  <2>4. IsFiniteSet(closed')
    BY <2>2, <2>3, FS_Subset
  <2> QED
    BY <2>4, FS_CardinalityType
<1>2. IsFiniteSet(closed) /\ Cardinality(closed) \in Nat
  BY BookFinite
<1>3. completed_trades \in Seq(TradeType) /\ Len(completed_trades) \in Nat
  BY DEF TypeOK
<1>4. Len(completed_trades) <= Cardinality(closed)
  BY DEF TradesBounded
<1>5. CASE UNCHANGED completed_trades
  <2>1. /\ Len(orderbook') >= Len(orderbook) /\ orderbook' \in Seq(OrderType)
        /\ \A i \in Position : ~Live(i) => orderbook'[i] = orderbook[i]
    BY BookStep
  <2>2. Position \subseteq Position'
    BY <2>1, BookType DEF Position
  <2>3. closed \subseteq closed'
    BY <2>1, <2>2 DEF LiveOrders, Live
  <2> HIDE DEF closed
  <2>4. Cardinality(closed) <= Cardinality(closed')
    BY <1>1, <2>3, FS_Subset
  <2>5. Len(completed_trades') <= Cardinality(closed')
    BY <1>1, <1>2, <1>3, <1>4, <1>5, <2>4
  <2> QED
    BY <2>5 DEF TradesBounded, closed
<1>6. CASE PlaceOrder
  <2>1. Position' = Position /\ LiveOrders' \subseteq LiveOrders /\ LiveOrders' # LiveOrders
    BY <1>6, FewerLive
  <2>2. LiveOrders \subseteq Position
    BY DEF LiveOrders
  <2>3. closed \subseteq closed' /\ closed # closed'
    BY <2>1, <2>2
  <2>4. \E trade : completed_trades' = Append(completed_trades, trade)
    BY <1>6, PlaceOrderFacts
  <2>5. Len(completed_trades') = Len(completed_trades) + 1
    BY <1>3, <2>4
  <2> HIDE DEF closed
  <2>6. Cardinality(closed) <= Cardinality(closed') /\ Cardinality(closed) # Cardinality(closed')
    BY <1>1, <2>3, FS_Subset
  <2>7. Len(completed_trades') <= Cardinality(closed')
    BY <1>1, <1>2, <1>3, <1>4, <2>5, <2>6
  <2> QED
    BY <2>7 DEF TradesBounded, closed
<1> QED
  <2>1. PlaceOrder \/ UNCHANGED completed_trades
    BY DEF Next, Command, OrderReceived, OrderRejected, AmendRequest, AmendRejected,
           CancelRequest, CancelRejected, InvalidMessage, PlacingDone, ledger, vars
  <2> QED
    BY <1>5, <1>6, <2>1

\* TradesBounded: over all commands there are no more trades than orders that
\* were closed, so never more than orders that were accepted.
THEOREM TradesAreFew == Spec => []TradesBounded
<1>1. Init => TradesBounded
  <2> SUFFICES ASSUME Init PROVE TradesBounded
    OBVIOUS
  <2>1. TypeOK
    BY TypeInit
  <2>2. Len(completed_trades) = 0
    BY DEF Init
  <2> QED
    BY <2>1, <2>2, BookFinite DEF TradesBounded
<1> QED
  BY <1>1, TradesStep, TypeCorrect, PTL DEF Spec

-----------------------------------------------------------------------------
(* The matching engine implements the abstract ledger: the accounts start   *)
(* empty, an iteration of the matching loop that trades settles one trade,  *)
(* and every other step leaves the accounts alone.                          *)

\* The accounting of one trade is a settlement of the ledger.
LEMMA TradeSettles ==
    ASSUME TypeOK, placing # Idle,
           NEW r \in Counterparty(placing.side, placing.pos), Trade(placing.pos, r)
    PROVE  L!SettleAny
<1> DEFINE p == placing.pos
           amount == Smaller(orderbook[p].quantity, orderbook[r].quantity)
           price == orderbook[r].unit_price
           fee == transaction_tax(amount, price)
           b == BuyerOf(p, r)
           s == SellerOf(p, r)
           c == ChargedOf(p, r)
<1>1. /\ p \in Position /\ r \in Position
      /\ orderbook[p] \in OrderType /\ orderbook[r] \in OrderType
      /\ orderbook[p].quantity > 0 /\ orderbook[r].quantity > 0
  BY CounterpartyFacts
<1>2. amount \in 1..MAX_QUANTITY /\ price \in 1..MAX_UNIT_PRICE
  <2>1. /\ orderbook[p].quantity \in 1..MAX_QUANTITY /\ orderbook[r].quantity \in 1..MAX_QUANTITY
        /\ price \in 1..MAX_UNIT_PRICE
    BY <1>1 DEF OrderType
  <2> QED
    BY <2>1, ZenonT(20) DEF Smaller
<1>3. b \in {p, r} /\ s \in {p, r} /\ c \in {b, s}
  BY DEF BuyerOf, SellerOf, ChargedOf
<1>4. \A i \in {p, r} : orderbook[i].trader \in Trader /\ orderbook[i].item \in Product
  BY <1>1 DEF OrderType
<1>5. /\ transaction_fee' = transaction_fee + fee
      /\ inventory_quantity' = buy_sell_units(b, s, amount)
      /\ bank' = tax(buy_sell_bank(b, s, amount * price), c, fee)
  BY ZenonT(60) DEF Trade
<1>6. fee = L!OnePercent(amount * price)
  BY DEF transaction_tax, L!OnePercent
<1> HIDE DEF amount, price, fee, b, s, c, p
<1> DEFINE bt == orderbook[b].trader  bi == orderbook[b].item
           st == orderbook[s].trader  si == orderbook[s].item
           value == amount * price
           paid == L!Move(L!Move(bank, bt, bi, -value), st, si, value)
<1>7. inventory_quantity' =
        L!Move(L!Move(inventory_quantity, bt, bi, amount), st, si, -amount)
  BY <1>5 DEF buy_sell_units, Credit, L!Move
<1>8. bank' \in {L!Move(paid, bt, bi, -fee), L!Move(paid, st, si, -fee)}
  <2>1. bank' = L!Move(paid, orderbook[c].trader, orderbook[c].item, -fee)
    BY <1>5, ZenonT(20) DEF buy_sell_bank, tax, Credit, L!Move
  <2> HIDE DEF paid
  <2> QED
    BY <1>3, <2>1
<1>9. bt \in Trader /\ st \in Trader /\ bi \in Product /\ si \in Product
  BY <1>3, <1>4
<1> HIDE DEF bt, bi, st, si
<1>10. L!Settle(bt, bi, st, si, amount)
  BY <1>2, <1>5, <1>6, <1>7, <1>8 DEF L!Settle
<1> QED
  BY <1>2, <1>9, <1>10 DEF L!SettleAny

\* A step of the matching engine is a step of the ledger.
LEMMA LedgerStep == TypeOK /\ [Next]_vars => [L!SettleAny]_(L!accounts)
<1> SUFFICES ASSUME TypeOK, [Next]_vars PROVE L!SettleAny \/ UNCHANGED L!accounts
  OBVIOUS
<1>1. CASE PlaceOrder
  BY <1>1, TradeSettles DEF PlaceOrder
<1>2. CASE ~PlaceOrder
  <2>1. UNCHANGED ledger
    BY <1>2 DEF Next, Command, OrderReceived, OrderRejected, AmendRequest, AmendRejected,
                CancelRequest, CancelRejected, InvalidMessage, PlacingDone, ledger, vars
  <2> QED
    BY <2>1 DEF ledger, L!accounts
<1> QED
  BY <1>1, <1>2

\* The matching engine implements the ledger, for any number of traders,
\* products and orders, self-trades, reused ids and amendments included.
THEOREM LedgerImplemented == Spec => ImplementsLedger
<1>1. Init => L!Start
  BY DEF Init, L!Start
<1> QED
  BY <1>1, LedgerStep, TypeCorrect, PTL DEF Spec, ImplementsLedger, L!LedgerSpec
-----------------------------------------------------------------------------
(* No money is made or lost, because settling a trade moves it: the total   *)
(* over all accounts changes by what is moved into one of them.             *)

Accounts == [Trader -> [Product -> Int]]

\* What the traders hold is a number, ...
LEMMA TotalType ==
    ASSUME NEW account \in Accounts
    PROVE  /\ Total(account) \in Int
           /\ \A t \in Trader : SumFunction(account[t]) \in Int
<1>1. ASSUME NEW t \in Trader PROVE SumFunction(account[t]) \in Int
  <2> DEFINE f == account[t]
  <2>1. DOMAIN f = Product /\ \A p \in Product : f[p] \in Int
    BY <1>1 DEF Accounts
  <2> HIDE DEF f
  <2>2. SumFunction(f) \in Int
    BY <2>1, LedgerAssumption, SumType DEF SumFunction
  <2> QED
    BY <2>2 DEF f
<1> DEFINE g == [t \in Trader |-> SumFunction(account[t])]
<1>2. DOMAIN g = Trader /\ \A t \in Trader : g[t] \in Int
  BY <1>1
<1>3. Total(account) = SumFunction(g)
  BY DEF Total
<1> HIDE DEF g
<1>4. SumFunction(g) \in Int
  BY <1>2, LedgerAssumption, SumType DEF SumFunction
<1> QED
  BY <1>1, <1>3, <1>4

\* ... and it changes by what is moved into one of the accounts.
LEMMA TotalMove ==
    ASSUME NEW account \in Accounts, NEW t \in Trader, NEW item \in Product, NEW amount \in Int
    PROVE  /\ L!Move(account, t, item, amount) \in Accounts
           /\ Total(L!Move(account, t, item, amount)) = Total(account) + amount
<1> DEFINE moved == L!Move(account, t, item, amount)
<1>1. /\ moved \in Accounts
      /\ moved[t][item] = account[t][item] + amount
      /\ \A p \in Product \ {item} : moved[t][p] = account[t][p]
      /\ \A u \in Trader \ {t} : moved[u] = account[u]
  BY DEF L!Move, Accounts
<1> HIDE DEF moved
<1>2. SumFunction(moved[t]) = SumFunction(account[t]) + amount
  <2> DEFINE f == account[t]
             h == moved[t]
  <2>1. DOMAIN f = Product /\ DOMAIN h = Product /\ \A p \in Product : f[p] \in Int
    BY <1>1 DEF Accounts
  <2>2. h[item] = f[item] + amount /\ \A p \in Product \ {item} : h[p] = f[p]
    BY <1>1
  <2> HIDE DEF f, h
  <2>3. SumFunctionOnSet(h, Product) = SumFunctionOnSet(f, Product) + amount
    BY <2>1, <2>2, LedgerAssumption, SumChange
  <2> QED
    BY <2>1, <2>3 DEF SumFunction, f, h
<1> DEFINE F == [u \in Trader |-> SumFunction(account[u])]
           H == [u \in Trader |-> SumFunction(moved[u])]
<1>3. /\ DOMAIN F = Trader /\ DOMAIN H = Trader /\ \A u \in Trader : F[u] \in Int
      /\ H[t] = F[t] + amount
      /\ \A u \in Trader \ {t} : H[u] = F[u]
  BY <1>1, <1>2, TotalType
<1>4. Total(account) = SumFunction(F) /\ Total(moved) = SumFunction(H)
  BY DEF Total
<1> HIDE DEF F, H
<1>5. SumFunctionOnSet(H, Trader) = SumFunctionOnSet(F, Trader) + amount
  BY <1>3, LedgerAssumption, SumChange
<1>6. Total(moved) = Total(account) + amount
  BY <1>3, <1>4, <1>5 DEF SumFunction
<1> QED
  BY <1>1, <1>6 DEF moved

\* Nobody holds anything at the start.
LEMMA TotalStart == Total([t \in Trader |-> [p \in Product |-> 0]]) = 0
<1> DEFINE nothing == [p \in Product |-> 0]
           none == [t \in Trader |-> nothing]
           g == [t \in Trader |-> SumFunction(none[t])]
<1>1. SumFunction(nothing) = 0
  <2>1. DOMAIN nothing = Product /\ \A p \in Product : nothing[p] = 0
    OBVIOUS
  <2> HIDE DEF nothing
  <2> QED
    BY <2>1, LedgerAssumption, SumOfZeros DEF SumFunction
<1> HIDE DEF nothing
<1>2. DOMAIN g = Trader /\ \A t \in Trader : g[t] = 0
  BY <1>1
<1>3. Total(none) = SumFunction(g)
  BY DEF Total
<1> HIDE DEF g, none
<1>4. Total(none) = 0
  BY <1>2, <1>3, LedgerAssumption, SumOfZeros DEF SumFunction
<1> QED
  BY <1>4 DEF none, nothing

\* Settling a trade makes no money: the seller gets what the buyer pays, and
\* the exchange what one of them is charged.
LEMMA SettleConserves ==
    ASSUME TypeOK, MoneyConserved, L!SettleAny
    PROVE  MoneyConserved'
<1>1. PICK b \in Trader, s \in Trader, bi \in Product, si \in Product, quantity \in 1..MAX_QUANTITY :
        L!Settle(b, bi, s, si, quantity)
  BY DEF L!SettleAny
<1>2. PICK price \in 1..MAX_UNIT_PRICE :
        LET value == quantity * price
            paid  == L!Move(L!Move(bank, b, bi, -value), s, si, value)
            fee   == L!OnePercent(value)
        IN  /\ bank' \in {L!Move(paid, b, bi, -fee), L!Move(paid, s, si, -fee)}
            /\ transaction_fee' = transaction_fee + fee
  BY <1>1 DEF L!Settle
<1> DEFINE value == quantity * price
           fee   == L!OnePercent(value)
           owed  == L!Move(bank, b, bi, -value)
           paid  == L!Move(owed, s, si, value)
<1>3. quantity \in Nat /\ price \in Nat
  OBVIOUS
<1>4. value \in Nat
  BY <1>3, ProductNat, ZenonT(20)
<1>5. fee \in Int
  <2> HIDE DEF value
  <2> QED
    BY <1>4 DEF L!OnePercent
<1>6. bank \in Accounts /\ transaction_fee \in Int /\ Total(bank) \in Int
  BY TotalType DEF TypeOK, Accounts
<1>7. /\ bank' = L!Move(paid, b, bi, -fee) \/ bank' = L!Move(paid, s, si, -fee)
      /\ transaction_fee' = transaction_fee + fee
  BY <1>2, ZenonT(20)
<1> HIDE DEF value, fee
<1>8. -value \in Int /\ -fee \in Int /\ value \in Int
  BY <1>4, <1>5
<1>9. owed \in Accounts /\ Total(owed) = Total(bank) + -value
  BY <1>6, <1>8, TotalMove, ZenonT(20)
<1> HIDE DEF owed
<1>10. paid \in Accounts /\ Total(paid) = Total(owed) + value
  BY <1>8, <1>9, TotalMove, ZenonT(20)
<1> HIDE DEF paid
<1>11. Total(bank') = Total(paid) + -fee
  <2>1. /\ Total(L!Move(paid, b, bi, -fee)) = Total(paid) + -fee
        /\ Total(L!Move(paid, s, si, -fee)) = Total(paid) + -fee
    BY <1>8, <1>10, TotalMove, ZenonT(20)
  <2> QED
    BY <1>7, <2>1
<1>12. Total(bank) + transaction_fee = 0
  BY DEF MoneyConserved
<1>13. Total(bank') + transaction_fee' = 0
  BY ONLY <1>4, <1>5, <1>6, <1>7, <1>9, <1>10, <1>11, <1>12
<1> QED
  BY <1>13 DEF MoneyConserved, Total

\* Neither does any other step.
LEMMA MoneyStep == TypeOK /\ MoneyConserved /\ [Next]_vars => MoneyConserved'
<1> SUFFICES ASSUME TypeOK, MoneyConserved, [Next]_vars PROVE MoneyConserved'
  OBVIOUS
<1>1. L!SettleAny \/ UNCHANGED L!accounts
  BY LedgerStep
<1>2. CASE UNCHANGED L!accounts
  BY <1>2 DEF L!accounts, MoneyConserved, Total
<1> QED
  BY <1>1, <1>2, SettleConserves

\* Nobody starts with any money.
LEMMA MoneyInit == Init => MoneyConserved
<1> SUFFICES ASSUME Init PROVE Total(bank) + transaction_fee = 0
  BY DEF MoneyConserved
<1> QED
  BY TotalStart DEF Init

\* What the banks of all traders miss is what the exchange collected
\* (pe_exchange.c:740), for any number of traders, products and trades.
THEOREM NoMoneyMade == Spec => []MoneyConserved
  BY MoneyInit, MoneyStep, TypeCorrect, PTL DEF Spec

-----------------------------------------------------------------------------
(* A trader holds what its recorded trades add up to.  A trade refers to   *)
(* two positions of the book, and the orders there keep their trader, side *)
(* and item whatever is done to them later; so the units of an old trade   *)
(* stay what they were, and a new trade adds the units that it moves.      *)

\* What UnitsOf reads of a book.
UnitsIn(bk, trade, t, p) ==
    LET a == trade.incoming_order
        b == trade.order_in_book
        q == trade.transaction_quantity
        Buyer == IF bk[a].order_type = "BUY" THEN a ELSE b
        Seller == IF bk[a].order_type = "BUY" THEN b ELSE a
    IN  (IF bk[Buyer].trader = t /\ bk[Buyer].item = p THEN q ELSE 0)
        + (IF bk[Seller].trader = t /\ bk[Seller].item = p THEN -q ELSE 0)

SumUnits(bk, trades, t, p) == SumFunction([n \in DOMAIN trades |-> UnitsIn(bk, trades[n], t, p)])

SumTax(trades) == SumFunction([n \in DOMAIN trades |-> trades[n].tax])

Matches(inventory, fee, bk, trades) ==
    /\ \A t \in Trader, p \in Product : inventory[t][p] = SumUnits(bk, trades, t, p)
    /\ fee = SumTax(trades)

\* The units of a trade are a number.
LEMMA UnitsType ==
    ASSUME NEW bk, NEW trade \in TradeType, NEW t, NEW p
    PROVE  UnitsIn(bk, trade, t, p) \in Int
  BY DEF UnitsIn, TradeType

\* One more trade adds its units and its tax.
LEMMA OneMoreTrade ==
    ASSUME NEW bk, NEW trades \in Seq(TradeType), NEW trade \in TradeType
    PROVE  /\ \A t, p : SumUnits(bk, Append(trades, trade), t, p) =
                          SumUnits(bk, trades, t, p) + UnitsIn(bk, trade, t, p)
           /\ SumTax(Append(trades, trade)) = SumTax(trades) + trade.tax
<1> DEFINE longer == Append(trades, trade)
           n == Len(trades)
<1>1. /\ n \in Nat /\ DOMAIN trades = 1..n /\ DOMAIN longer = 1..(n + 1)
      /\ \A k \in 1..n : longer[k] = trades[k] /\ trades[k] \in TradeType
      /\ longer[n + 1] = trade
  OBVIOUS
<1> HIDE DEF longer, n
<1>2. ASSUME NEW t, NEW p
      PROVE  SumUnits(bk, longer, t, p) = SumUnits(bk, trades, t, p) + UnitsIn(bk, trade, t, p)
  <2> DEFINE f == [k \in DOMAIN trades |-> UnitsIn(bk, trades[k], t, p)]
             h == [k \in DOMAIN longer |-> UnitsIn(bk, longer[k], t, p)]
  <2>1. /\ DOMAIN f = 1..n /\ DOMAIN h = 1..(n + 1)
        /\ \A k \in 1..n : f[k] \in Int /\ h[k] = f[k]
        /\ h[n + 1] = UnitsIn(bk, trade, t, p) /\ h[n + 1] \in Int
    BY <1>1, UnitsType
  <2>2. SumUnits(bk, longer, t, p) = SumFunction(h) /\ SumUnits(bk, trades, t, p) = SumFunction(f)
    BY DEF SumUnits
  <2> HIDE DEF f, h
  <2>3. SumFunction(h) = SumFunction(f) + h[n + 1]
    BY <1>1, <2>1, SumLonger
  <2> QED
    BY <2>1, <2>2, <2>3
<1>3. SumTax(longer) = SumTax(trades) + trade.tax
  <2> DEFINE f == [k \in DOMAIN trades |-> trades[k].tax]
             h == [k \in DOMAIN longer |-> longer[k].tax]
  <2>1. /\ DOMAIN f = 1..n /\ DOMAIN h = 1..(n + 1)
        /\ \A k \in 1..n : f[k] \in Int /\ h[k] = f[k]
        /\ h[n + 1] = trade.tax /\ h[n + 1] \in Int
    BY <1>1 DEF TradeType
  <2>2. SumTax(longer) = SumFunction(h) /\ SumTax(trades) = SumFunction(f)
    BY DEF SumTax
  <2> HIDE DEF f, h
  <2>3. SumFunction(h) = SumFunction(f) + h[n + 1]
    BY <1>1, <2>1, SumLonger
  <2> QED
    BY <2>1, <2>2, <2>3
<1> QED
  BY <1>2, <1>3 DEF longer

\* The orders of a trade are in the book.
InBook(trade, bk) ==
    trade.incoming_order \in 1..Len(bk) /\ trade.order_in_book \in 1..Len(bk)

AllInBook(trades, bk) == \A n \in DOMAIN trades : InBook(trades[n], bk)

\* The orders of a book keep their identity in a later one.
KeepsOrders(bk, later) == \A i \in 1..Len(bk) : SameOrder(bk[i], later[i])

\* The book only grows, so trades stay in it.
LEMMA StaysInBook ==
    ASSUME NEW bk, NEW later, NEW trades, AllInBook(trades, bk),
           Len(bk) \in Nat, Len(later) \in Nat, Len(later) >= Len(bk)
    PROVE  AllInBook(trades, later)
<1>1. \A i \in 1..Len(bk) : i \in 1..Len(later)
  OBVIOUS
<1> QED
  BY <1>1, ZenonT(20) DEF AllInBook, InBook

\* What old trades add up to does not depend on what becomes of their orders.
LEMMA OldTrades ==
    ASSUME NEW bk, NEW later, NEW trades \in Seq(TradeType),
           AllInBook(trades, bk), KeepsOrders(bk, later), NEW t, NEW p
    PROVE  SumUnits(later, trades, t, p) = SumUnits(bk, trades, t, p)
<1>1. \A n \in DOMAIN trades : UnitsIn(later, trades[n], t, p) = UnitsIn(bk, trades[n], t, p)
  BY DEF UnitsIn, AllInBook, InBook, KeepsOrders, SameOrder
<1>2. [n \in DOMAIN trades |-> UnitsIn(later, trades[n], t, p)]
        = [n \in DOMAIN trades |-> UnitsIn(bk, trades[n], t, p)]
  BY <1>1, ZenonT(20)
<1> QED
  BY <1>2, ZenonT(20) DEF SumUnits

\* buy(), sell() and tax() change one holding of one trader.
LEMMA CreditAt ==
    ASSUME NEW account \in Accounts, NEW t \in Trader, NEW item \in Product, NEW amount \in Int,
           NEW u \in Trader, NEW p \in Product
    PROVE  Credit(account, t, item, amount)[u][p]
             = account[u][p] + (IF t = u /\ item = p THEN amount ELSE 0)
  BY DEF Credit, Accounts

\* What a trader holds after buy() and sell() of a trade.
LEMMA TwoCredits ==
    ASSUME NEW account \in Accounts, NEW bt \in Trader, NEW bi \in Product,
           NEW st \in Trader, NEW si \in Product, NEW amount \in Int,
           NEW u \in Trader, NEW p \in Product
    PROVE  Credit(Credit(account, bt, bi, amount), st, si, -amount)[u][p]
             = account[u][p] + ((IF bt = u /\ bi = p THEN amount ELSE 0)
                                + (IF st = u /\ si = p THEN -amount ELSE 0))
<1> DEFINE bought == Credit(account, bt, bi, amount)
<1>1. bought \in Accounts
  BY CreditType, ZenonT(20) DEF Accounts
<1>2. bought[u][p] = account[u][p] + (IF bt = u /\ bi = p THEN amount ELSE 0)
  BY CreditAt
<1> HIDE DEF bought
<1>3. -amount \in Int
  OBVIOUS
<1>4. Credit(bought, st, si, -amount)[u][p]
        = bought[u][p] + (IF st = u /\ si = p THEN -amount ELSE 0)
  BY <1>1, <1>3, CreditAt
<1>5. account[u][p] \in Int
  BY DEF Accounts
<1>6. Credit(bought, st, si, -amount)[u][p]
        = account[u][p] + ((IF bt = u /\ bi = p THEN amount ELSE 0)
                           + (IF st = u /\ si = p THEN -amount ELSE 0))
  BY <1>2, <1>4, <1>5
<1> QED
  BY <1>6 DEF bought

\* The recorded trades refer to orders of the book.
TradesInBook == AllInBook(completed_trades, orderbook)

\* The invariant before and after a step, as a relation between values.
LEMMA MatchesIsHoldings ==
    /\ HoldingsMatchTrades <=>
         Matches(inventory_quantity, transaction_fee, orderbook, completed_trades)
    /\ HoldingsMatchTrades' <=>
         Matches(inventory_quantity', transaction_fee', orderbook', completed_trades')
  BY DEF HoldingsMatchTrades, Matches, SumUnits, SumTax, UnitsIn, UnitsOf, BuyerOf, SellerOf

\* Every step keeps both: a trade is recorded with the units it moved.
LEMMA HoldingsStep ==
    TypeOK /\ TradesInBook /\ HoldingsMatchTrades /\ [Next]_vars
        => TradesInBook' /\ HoldingsMatchTrades'
<1> SUFFICES ASSUME TypeOK, TradesInBook, HoldingsMatchTrades, [Next]_vars
             PROVE  TradesInBook' /\ HoldingsMatchTrades'
  OBVIOUS
<1> DEFINE inv == inventory_quantity   fee == transaction_fee
           trades == completed_trades  bk == orderbook
<1>b. /\ Len(bk') >= Len(bk) /\ Len(bk) \in Nat /\ Len(bk') \in Nat
      /\ KeepsOrders(bk, bk')
  <2>1. /\ orderbook' \in Seq(OrderType) /\ Len(orderbook') >= Len(orderbook)
        /\ \A i \in Position : SameOrder(orderbook[i], orderbook'[i])
    BY BookStep
  <2>2. Len(orderbook) \in Nat /\ Position = 1..Len(orderbook)
    BY BookType
  <2>3. Len(orderbook') \in Nat
    BY <2>1
  <2>4. KeepsOrders(orderbook, orderbook')
    BY <2>1, <2>2, ZenonT(20) DEF KeepsOrders
  <2> QED
    BY <2>1, <2>2, <2>3, <2>4
<1>t. /\ trades \in Seq(TradeType) /\ inv \in Accounts /\ AllInBook(trades, bk)
      /\ Matches(inv, fee, bk, trades)
  BY MatchesIsHoldings DEF TypeOK, Accounts, TradesInBook
<1>o. /\ AllInBook(trades, bk')
      /\ \A t, p : SumUnits(bk', trades, t, p) = SumUnits(bk, trades, t, p)
  <2>1. AllInBook(trades, bk')
    BY <1>b, <1>t, StaysInBook
  <2> QED
    BY <1>b, <1>t, <2>1, OldTrades
<1>m. Matches(inv, fee, bk', trades)
  BY <1>t, <1>o DEF Matches
<1>1. CASE UNCHANGED ledger
  <2>1. inv' = inv /\ fee' = fee /\ trades' = trades
    BY <1>1 DEF ledger
  <2>2. Matches(inv', fee', bk', trades')
    BY <1>m, <2>1
  <2>3. TradesInBook'
    BY <1>o, <2>1 DEF TradesInBook
  <2> QED
    BY <2>2, <2>3, MatchesIsHoldings
<1>2. CASE PlaceOrder
  <2> DEFINE a == placing.pos
  <2>1. PICK r \in Counterparty(placing.side, placing.pos) : Trade(placing.pos, r)
    BY <1>2 DEF PlaceOrder
  <2>2. placing # Idle
    BY <1>2 DEF PlaceOrder
  <2>3. /\ a \in Position /\ r \in Position
        /\ bk[a] \in OrderType /\ bk[r] \in OrderType
    BY <2>1, <2>2, CounterpartyFacts
  <2> DEFINE amount == Smaller(bk[a].quantity, bk[r].quantity)
             price == bk[r].unit_price
             due == transaction_tax(amount, price)
             trade == [incoming_order |-> a, order_in_book |-> r, transaction_quantity |-> amount,
                       transaction_price |-> price, tax |-> due]
             b == BuyerOf(a, r)
             s == SellerOf(a, r)
  <2>4. /\ trades' = Append(trades, trade) /\ fee' = fee + due
        /\ inv' = buy_sell_units(b, s, amount)
    BY <2>1, ZenonT(60) DEF Trade
  <2>5. amount \in Nat /\ price \in Nat /\ a \in Nat /\ r \in Nat
    <3>1. bk[a].quantity \in Nat /\ bk[r].quantity \in Nat /\ price \in Nat
      BY <2>3 DEF OrderType
    <3>2. amount \in Nat
      BY <3>1, ZenonT(20) DEF Smaller
    <3>3. a \in Nat /\ r \in Nat
      BY <2>3, BookType
    <3> QED
      BY <3>1, <3>2, <3>3
  <2>6. due \in Nat
    BY <2>5, TaxNat, ZenonT(20)
  <2>7. b \in {a, r} /\ s \in {a, r}
    BY DEF BuyerOf, SellerOf
  <2>8. \A i \in {a, r} : bk[i].trader \in Trader /\ bk[i].item \in Product
    BY <2>3 DEF OrderType
  <2>9. \A t, p : UnitsIn(bk', trade, t, p) =
                    (IF bk[b].trader = t /\ bk[b].item = p THEN amount ELSE 0)
                    + (IF bk[s].trader = t /\ bk[s].item = p THEN -amount ELSE 0)
    <3>1. SameOrder(bk[a], bk'[a]) /\ SameOrder(bk[r], bk'[r])
      BY <1>b, <2>3 DEF Position, KeepsOrders
    <3> HIDE DEF amount, price, due
    <3> QED
      BY <3>1, ZenonT(60) DEF UnitsIn, BuyerOf, SellerOf, SameOrder
  <2> HIDE DEF amount, price, due, b, s, a
  <2>10. trade \in TradeType /\ trade.tax = due
    BY <2>5, <2>6 DEF TradeType
  <2>11. trade.incoming_order = a /\ trade.order_in_book = r
    OBVIOUS
  <2>12. InBook(trade, bk')
    <3>1. a \in 1..Len(bk') /\ r \in 1..Len(bk')
      BY <1>b, <2>3 DEF Position
    <3> QED
      BY <2>11, <3>1, ZenonT(20) DEF InBook
  <2> HIDE DEF trade
  <2>13. /\ \A t, p : SumUnits(bk', trades', t, p) =
                        SumUnits(bk', trades, t, p) + UnitsIn(bk', trade, t, p)
         /\ SumTax(trades') = SumTax(trades) + due
    <3>1. trades \in Seq(TradeType) /\ trades' = Append(trades, trade)
      BY <1>t, <2>4
    <3> QED
      BY <2>10, <3>1, OneMoreTrade
  <2>14. ASSUME NEW t \in Trader, NEW p \in Product
         PROVE  inv'[t][p] = SumUnits(bk', trades', t, p)
    <3> DEFINE bt == bk[b].trader  bi == bk[b].item
               st == bk[s].trader  si == bk[s].item
               got == IF bt = t /\ bi = p THEN amount ELSE 0
               gave == IF st = t /\ si = p THEN -amount ELSE 0
    <3>1. amount \in Int
      BY <2>5
    <3>2. inv' = Credit(Credit(inv, bt, bi, amount), st, si, -amount)
      BY <2>4 DEF buy_sell_units
    <3>3. bt \in Trader /\ bi \in Product /\ st \in Trader /\ si \in Product
      BY <2>7, <2>8
    <3>5. UnitsIn(bk', trade, t, p) = got + gave
      BY <2>9 DEF trade
    <3> HIDE DEF bt, bi, st, si
    <3>4. inv'[t][p] = inv[t][p] + (got + gave)
      <4>1. Credit(Credit(inv, bt, bi, amount), st, si, -amount)[t][p] = inv[t][p] + (got + gave)
        BY <1>t, <3>1, <3>3, TwoCredits
      <4> QED
        BY <3>2, <4>1
    <3>7. inv[t][p] = SumUnits(bk', trades, t, p)
      BY <1>m DEF Matches
    <3> HIDE DEF got, gave
    <3> QED
      BY <2>13, <3>4, <3>5, <3>7
  <2>15. fee' = SumTax(trades')
    BY <1>m, <2>4, <2>13 DEF Matches
  <2>16. Matches(inv', fee', bk', trades')
    BY <2>14, <2>15 DEF Matches
  <2>17. TradesInBook'
    <3>1. /\ DOMAIN trades' = 1..(Len(trades) + 1) /\ DOMAIN trades = 1..Len(trades)
          /\ \A n \in DOMAIN trades : trades'[n] = trades[n]
          /\ trades'[Len(trades) + 1] = trade /\ Len(trades) \in Nat
      BY <1>t, <2>4, <2>10
    <3>2. \A n \in DOMAIN trades' : InBook(trades'[n], bk')
      BY <1>o, <2>12, <3>1 DEF AllInBook
    <3> QED
      BY <3>2 DEF TradesInBook, AllInBook
  <2> QED
    BY <2>16, <2>17, MatchesIsHoldings
<1> QED
  <2>1. PlaceOrder \/ UNCHANGED ledger
    BY DEF Next, Command, OrderReceived, OrderRejected, AmendRequest, AmendRejected,
           CancelRequest, CancelRejected, InvalidMessage, PlacingDone, ledger, vars
  <2> QED
    BY <1>1, <1>2, <2>1

\* At the start there are neither trades nor holdings.
LEMMA HoldingsInit == Init => TradesInBook /\ HoldingsMatchTrades
<1> SUFFICES ASSUME Init PROVE TradesInBook /\ HoldingsMatchTrades
  OBVIOUS
<1>1. completed_trades = <<>> /\ transaction_fee = 0 /\ DOMAIN completed_trades = {}
  BY DEF Init
<1>2. SumTax(completed_trades) = 0
  BY <1>1, SumEmpty DEF SumTax, SumFunction
<1>3. ASSUME NEW t, NEW p PROVE SumUnits(orderbook, completed_trades, t, p) = 0
  BY <1>1, SumEmpty DEF SumUnits, SumFunction
<1>4. \A t \in Trader, p \in Product : inventory_quantity[t][p] = 0
  BY DEF Init
<1>5. Matches(inventory_quantity, transaction_fee, orderbook, completed_trades)
  BY <1>1, <1>2, <1>3, <1>4 DEF Matches
<1> QED
  BY <1>1, <1>5, MatchesIsHoldings DEF TradesInBook, AllInBook

\* A trader holds exactly the units that its recorded trades add up to, and
\* the exchange the fees they paid: nothing is settled twice, left out or
\* booked on another trader, however the orders of old trades change since.
THEOREM HoldingsAreTrades == Spec => []HoldingsMatchTrades
  BY HoldingsInit, HoldingsStep, TypeCorrect, PTL DEF Spec

-----------------------------------------------------------------------------
(* An order is filled by its trades.  An iteration that trades takes from   *)
(* its two orders the units that it records, and a command neither records  *)
(* a trade nor touches a quantity.  A new order is in no trade, because the *)
(* trades refer to the orders that were in the book before it.              *)

\* What a trade took from the order at position i.
TakenIn(trade, i) ==
    IF i \in {trade.incoming_order, trade.order_in_book} THEN trade.transaction_quantity ELSE 0

SumTaken(trades, i) == SumFunction([n \in DOMAIN trades |-> TakenIn(trades[n], i)])

LEMMA TakenIsSum ==
    \A i : TakenFrom(i) = SumTaken(completed_trades, i)
           /\ TakenFrom(i)' = SumTaken(completed_trades', i)
  BY DEF TakenFrom, SumTaken, TakenIn

\* One more trade takes its units from its two orders.
LEMMA OneMoreTaken ==
    ASSUME NEW trades \in Seq(TradeType), NEW trade \in TradeType, NEW i
    PROVE  /\ SumTaken(trades, i) \in Int
           /\ SumTaken(Append(trades, trade), i) = SumTaken(trades, i) + TakenIn(trade, i)
<1> DEFINE longer == Append(trades, trade)
           m == Len(trades)
<1>1. /\ m \in Nat /\ DOMAIN trades = 1..m /\ DOMAIN longer = 1..(m + 1)
      /\ \A k \in 1..m : longer[k] = trades[k] /\ trades[k] \in TradeType
      /\ longer[m + 1] = trade
  OBVIOUS
<1>2. \A x \in TradeType : TakenIn(x, i) \in Int
  BY DEF TakenIn, TradeType
<1> HIDE DEF longer, m
<1> DEFINE f == [k \in DOMAIN trades |-> TakenIn(trades[k], i)]
           h == [k \in DOMAIN longer |-> TakenIn(longer[k], i)]
<1>3. /\ DOMAIN f = 1..m /\ DOMAIN h = 1..(m + 1)
      /\ \A k \in 1..m : f[k] \in Int /\ h[k] = f[k]
      /\ h[m + 1] = TakenIn(trade, i) /\ h[m + 1] \in Int
  BY <1>1, <1>2
<1>4. SumTaken(longer, i) = SumFunction(h) /\ SumTaken(trades, i) = SumFunction(f)
  BY DEF SumTaken
<1> HIDE DEF f, h
<1>5. SumFunction(h) = SumFunction(f) + h[m + 1]
  BY <1>1, <1>3, SumLonger
<1>6. SumFunction(f) \in Int
  <2>1. IsFiniteSet(1..m)
    BY <1>1, FS_Interval
  <2> QED
    BY <1>3, <2>1, SumType, ZenonT(20) DEF SumFunction
<1> QED
  BY <1>3, <1>4, <1>5, <1>6 DEF longer

\* Nothing was taken from an order that no trade refers to.
LEMMA NothingTaken ==
    ASSUME NEW trades \in Seq(TradeType), NEW bk, AllInBook(trades, bk), NEW i, i \notin 1..Len(bk)
    PROVE  SumTaken(trades, i) = 0
<1> DEFINE f == [n \in DOMAIN trades |-> TakenIn(trades[n], i)]
<1>1. IsFiniteSet(DOMAIN trades) /\ DOMAIN f = DOMAIN trades
  BY FS_Interval
<1>2. \A n \in DOMAIN trades : f[n] = 0
  BY DEF AllInBook, InBook, TakenIn
<1>3. SumTaken(trades, i) = SumFunction(f)
  BY DEF SumTaken
<1> HIDE DEF f
<1>4. SumFunctionOnSet(f, DOMAIN trades) = 0
  BY <1>1, <1>2, SumOfZeros
<1> QED
  BY <1>1, <1>3, <1>4 DEF SumFunction

\* What was taken from an order and what is left of it.
SizeOf(i) == TakenFrom(i) + orderbook[i].quantity

\* No step changes the size of an order, and a new order has a valid one.
LEMMA SizeStep ==
    ASSUME TypeOK, TradesInBook, [Next]_vars
    PROVE  /\ \A i \in Position : SizeOf(i)' = SizeOf(i)
           /\ \A i \in Position' \ Position : SizeOf(i)' \in 1..MAX_QUANTITY
<1> DEFINE trades == completed_trades
<1>1. trades \in Seq(TradeType) /\ AllInBook(trades, orderbook) /\ Position = 1..Len(orderbook)
  BY DEF TypeOK, TradesInBook, Position
<1>2. \A i \in Position : orderbook[i].quantity \in Int
  BY BookType DEF OrderType
<1>3. CASE PlaceOrder
  <2>1. PICK r \in Position, amount \in Nat :
          /\ Len(orderbook') = Len(orderbook)
          /\ \A i \in {placing.pos, r} :
               orderbook'[i].quantity = orderbook[i].quantity - amount
          /\ \A i \in Position \ {placing.pos, r} : orderbook'[i] = orderbook[i]
          /\ \E trade \in TradeType :
               /\ trades' = Append(trades, trade)
               /\ trade.incoming_order = placing.pos /\ trade.order_in_book = r
               /\ trade.transaction_quantity = amount
    BY <1>3, PlaceOrderFacts
  <2>2. PICK trade \in TradeType :
          /\ trades' = Append(trades, trade)
          /\ trade.incoming_order = placing.pos /\ trade.order_in_book = r
          /\ trade.transaction_quantity = amount
    BY <2>1
  <2>3. ASSUME NEW i \in Position PROVE SizeOf(i)' = SizeOf(i)
    <3>1. /\ SumTaken(trades, i) \in Int
          /\ SumTaken(trades', i) = SumTaken(trades, i) + TakenIn(trade, i)
      BY <1>1, <2>2, OneMoreTaken
    <3>2. /\ TakenIn(trade, i) \in Nat
          /\ orderbook'[i].quantity = orderbook[i].quantity - TakenIn(trade, i)
      <4>1. CASE i \in {placing.pos, r}
        <5>1. TakenIn(trade, i) = amount
          BY <2>2, <4>1 DEF TakenIn
        <5> QED
          BY <2>1, <4>1, <5>1
      <4>2. CASE i \notin {placing.pos, r}
        <5>1. TakenIn(trade, i) = 0
          BY <2>2, <4>2 DEF TakenIn
        <5>2. orderbook'[i] = orderbook[i]
          BY <2>1, <4>2
        <5> QED
          BY <1>2, <5>1, <5>2
      <4> QED
        BY <4>1, <4>2
    <3>3. TakenFrom(i) = SumTaken(trades, i) /\ TakenFrom(i)' = SumTaken(trades', i)
      BY TakenIsSum
    <3> QED
      BY <1>2, <3>1, <3>2, <3>3 DEF SizeOf
  <2>4. Position' \ Position = {}
    BY <2>1 DEF Position
  <2> QED
    BY <2>3, <2>4
<1>4. CASE ~PlaceOrder
  <2>1. /\ \A i \in Position : orderbook'[i].quantity = orderbook[i].quantity
        /\ \A i \in Position' \ Position : orderbook'[i].quantity \in 1..MAX_QUANTITY
    BY <1>4, QuantityStep
  <2>2. trades' = trades
    BY <1>4 DEF Next, Command, OrderReceived, OrderRejected, AmendRequest, AmendRejected,
                CancelRequest, CancelRejected, InvalidMessage, PlacingDone, ledger, vars
  <2>3. \A i : TakenFrom(i)' = TakenFrom(i) /\ TakenFrom(i) = SumTaken(trades, i)
    BY <2>2, TakenIsSum
  <2>4. ASSUME NEW i \in Position' \ Position PROVE SizeOf(i)' \in 1..MAX_QUANTITY
    <3>1. SumTaken(trades, i) = 0
      BY <1>1, NothingTaken
    <3> QED
      BY <2>1, <2>3, <3>1 DEF SizeOf
  <2> QED
    BY <2>1, <2>3, <2>4 DEF SizeOf
<1> QED
  BY <1>3, <1>4

\* FilledByTrades: whatever happens to an order, the units its recorded trades
\* took and the units left of it add up to the same number.
THEOREM OrdersFilledByTrades == Spec => FilledByTrades
<1>1. TypeOK /\ TradesInBook /\ [Next]_vars =>
        [\A i \in Position : TakenFrom(i)' + orderbook'[i].quantity
                               = TakenFrom(i) + orderbook[i].quantity]_vars
  BY SizeStep DEF SizeOf
<1> QED
  BY <1>1, TypeCorrect, HoldingsInit, HoldingsStep, PTL DEF Spec, FilledByTrades

\* NeverOverfilled: the trades of an order never take more than the quantity
\* it was entered with, also when its id is reused or it is placed again
\* because an AMEND left it in the local variable of the event loop.
THEOREM NoOverfill == Spec => []NeverOverfilled
<1>1. Init => NeverOverfilled
  BY DEF Init, NeverOverfilled, Position
<1>2. TypeOK /\ TradesInBook /\ NeverOverfilled /\ [Next]_vars => NeverOverfilled'
  <2> SUFFICES ASSUME TypeOK, TradesInBook, NeverOverfilled, [Next]_vars,
                      NEW i \in Position'
               PROVE  SizeOf(i)' \in 1..MAX_QUANTITY
    BY DEF NeverOverfilled, SizeOf
  <2>1. CASE i \in Position
    <3>1. SizeOf(i) \in 1..MAX_QUANTITY
      BY <2>1 DEF NeverOverfilled, SizeOf
    <3> QED
      BY <2>1, <3>1, SizeStep
  <2> QED
    BY <2>1, SizeStep
<1> QED
  BY <1>1, <1>2, TypeCorrect, HoldingsInit, HoldingsStep, PTL DEF Spec
=============================================================================
