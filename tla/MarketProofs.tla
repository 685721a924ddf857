---------------------------- MODULE MarketProofs ----------------------------
(* Proofs about the matching engine, for every value of its constants.     *)
EXTENDS Market, TLAPS

USE SMTT(20), ZenonT(20)

\* Numbers.  atoi() yields an int, a valid quantity or price is in its range.
LEMMA AtoiInt ==
    ASSUME NEW w \in Nat PROVE atoi(w) \in Int
<1> DEFINE square == INT_RANGE * INT_RANGE
<1>1. INT_RANGE \in Nat \ {0}
  BY MarketAssumption
<1>2. square \in Int
  BY <1>1
<1> HIDE DEF square
<1>3. LONG_MAX \in Int
  BY <1>2 DEF LONG_MAX, square
<1> QED
  BY <1>1, <1>3 DEF atoi

\* The value of a trade is a natural number, ...
LEMMA ProductNat ==
    ASSUME NEW a \in Nat, NEW b \in Nat PROVE a * b \in Nat
  OBVIOUS

\* ... and so is its fee.
LEMMA TaxNat ==
    ASSUME NEW a \in Nat, NEW b \in Nat PROVE transaction_tax(a, b) \in Nat
<1>1. a * b \in Nat
  BY ProductNat
<1>2. \A v \in Nat : (v + 50) \div 100 \in Nat
  OBVIOUS
<1> QED
  BY <1>1, <1>2 DEF transaction_tax

-----------------------------------------------------------------------------
(* The type invariant.  An order is well formed when it is created because *)
(* of the tests of newOrder(), and stays so because a trade takes no more  *)
(* units from an order than it has.                                        *)

\* The book is a sequence of orders, indexed by the positions.
LEMMA BookType ==
    ASSUME TypeOK
    PROVE  /\ orderbook \in Seq(OrderType) /\ Len(orderbook) \in Nat
           /\ DOMAIN orderbook = Position /\ Position = 1..Len(orderbook)
           /\ \A i \in Position : orderbook[i] \in OrderType
<1>1. orderbook \in Seq(OrderType)
  BY DEF TypeOK
<1> QED
  BY <1>1 DEF Position

\* What newOrder() returns for the words it accepts is an order.
LEMMA NewOrderType ==
    ASSUME NEW t \in Trader, NEW side \in Side, NEW item \in Product,
           NEW id \in IdWord, NEW quantity \in QuantityWord, NEW price \in PriceWord,
           newOrderOK(t, id, quantity, price)
    PROVE  /\ newOrder(t, side, id, item, quantity, price) \in OrderType
           /\ atoi(quantity) \in 1..MAX_QUANTITY
           /\ atoi(price) \in 1..MAX_UNIT_PRICE
           /\ atoi(id) \in Int
<1>1. id \in Nat /\ quantity \in Nat /\ price \in Nat
  BY MarketAssumption DEF newOrderOK, ValidQuantity, ValidPrice, isNumeric
<1>2. atoi(id) \in Int /\ atoi(quantity) \in 1..MAX_QUANTITY /\ atoi(price) \in 1..MAX_UNIT_PRICE
  BY <1>1, AtoiInt DEF newOrderOK, ValidQuantity, ValidPrice
<1> QED
  BY <1>2 DEF newOrder, OrderType

\* Taking no more units from an order than it has yields an order.
LEMMA FilledType ==
    ASSUME NEW o \in OrderType, NEW amount \in Nat, amount <= o.quantity
    PROVE  /\ Filled(o, amount) \in OrderType
           /\ Filled(o, amount).quantity = o.quantity - amount
           /\ amount = o.quantity => Filled(o, amount).completed = TRUE
           /\ amount # o.quantity => Filled(o, amount).completed = FALSE
           /\ Filled(o, amount).trader = o.trader
           /\ Filled(o, amount).order_id = o.order_id
           /\ Filled(o, amount).order_type = o.order_type
           /\ Filled(o, amount).item = o.item
           /\ Filled(o, amount).unit_price = o.unit_price
<1> DEFINE q == o.quantity - amount
           c == o.quantity - amount <= 0
<1>1. q \in 0..MAX_QUANTITY
  BY MarketAssumption DEF OrderType
<1>2. c \in BOOLEAN
  OBVIOUS
<1>3. Filled(o, amount) = [[o EXCEPT !.quantity = q] EXCEPT !.completed = c]
  BY DEF Filled
<1> HIDE DEF q, c
<1>4. [o EXCEPT !.quantity = q] \in OrderType /\ [o EXCEPT !.quantity = q].quantity = q
  BY <1>1 DEF OrderType
<1>5. /\ amount = o.quantity => c = TRUE
      /\ amount # o.quantity => c = FALSE
  BY DEF c, OrderType
<1> QED
  BY <1>1, <1>2, <1>3, <1>4, <1>5, ZenonT(20) DEF OrderType, q

\* The counterparty is a live order of the other side in the book, and the
\* order placed is live and on its side.
LEMMA CounterpartyFacts ==
    ASSUME TypeOK, placing # Idle,
           NEW r \in Counterparty(placing.side, placing.pos)
    PROVE  /\ placing.pos \in Position /\ r \in Position /\ r # placing.pos
           /\ Live(placing.pos) /\ Live(r)
           /\ placing.side \in Side
           /\ orderbook[placing.pos].order_type = placing.side
           /\ orderbook[r].order_type = Opposite(placing.side)
           /\ orderbook[placing.pos] \in OrderType /\ orderbook[r] \in OrderType
           /\ orderbook[placing.pos].quantity > 0 /\ orderbook[r].quantity > 0
<1>1. placing.pos \in 0..Len(orderbook) /\ placing.side \in Side
  BY DEF TypeOK
<1>2. /\ placing.pos # NULL /\ orderbook[placing.pos].order_type = placing.side /\ Live(placing.pos)
      /\ r \in getBestOrder(Opposite(placing.side), orderbook[placing.pos].item,
                             orderbook[placing.pos].unit_price)
      /\ orderbook[placing.pos].quantity > 0 /\ orderbook[r].quantity > 0
  BY DEF Counterparty
<1>3. PICK i \in Best(Opposite(placing.side), orderbook[placing.pos].item) : SameKey(i, r)
  BY <1>2 DEF getBestOrder
<1>4. r \in DOMAIN orderbook /\ i \in DOMAIN orderbook
      /\ orderbook[i].order_type = Opposite(placing.side)
  BY <1>2, <1>3 DEF getBestOrder, Best, Resting
<1>5. orderbook[r].order_type = Opposite(placing.side) /\ Live(r)
  BY <1>3, <1>4 DEF SameKey
<1>6. DOMAIN orderbook = Position /\ placing.pos \in Position
  BY <1>1, <1>2 DEF TypeOK, Position, NULL
<1>7. orderbook[placing.pos] \in OrderType /\ orderbook[r] \in OrderType
  BY <1>4, <1>6 DEF TypeOK
<1>8. r # placing.pos
  BY <1>1, <1>2, <1>5 DEF Opposite, Side
<1> QED
  BY <1>1, <1>2, <1>4, <1>5, <1>6, <1>7, <1>8

\* Moving an amount between accounts keeps them accounts.
LEMMA CreditType ==
    ASSUME NEW account \in [Trader -> [Product -> Int]],
           NEW t \in Trader, NEW item \in Product, NEW amount \in Int
    PROVE  Credit(account, t, item, amount) \in [Trader -> [Product -> Int]]
  BY DEF Credit

\* A trade: what it does to the two orders, and that it touches nothing else
\* in the book.
LEMMA TradeFacts ==
    ASSUME TypeOK, placing # Idle,
           NEW r \in Counterparty(placing.side, placing.pos), Trade(placing.pos, r)
    PROVE  \E amount \in Nat :
             /\ amount > 0
             /\ amount = Smaller(orderbook[placing.pos].quantity, orderbook[r].quantity)
             /\ amount <= orderbook[placing.pos].quantity /\ amount <= orderbook[r].quantity
             /\ amount = orderbook[placing.pos].quantity \/ amount = orderbook[r].quantity
             /\ orderbook' \in Seq(OrderType) /\ Len(orderbook') = Len(orderbook)
             /\ \A i \in Position :
                  orderbook'[i] = IF i \in {placing.pos, r} THEN Filled(orderbook[i], amount)
                                                           ELSE orderbook[i]
<1> DEFINE p == placing.pos
           amount == Smaller(orderbook[p].quantity, orderbook[r].quantity)
<1>1. /\ p \in Position /\ r \in Position
      /\ orderbook[p] \in OrderType /\ orderbook[r] \in OrderType
      /\ orderbook[p].quantity > 0 /\ orderbook[r].quantity > 0
  BY CounterpartyFacts
<1>2. /\ amount \in Nat /\ amount > 0
      /\ amount <= orderbook[p].quantity /\ amount <= orderbook[r].quantity
      /\ amount = orderbook[p].quantity \/ amount = orderbook[r].quantity
  BY <1>1 DEF Smaller, OrderType
<1>3. orderbook' = [i \in DOMAIN orderbook |->
                      IF i \in {p, r} THEN Filled(orderbook[i], amount) ELSE orderbook[i]]
  BY DEF Trade
<1> HIDE DEF amount, p
<1>4. orderbook \in Seq(OrderType) /\ DOMAIN orderbook = Position /\ Len(orderbook) \in Nat
  BY DEF TypeOK, Position
<1>5. \A i \in Position : orderbook'[i] \in OrderType
  <2> TAKE i \in Position
  <2>1. orderbook[i] \in OrderType
    BY <1>4
  <2>2. i \in {p, r} => Filled(orderbook[i], amount) \in OrderType
    BY <1>1, <1>2, FilledType, ZenonT(20)
  <2> QED
    BY <1>3, <1>4, <2>1, <2>2
<1>6. orderbook' \in [1..Len(orderbook) -> OrderType]
  BY <1>3, <1>4, <1>5 DEF Position
<1>7. orderbook' \in Seq(OrderType) /\ Len(orderbook') = Len(orderbook)
  BY <1>4, <1>6
<1> QED
  BY <1>2, <1>3, <1>4, <1>7, ZenonT(20) DEF amount, p

\* ... and what it does to the accounts and the record of trades.
LEMMA TradeAccounts ==
    ASSUME TypeOK, placing # Idle,
           NEW r \in Counterparty(placing.side, placing.pos), Trade(placing.pos, r)
    PROVE  /\ completed_trades' \in Seq(TradeType)
           /\ transaction_fee' \in Nat
           /\ inventory_quantity' \in [Trader -> [Product -> Int]]
           /\ bank' \in [Trader -> [Product -> Int]]
<1> DEFINE p == placing.pos
           amount == Smaller(orderbook[p].quantity, orderbook[r].quantity)
           price == orderbook[r].unit_price
           fee == transaction_tax(amount, price)
           b == BuyerOf(p, r)
           s == SellerOf(p, r)
           c == ChargedOf(p, r)
<1>1. /\ p \in Position /\ r \in Position
      /\ orderbook[p] \in OrderType /\ orderbook[r] \in OrderType
  BY CounterpartyFacts
<1>2. amount \in Nat /\ price \in Nat
  BY <1>1 DEF Smaller, OrderType
<1>3. fee \in Nat /\ amount * price \in Nat
  BY <1>2, TaxNat, ProductNat, ZenonT(20)
<1>4. b \in {p, r} /\ s \in {p, r} /\ c \in {p, r}
  BY DEF BuyerOf, SellerOf, ChargedOf
<1>5. \A i \in {p, r} : orderbook[i].trader \in Trader /\ orderbook[i].item \in Product
  BY <1>1 DEF OrderType
<1>6. /\ completed_trades' =
           Append(completed_trades, [incoming_order |-> p, order_in_book |-> r,
             transaction_quantity |-> amount, transaction_price |-> price, tax |-> fee])
      /\ transaction_fee' = transaction_fee + fee
      /\ inventory_quantity' = buy_sell_units(b, s, amount)
      /\ bank' = tax(buy_sell_bank(b, s, amount * price), c, fee)
  BY DEF Trade
<1> HIDE DEF p, amount, price, fee, b, s, c
<1> DEFINE Accounts == [Trader -> [Product -> Int]]
<1>m. \A x \in Nat : x \in Int /\ -x \in Int
  OBVIOUS
<1>a. \A account \in Accounts, i \in {p, r}, x \in Int :
        Credit(account, orderbook[i].trader, orderbook[i].item, x) \in Accounts
  BY <1>5, CreditType, ZenonT(20)
<1>t. inventory_quantity \in Accounts /\ bank \in Accounts
  BY DEF TypeOK
<1> HIDE DEF Accounts
<1>7. inventory_quantity' \in Accounts
  BY <1>2, <1>4, <1>6, <1>m, <1>a, <1>t, ZenonT(20) DEF buy_sell_units
<1>8. buy_sell_bank(b, s, amount * price) \in Accounts
  BY <1>3, <1>4, <1>m, <1>a, <1>t DEF buy_sell_bank
<1>9. bank' \in Accounts
  BY <1>3, <1>4, <1>6, <1>8, <1>m, <1>a, ZenonT(20) DEF tax
<1>10. p \in Nat /\ r \in Nat
  BY <1>1 DEF Position, TypeOK
<1>11. completed_trades' \in Seq(TradeType)
  BY <1>2, <1>3, <1>6, <1>10 DEF TradeType, TypeOK
<1> QED
  BY <1>3, <1>6, <1>7, <1>9, <1>11 DEF TypeOK, Accounts

\* An iteration of the matching loop that trades: it takes the same units from
\* two live orders, exhausts one of them, and records the trade.
LEMMA PlaceOrderFacts ==
    ASSUME TypeOK, PlaceOrder
    PROVE  \E r \in Position, amount \in Nat :
             /\ placing.pos \in Position /\ r # placing.pos /\ Live(placing.pos) /\ Live(r)
             /\ Len(orderbook') = Len(orderbook)
             /\ \A i \in {placing.pos, r} :
                  orderbook'[i].quantity = orderbook[i].quantity - amount
             /\ \E i \in {placing.pos, r} : orderbook'[i].completed
             /\ \A i \in Position \ {placing.pos, r} : orderbook'[i] = orderbook[i]
             /\ \E trade \in TradeType :
                  /\ completed_trades' = Append(completed_trades, trade)
                  /\ trade.incoming_order = placing.pos /\ trade.order_in_book = r
                  /\ trade.transaction_quantity = amount
<1>1. placing # Idle
  BY DEF PlaceOrder
<1>2. PICK r \in Counterparty(placing.side, placing.pos) : Trade(placing.pos, r)
  BY DEF PlaceOrder
<1> DEFINE p == placing.pos
<1>3. PICK amount \in Nat :
        /\ amount = Smaller(orderbook[p].quantity, orderbook[r].quantity)
        /\ amount <= orderbook[p].quantity /\ amount <= orderbook[r].quantity
        /\ amount = orderbook[p].quantity \/ amount = orderbook[r].quantity
        /\ Len(orderbook') = Len(orderbook)
        /\ \A i \in Position :
             orderbook'[i] = IF i \in {p, r} THEN Filled(orderbook[i], amount)
                                            ELSE orderbook[i]
  BY <1>1, <1>2, TradeFacts
<1>4. /\ p \in Position /\ r \in Position /\ r # p /\ Live(p) /\ Live(r)
      /\ orderbook[p] \in OrderType /\ orderbook[r] \in OrderType
  BY <1>1, <1>2, CounterpartyFacts
<1>5. orderbook'[p] = Filled(orderbook[p], amount) /\ orderbook'[r] = Filled(orderbook[r], amount)
  BY <1>3, <1>4
<1>6. ASSUME NEW i \in {p, r}
      PROVE  /\ Filled(orderbook[i], amount).quantity = orderbook[i].quantity - amount
             /\ amount = orderbook[i].quantity => Filled(orderbook[i], amount).completed
  <2>1. orderbook[i] \in OrderType /\ amount <= orderbook[i].quantity
    BY <1>3, <1>4
  <2> QED
    BY <2>1, FilledType, ZenonT(20)
<1> DEFINE price == orderbook[r].unit_price
           fee   == transaction_tax(amount, price)
           trade == [incoming_order |-> p, order_in_book |-> r, transaction_quantity |-> amount,
                     transaction_price |-> price, tax |-> fee]
<1>7. completed_trades' = Append(completed_trades, trade)
  BY <1>2, <1>3 DEF Trade
<1>8. p \in Nat /\ r \in Nat /\ price \in Nat
  <2>1. p \in Nat /\ r \in Nat
    BY <1>4, BookType
  <2>2. orderbook[r].unit_price \in 1..MAX_UNIT_PRICE
    BY <1>4 DEF OrderType
  <2> QED
    BY <2>1, <2>2
<1>9. fee \in Nat
  BY <1>8, TaxNat, ZenonT(20)
<1> HIDE DEF p, price, fee
<1>10. trade \in TradeType /\ trade.incoming_order = p /\ trade.order_in_book = r
       /\ trade.transaction_quantity = amount
  BY <1>8, <1>9 DEF TradeType
<1> HIDE DEF trade
<1>11. \A i \in Position \ {p, r} : orderbook'[i] = orderbook[i]
  BY <1>3
<1> QED
  BY <1>3, <1>4, <1>5, <1>6, <1>7, <1>10, <1>11 DEF p

-----------------------------------------------------------------------------
(* What each command does to the book.                                     *)

\* closeOrder() changes nothing of an order but its completed flag.
LEMMA CloseFacts ==
    ASSUME NEW o \in OrderType
    PROVE  /\ closeOrder(o) \in OrderType /\ closeOrder(o).completed = TRUE
           /\ closeOrder(o).trader = o.trader /\ closeOrder(o).order_id = o.order_id
           /\ closeOrder(o).order_type = o.order_type /\ closeOrder(o).item = o.item
           /\ closeOrder(o).quantity = o.quantity /\ closeOrder(o).unit_price = o.unit_price
  BY ZenonT(20) DEF closeOrder, OrderType

\* Closing an order of the book leaves the others alone.
LEMMA CloseInBook ==
    ASSUME NEW bk \in Seq(OrderType), NEW i \in 1..Len(bk),
           NEW bk2, bk2 = [bk EXCEPT ![i] = closeOrder(bk[i])]
    PROVE  /\ bk2 \in Seq(OrderType) /\ Len(bk2) = Len(bk)
           /\ \A j \in 1..Len(bk) : j # i => bk2[j] = bk[j]
           /\ bk2[i] = closeOrder(bk[i])
<1>1. bk \in [1..Len(bk) -> OrderType] /\ Len(bk) \in Nat
  OBVIOUS
<1>2. closeOrder(bk[i]) \in OrderType
  BY <1>1, CloseFacts, ZenonT(20)
<1>3. bk2 \in [1..Len(bk) -> OrderType]
  BY <1>1, <1>2
<1> QED
  BY <1>1, <1>2, <1>3

\* A BUY or SELL that is accepted appends one live order.
LEMMA OrderReceivedFacts ==
    ASSUME TypeOK,
           NEW t \in Trader, NEW side \in Side, NEW item \in Product,
           NEW id \in IdWord, NEW quantity \in QuantityWord, NEW price \in PriceWord,
           OrderReceived(t, side, id, item, quantity, price)
    PROVE  /\ orderbook' \in Seq(OrderType) /\ Len(orderbook') = Len(orderbook) + 1
           /\ \A i \in Position : orderbook'[i] = orderbook[i]
           /\ orderbook'[Len(orderbook) + 1] = newOrder(t, side, id, item, quantity, price)
  BY NewOrderType DEF OrderReceived, TypeOK, Position

\* An AMEND that is accepted closes one live order and appends its live
\* replacement.
LEMMA AmendRequestFacts ==
    ASSUME TypeOK, NEW t \in Trader,
           NEW id \in IdWord, NEW quantity \in QuantityWord, NEW price \in PriceWord,
           AmendRequest(t, id, quantity, price)
    PROVE  \E i \in AmendTarget(t, atoi(id)) :
             /\ i \in Position /\ Live(i)
             /\ orderbook[i].trader = t /\ orderbook[i].order_id = atoi(id)
             /\ orderbook[i].order_type \in Side /\ orderbook[i].item \in Product
             /\ placing' = [side |-> orderbook[i].order_type, pos |-> Len(orderbook) + 1]
             /\ orderbook' \in Seq(OrderType) /\ Len(orderbook') = Len(orderbook) + 1
             /\ \A j \in Position : j # i => orderbook'[j] = orderbook[j]
             /\ orderbook'[i] = closeOrder(orderbook[i])
             /\ orderbook'[Len(orderbook) + 1] =
                  newOrder(t, orderbook[i].order_type, id, orderbook[i].item, quantity, price)
<1>1. PICK i \in AmendTarget(t, atoi(id)) :
        /\ orderbook' = Append([orderbook EXCEPT ![i] = closeOrder(orderbook[i])],
             newOrder(t, orderbook[i].order_type, id, orderbook[i].item, quantity, price))
        /\ placing' = StartPlacing(orderbook[i].order_type)
  BY DEF AmendRequest
<1>2. i \in Position /\ Live(i) /\ orderbook[i].trader = t /\ orderbook[i].order_id = atoi(id)
  BY BookType DEF AmendTarget, WithKey
<1>3. orderbook[i].order_type \in Side /\ orderbook[i].item \in Product
  BY <1>2, BookType DEF OrderType
<1> DEFINE new == newOrder(t, orderbook[i].order_type, id, orderbook[i].item, quantity, price)
           bk  == [orderbook EXCEPT ![i] = closeOrder(orderbook[i])]
<1>4. new \in OrderType
  BY <1>3, NewOrderType DEF AmendRequest
<1>5. /\ bk \in Seq(OrderType) /\ Len(bk) = Len(orderbook)
      /\ \A j \in Position : j # i => bk[j] = orderbook[j]
      /\ bk[i] = closeOrder(orderbook[i])
  BY <1>2, BookType, CloseInBook, ZenonT(60)
<1> HIDE DEF new, bk
<1>6. orderbook' = Append(bk, new)
  BY <1>1 DEF new, bk
<1>7. /\ orderbook' \in Seq(OrderType) /\ Len(orderbook') = Len(bk) + 1
      /\ \A j \in 1..Len(bk) : orderbook'[j] = bk[j]
      /\ orderbook'[Len(bk) + 1] = new
  BY <1>4, <1>5, <1>6
<1> QED
  BY <1>1, <1>2, <1>3, <1>5, <1>7, ZenonT(60) DEF StartPlacing, Position, new

\* AMEND leads the trader's entries for the id to the new order, which has that
\* id, and leaves every other list and entry as it is.
LEMMA AmendListFacts ==
    ASSUME TypeOK, NEW t \in Trader, NEW id \in IdWord,
           NEW quantity \in QuantityWord, NEW price \in PriceWord,
           AmendRequest(t, id, quantity, price)
    PROVE  /\ \A u \in Trader : u # t => orders'[u] = orders[u]
           /\ DOMAIN orders'[t] = DOMAIN orders[t]
           /\ \A k \in Entries(t, atoi(id)) : orders'[t][k] = Len(orderbook) + 1
           /\ \A k \in DOMAIN orders[t] :
                k \notin Entries(t, atoi(id)) => orders'[t][k] = orders[t][k]
           /\ orderbook'[Len(orderbook) + 1].trader = t
           /\ orderbook'[Len(orderbook) + 1].order_id = atoi(id)
<1> DEFINE lst == [k \in DOMAIN orders[t] |->
                     IF k \in Entries(t, atoi(id)) THEN Len(orderbook) + 1 ELSE orders[t][k]]
<1>1. orders' = [orders EXCEPT ![t] = lst]
  BY DEF AmendRequest
<1>2. /\ DOMAIN lst = DOMAIN orders[t]
      /\ \A k \in Entries(t, atoi(id)) : lst[k] = Len(orderbook) + 1
      /\ \A k \in DOMAIN orders[t] : k \notin Entries(t, atoi(id)) => lst[k] = orders[t][k]
  BY DEF Entries
<1> HIDE DEF lst
<1>3. DOMAIN orders = Trader
  BY DEF TypeOK
<1>4. orders'[t] = lst /\ \A u \in Trader : u # t => orders'[u] = orders[u]
  BY <1>1, <1>3
<1>5. PICK i : orderbook'[Len(orderbook) + 1] =
        newOrder(t, orderbook[i].order_type, id, orderbook[i].item, quantity, price)
  BY AmendRequestFacts
<1>6. /\ orderbook'[Len(orderbook) + 1].trader = t
      /\ orderbook'[Len(orderbook) + 1].order_id = atoi(id)
  BY <1>5 DEF newOrder
<1> QED
  BY <1>2, <1>4, <1>6

\* A CANCEL that is accepted closes one live order of the trader.
LEMMA CancelRequestFacts ==
    ASSUME TypeOK, NEW t \in Trader, NEW id \in IdWord, CancelRequest(t, id)
    PROVE  \E i \in Position :
             /\ Live(i)
             /\ orderbook' \in Seq(OrderType) /\ Len(orderbook') = Len(orderbook)
             /\ \A j \in Position : j # i => orderbook'[j] = orderbook[j]
             /\ orderbook'[i] = closeOrder(orderbook[i])
<1>1. PICK i \in getOrder(t, atoi(id)) :
        Live(i) /\ orderbook' = [orderbook EXCEPT ![i] = closeOrder(orderbook[i])]
  BY ZenonT(20) DEF CancelRequest
<1>2. i \in Position
  BY DEF getOrder, Entries, TypeOK
<1>3. /\ orderbook' \in Seq(OrderType) /\ Len(orderbook') = Len(orderbook)
      /\ \A j \in Position : j # i => orderbook'[j] = orderbook[j]
      /\ orderbook'[i] = closeOrder(orderbook[i])
  BY <1>1, <1>2, BookType, CloseInBook, ZenonT(20)
<1> QED
  BY <1>1, <1>2, <1>3

-----------------------------------------------------------------------------
(* Type correctness.                                                       *)

\* An order keeps its owner, its key, its side, its item and its price for
\* ever; only its quantity and its completed flag change.
SameOrder(o1, o2) ==
    /\ o2.trader = o1.trader /\ o2.order_id = o1.order_id
    /\ o2.order_type = o1.order_type /\ o2.item = o1.item
    /\ o2.unit_price = o1.unit_price

\* Every step keeps a well-formed book, extends it at most, and lets each
\* order in it keep its identity; a closed order stays as it is.
LEMMA BookStep ==
    ASSUME TypeOK, [Next]_vars
    PROVE  /\ orderbook' \in Seq(OrderType)
           /\ Len(orderbook') >= Len(orderbook)
           /\ \A i \in Position : SameOrder(orderbook[i], orderbook'[i])
           /\ \A i \in Position : ~Live(i) => orderbook'[i] = orderbook[i]
<1> DEFINE Goal == /\ orderbook' \in Seq(OrderType)
                   /\ Len(orderbook') >= Len(orderbook)
                   /\ \A i \in Position : SameOrder(orderbook[i], orderbook'[i])
                   /\ \A i \in Position : ~Live(i) => orderbook'[i] = orderbook[i]
<1>0. ASSUME orderbook' = orderbook PROVE Goal
  BY <1>0, BookType DEF SameOrder
<1>1. ASSUME NEW t \in Trader, Command(t) PROVE Goal
  <2>1. ASSUME NEW side \in Side, NEW item \in Product, NEW id \in IdWord,
               NEW quantity \in QuantityWord, NEW price \in PriceWord,
               OrderReceived(t, side, id, item, quantity, price)
        PROVE  Goal
    BY <2>1, OrderReceivedFacts, BookType DEF SameOrder
  <2>2. ASSUME NEW id \in IdWord, NEW quantity \in QuantityWord, NEW price \in PriceWord,
               AmendRequest(t, id, quantity, price)
        PROVE  Goal
    <3>1. PICK i \in Position :
             /\ Live(i)
             /\ orderbook' \in Seq(OrderType) /\ Len(orderbook') = Len(orderbook) + 1
             /\ \A j \in Position : j # i => orderbook'[j] = orderbook[j]
             /\ orderbook'[i] = closeOrder(orderbook[i])
      BY <2>2, AmendRequestFacts
    <3>2. SameOrder(orderbook[i], closeOrder(orderbook[i]))
      BY BookType, CloseFacts, ZenonT(20) DEF SameOrder
    <3>3. \A j \in Position : SameOrder(orderbook[j], orderbook'[j])
      <4> TAKE j \in Position
      <4> QED
        BY <3>1, <3>2 DEF SameOrder
    <3> QED
      BY <3>1, <3>3, BookType DEF Live
  <2>3. ASSUME NEW id \in IdWord, CancelRequest(t, id) PROVE Goal
    <3>1. PICK i \in Position :
             /\ Live(i)
             /\ orderbook' \in Seq(OrderType) /\ Len(orderbook') = Len(orderbook)
             /\ \A j \in Position : j # i => orderbook'[j] = orderbook[j]
             /\ orderbook'[i] = closeOrder(orderbook[i])
      BY <2>3, CancelRequestFacts
    <3>2. SameOrder(orderbook[i], closeOrder(orderbook[i]))
      BY BookType, CloseFacts, ZenonT(20) DEF SameOrder
    <3>3. \A j \in Position : SameOrder(orderbook[j], orderbook'[j])
      <4> TAKE j \in Position
      <4> QED
        BY <3>1, <3>2 DEF SameOrder
    <3> QED
      BY <3>1, <3>3, BookType DEF Live
  <2> QED
    BY <1>0, <1>1, <2>1, <2>2, <2>3
    DEF Command, OrderRejected, AmendRejected, CancelRejected, InvalidMessage, book
<1>2. CASE PlaceOrder
  <2>1. placing # Idle
    BY <1>2 DEF PlaceOrder
  <2>2. PICK r \in Counterparty(placing.side, placing.pos) : Trade(placing.pos, r)
    BY <1>2 DEF PlaceOrder
  <2>3. PICK amount \in Nat :
          /\ amount <= orderbook[placing.pos].quantity /\ amount <= orderbook[r].quantity
          /\ orderbook' \in Seq(OrderType) /\ Len(orderbook') = Len(orderbook)
          /\ \A i \in Position :
               orderbook'[i] = IF i \in {placing.pos, r} THEN Filled(orderbook[i], amount)
                                                        ELSE orderbook[i]
    BY <2>1, <2>2, TradeFacts
  <2>4. \A i \in Position : ~Live(i) => i \notin {placing.pos, r}
    BY <2>1, <2>2, CounterpartyFacts
  <2>5. \A i \in Position : i \in {placing.pos, r} =>
           SameOrder(orderbook[i], Filled(orderbook[i], amount))
    <3> SUFFICES ASSUME NEW i \in Position, i \in {placing.pos, r}
                 PROVE  SameOrder(orderbook[i], Filled(orderbook[i], amount))
      OBVIOUS
    <3>1. orderbook[i] \in OrderType /\ amount <= orderbook[i].quantity
      BY <2>3, BookType
    <3> QED
      BY <3>1, FilledType, ZenonT(60) DEF SameOrder
  <2>6. \A j \in Position : SameOrder(orderbook[j], orderbook'[j])
    <3> TAKE j \in Position
    <3> QED
      BY <2>3, <2>5 DEF SameOrder
  <2> QED
    BY <2>3, <2>4, <2>6, BookType
<1>3. CASE PlacingDone
  BY <1>0, <1>3 DEF PlacingDone, book
<1>4. CASE UNCHANGED vars
  BY <1>0, <1>4 DEF vars
<1> QED
  BY <1>1, <1>2, <1>3, <1>4 DEF Next

\* The type invariant holds initially ...
LEMMA TypeInit == Init => TypeOK
<1> SUFFICES ASSUME Init PROVE TypeOK
  OBVIOUS
<1>1. orderbook \in Seq(OrderType) /\ completed_trades \in Seq(TradeType) /\ Len(orderbook) = 0
  BY DEF Init
<1>2. orders \in [Trader -> Seq(Nat)] /\ \A t \in Trader : orders[t] = <<>>
  BY DEF Init
<1>3. /\ inventory_quantity \in [Trader -> [Product -> Int]]
      /\ bank \in [Trader -> [Product -> Int]]
      /\ transaction_fee \in Nat /\ placing = Idle /\ order = 0
  BY DEF Init, NULL
<1> QED
  BY <1>1, <1>2, <1>3 DEF TypeOK

\* The part of the type invariant that concerns the lists of the traders.
ListsOK ==
    /\ orders \in [Trader -> Seq(Nat)]
    /\ \A t \in Trader : \A k \in DOMAIN orders[t] :
         orders[t][k] \in Position /\ orderbook[orders[t][k]].trader = t

\* A step that keeps the lists keeps that part.
LEMMA SameListsOK ==
    ASSUME TypeOK, [Next]_vars, orders' = orders PROVE ListsOK'
<1>1. ListsOK
  BY DEF TypeOK, ListsOK
<1>2. /\ orderbook' \in Seq(OrderType) /\ Len(orderbook') >= Len(orderbook)
      /\ \A i \in Position : orderbook'[i].trader = orderbook[i].trader
  BY BookStep DEF SameOrder
<1>3. \A i \in Position : i \in Position'
  BY <1>2, BookType DEF Position
<1> QED
  BY <1>1, <1>2, <1>3, ZenonT(20) DEF ListsOK

\* ... and every step of every command keeps it.
LEMMA TypeStep == TypeOK /\ [Next]_vars => TypeOK'
<1> SUFFICES ASSUME TypeOK, [Next]_vars PROVE TypeOK'
  OBVIOUS
<1>b. /\ orderbook' \in Seq(OrderType) /\ Len(orderbook') >= Len(orderbook)
      /\ Len(orderbook) \in Nat /\ Len(orderbook') \in Nat
      /\ \A i \in Position : i \in Position' /\ orderbook'[i].trader = orderbook[i].trader
  BY BookStep, BookType DEF SameOrder, Position
<1>p. 0..Len(orderbook) \subseteq 0..Len(orderbook')
  BY <1>b
<1> DEFINE Accounts == /\ completed_trades \in Seq(TradeType)
                       /\ transaction_fee \in Nat
                       /\ inventory_quantity \in [Trader -> [Product -> Int]]
                       /\ bank \in [Trader -> [Product -> Int]]
           Control == /\ order \in 0..Len(orderbook)
                      /\ placing \in {Idle} \cup [side : Side, pos : 0..Len(orderbook)]
<1>d. TypeOK' <=> /\ orderbook' \in Seq(OrderType) /\ ListsOK' /\ Accounts' /\ Control'
  BY DEF TypeOK, ListsOK
<1>t. ListsOK /\ Accounts /\ Control
  BY DEF TypeOK, ListsOK
<1>u. UNCHANGED ledger => Accounts'
  BY <1>t DEF ledger
<1>c. UNCHANGED <<order, placing>> => Control'
  <2> SUFFICES ASSUME UNCHANGED <<order, placing>> PROVE Control'
    OBVIOUS
  <2>1. order' \in 0..Len(orderbook')
    BY <1>t, <1>p, ZenonT(20)
  <2>2. placing' \in {Idle} \cup [side : Side, pos : 0..Len(orderbook')]
    BY <1>t, <1>p
  <2> QED
    BY <2>1, <2>2
<1>n. NULL \in 0..Len(orderbook')
  BY <1>b DEF NULL
<1>1. ASSUME NEW t \in Trader, NEW side \in Side, NEW item \in Product, NEW id \in IdWord,
             NEW quantity \in QuantityWord, NEW price \in PriceWord,
             OrderReceived(t, side, id, item, quantity, price)
      PROVE  TypeOK'
  <2>1. Len(orderbook') = Len(orderbook) + 1
        /\ orderbook'[Len(orderbook) + 1] = newOrder(t, side, id, item, quantity, price)
    BY <1>1, OrderReceivedFacts
  <2>2. Control'
    BY <1>1, <1>b, <2>1 DEF OrderReceived, StartPlacing
  <2>3. orders' = [orders EXCEPT ![t] = Append(orders[t], Len(orderbook) + 1)]
    BY <1>1 DEF OrderReceived
  <2>4. Len(orderbook) + 1 \in Position' /\ orderbook'[Len(orderbook) + 1].trader = t
    BY <1>b, <2>1 DEF Position, newOrder
  <2>5. ListsOK'
    <3>1. orders' \in [Trader -> Seq(Nat)]
      BY <1>b, <1>t, <2>3 DEF ListsOK
    <3>2. ASSUME NEW u \in Trader, NEW k \in DOMAIN orders'[u]
          PROVE  orders'[u][k] \in Position' /\ orderbook'[orders'[u][k]].trader = u
      <4>1. CASE u = t
        <5>1. orders[t] \in Seq(Nat) /\ orders'[t] = Append(orders[t], Len(orderbook) + 1)
          BY <1>t, <2>3 DEF ListsOK
        <5>2. CASE k \in DOMAIN orders[t]
          <6>1. orders'[t][k] = orders[t][k]
            BY <5>1, <5>2
          <6>2. orders[t][k] \in Position /\ orderbook[orders[t][k]].trader = t
            BY <1>t, <5>2 DEF ListsOK
          <6> QED
            BY <1>b, <4>1, <6>1, <6>2
        <5>3. CASE k = Len(orders[t]) + 1
          BY <2>4, <4>1, <5>1, <5>3
        <5> QED
          BY <3>2, <4>1, <5>1, <5>2, <5>3
      <4>2. CASE u # t
        BY <1>b, <1>t, <2>3, <3>2, <4>2, ZenonT(60) DEF ListsOK
      <4> QED
        BY <4>1, <4>2
    <3> QED
      BY <3>1, <3>2 DEF ListsOK
  <2>6. Accounts'
    BY <1>1, <1>u DEF OrderReceived
  <2> QED
    BY <1>b, <1>d, <2>2, <2>5, <2>6
<1>2. ASSUME NEW t \in Trader, NEW id \in IdWord,
             NEW quantity \in QuantityWord, NEW price \in PriceWord,
             AmendRequest(t, id, quantity, price)
      PROVE  TypeOK'
  <2>1. PICK i \in Position :
          /\ orderbook[i].order_type \in Side
          /\ placing' = [side |-> orderbook[i].order_type, pos |-> Len(orderbook) + 1]
          /\ Len(orderbook') = Len(orderbook) + 1
          /\ orderbook'[Len(orderbook) + 1] =
               newOrder(t, orderbook[i].order_type, id, orderbook[i].item, quantity, price)
    BY <1>2, AmendRequestFacts
  <2>2. Control'
    BY <1>2, <1>b, <1>t, <1>p, <2>1 DEF AmendRequest
  <2>3. /\ \A u \in Trader : u # t => orders'[u] = orders[u]
        /\ DOMAIN orders'[t] = DOMAIN orders[t]
        /\ \A k \in DOMAIN orders[t] : orders'[t][k] \in {Len(orderbook) + 1, orders[t][k]}
        /\ orderbook'[Len(orderbook) + 1].trader = t
    BY <1>2, AmendListFacts
  <2>4. Len(orderbook) + 1 \in Position' /\ orderbook'[Len(orderbook) + 1].trader = t
    BY <1>b, <2>1, <2>3 DEF Position
  <2>5. ListsOK'
    <3>1. orders[t] \in Seq(Nat)
      BY <1>t DEF ListsOK
    <3>2. orders'[t] \in Seq(Nat)
      <4>0. orders'[t] = [k \in DOMAIN orders[t] |-> orders'[t][k]]
        BY <1>2, <1>t DEF AmendRequest, ListsOK
      <4>n. \A k \in DOMAIN orders[t] : orders'[t][k] \in Nat
        BY <1>b, <2>3, <3>1
      <4>1. orders'[t] \in [1..Len(orders[t]) -> Nat]
        <5>1. orders'[t] \in [DOMAIN orders[t] -> Nat]
          BY <4>0, <4>n, ZenonT(20)
        <5>2. DOMAIN orders[t] = 1..Len(orders[t])
          BY <3>1
        <5> QED
          BY <5>1, <5>2
      <4>2. Len(orders[t]) \in Nat
        BY <3>1
      <4> QED
        BY <4>1, <4>2
    <3>3. orders' \in [Trader -> Seq(Nat)]
      <4>1. orders' = [u \in Trader |-> orders'[u]]
        BY <1>2, <1>t, ZenonT(60) DEF ListsOK, AmendRequest
      <4>2. \A u \in Trader : orders'[u] \in Seq(Nat)
        BY <1>t, <2>3, <3>2, ZenonT(60) DEF ListsOK
      <4> QED
        BY <4>1, <4>2, ZenonT(20)
    <3>4. ASSUME NEW u \in Trader, NEW k \in DOMAIN orders'[u]
          PROVE  orders'[u][k] \in Position' /\ orderbook'[orders'[u][k]].trader = u
      <4>1. CASE u = t
        <5>1. k \in DOMAIN orders[t]
          BY <2>3, <3>4, <4>1
        <5>2. orders[t][k] \in Position /\ orderbook[orders[t][k]].trader = t
          BY <1>t, <5>1 DEF ListsOK
        <5>3. CASE orders'[t][k] = Len(orderbook) + 1
          BY <2>4, <4>1, <5>3
        <5>4. CASE orders'[t][k] = orders[t][k]
          BY <1>b, <4>1, <5>2, <5>4
        <5> QED
          BY <2>3, <5>1, <5>3, <5>4
      <4>2. CASE u # t
        <5>1. orders'[u] = orders[u] /\ k \in DOMAIN orders[u]
          BY <2>3, <3>4, <4>2
        <5>2. orders[u][k] \in Position /\ orderbook[orders[u][k]].trader = u
          BY <1>t, <5>1 DEF ListsOK
        <5> QED
          BY <1>b, <5>1, <5>2
      <4> QED
        BY <4>1, <4>2
    <3> QED
      BY <3>3, <3>4 DEF ListsOK
  <2>6. Accounts'
    BY <1>2, <1>u DEF AmendRequest
  <2> QED
    BY <1>b, <1>d, <2>2, <2>5, <2>6
<1>3. ASSUME NEW t \in Trader, NEW id \in IdWord, CancelRequest(t, id) PROVE TypeOK'
  BY <1>3, <1>b, <1>c, <1>d, <1>u, SameListsOK DEF CancelRequest
<1>4. ASSUME NEW t \in Trader, NEW id \in IdWord,
             NEW quantity \in QuantityWord, NEW price \in PriceWord,
             OrderRejected(t, id, quantity, price)
      PROVE  TypeOK'
  <2>1. Control'
    BY <1>4, <1>n, <1>t DEF OrderRejected, book
  <2> QED
    BY <1>4, <1>b, <1>d, <1>u, <2>1, SameListsOK DEF OrderRejected, book
<1>5. CASE PlaceOrder
  <2>1. PICK r \in Counterparty(placing.side, placing.pos) : Trade(placing.pos, r)
    BY <1>5 DEF PlaceOrder
  <2>2. Accounts'
    BY <1>5, <2>1, TradeAccounts DEF PlaceOrder
  <2>3. placing' = [placing EXCEPT !.pos = order] /\ order' = order /\ placing # Idle
    BY <1>5 DEF PlaceOrder
  <2>4. Control'
    BY <1>p, <1>t, <2>3
  <2> QED
    BY <1>5, <1>b, <1>d, <2>2, <2>4, SameListsOK DEF PlaceOrder
<1>6. CASE PlacingDone
  <2>1. Control'
    BY <1>6, <1>p, <1>t, ZenonT(20) DEF PlacingDone
  <2> QED
    BY <1>6, <1>b, <1>d, <1>u, <2>1, SameListsOK DEF PlacingDone, book
<1>7. ASSUME UNCHANGED vars PROVE TypeOK'
  BY <1>7, <1>b, <1>c, <1>d, <1>u, SameListsOK DEF vars, ledger
<1>8. ASSUME NEW t \in Trader, Command(t) PROVE TypeOK'
  BY <1>8, <1>1, <1>2, <1>3, <1>4, <1>7
  DEF Command, AmendRejected, CancelRejected, InvalidMessage, book, ledger, vars
<1> QED
  BY <1>5, <1>6, <1>7, <1>8 DEF Next

\* The variables of the matching engine always have their types: in
\* particular every pointer to an order (trader lists, `order', the order
\* being placed) points into the book or is NULL, and no quantity, price or
\* fee ever gets negative.
THEOREM TypeCorrect == Spec => []TypeOK
<1> QED
  BY TypeInit, TypeStep, PTL DEF Spec

\* Once closed by a trade, a CANCEL or an AMEND, an order is never changed or
\* reopened by any later step.
THEOREM ClosedForever == Spec => ClosedOrdersStayClosed
<1>1. TypeOK /\ [Next]_vars =>
        [\A i \in Position : ~Live(i) => orderbook'[i] = orderbook[i]]_vars
  BY BookStep
<1> QED
  BY <1>1, TypeCorrect, PTL DEF Spec, ClosedOrdersStayClosed

-----------------------------------------------------------------------------
(* A live order has units left.                                            *)

\* Every step keeps the units of live orders positive and bounded.
LEMMA UnitsStep == TypeOK /\ LiveOrdersHaveUnits /\ [Next]_vars => LiveOrdersHaveUnits'
<1> SUFFICES ASSUME TypeOK, LiveOrdersHaveUnits, [Next]_vars PROVE LiveOrdersHaveUnits'
  OBVIOUS
<1> DEFINE OK(o) == ~o.completed => o.quantity \in 1..MAX_QUANTITY
<1>h. \A i \in Position : OK(orderbook[i])
  BY DEF LiveOrdersHaveUnits, Live
<1>g. SUFFICES \A i \in Position' : OK(orderbook'[i])
  BY DEF LiveOrdersHaveUnits, Live
<1> HIDE DEF OK
<1>n. ASSUME NEW t \in Trader, NEW side \in Side, NEW item \in Product, NEW id \in IdWord,
             NEW quantity \in QuantityWord, NEW price \in PriceWord,
             newOrderOK(t, id, quantity, price)
      PROVE  OK(newOrder(t, side, id, item, quantity, price))
  BY <1>n, NewOrderType, ZenonT(20) DEF newOrder, OK
<1>c. \A o \in OrderType : OK(closeOrder(o))
  BY CloseFacts, ZenonT(20) DEF OK
<1>0. ASSUME orderbook' = orderbook PROVE \A i \in Position' : OK(orderbook'[i])
  BY <1>0, <1>h DEF Position
<1>1. ASSUME NEW t \in Trader, NEW side \in Side, NEW item \in Product, NEW id \in IdWord,
             NEW quantity \in QuantityWord, NEW price \in PriceWord,
             OrderReceived(t, side, id, item, quantity, price)
      PROVE  \A i \in Position' : OK(orderbook'[i])
  <2>1. OK(newOrder(t, side, id, item, quantity, price))
    BY <1>1, <1>n DEF OrderReceived
  <2> QED
    BY <1>1, <1>h, <2>1, OrderReceivedFacts, BookType DEF Position
<1>2. ASSUME NEW t \in Trader, NEW id \in IdWord,
             NEW quantity \in QuantityWord, NEW price \in PriceWord,
             AmendRequest(t, id, quantity, price)
      PROVE  \A i \in Position' : OK(orderbook'[i])
  <2>1. PICK i \in Position :
          /\ orderbook[i].order_type \in Side /\ orderbook[i].item \in Product
          /\ Len(orderbook') = Len(orderbook) + 1
          /\ \A j \in Position : j # i => orderbook'[j] = orderbook[j]
          /\ orderbook'[i] = closeOrder(orderbook[i])
          /\ orderbook'[Len(orderbook) + 1] =
               newOrder(t, orderbook[i].order_type, id, orderbook[i].item, quantity, price)
    BY <1>2, AmendRequestFacts
  <2>2. OK(orderbook'[Len(orderbook) + 1])
    BY <1>2, <1>n, <2>1 DEF AmendRequest
  <2>3. OK(orderbook'[i])
    BY <1>c, <2>1, BookType
  <2> QED
    BY <1>h, <2>1, <2>2, <2>3, BookType DEF Position
<1>3. ASSUME NEW t \in Trader, NEW id \in IdWord, CancelRequest(t, id)
      PROVE  \A i \in Position' : OK(orderbook'[i])
  <2>1. PICK i \in Position :
          /\ Len(orderbook') = Len(orderbook)
          /\ \A j \in Position : j # i => orderbook'[j] = orderbook[j]
          /\ orderbook'[i] = closeOrder(orderbook[i])
    BY <1>3, CancelRequestFacts
  <2>2. OK(orderbook'[i])
    BY <1>c, <2>1, BookType
  <2> QED
    BY <1>h, <2>1, <2>2, BookType DEF Position
<1>4. CASE PlaceOrder
  <2>1. PICK r \in Counterparty(placing.side, placing.pos) : Trade(placing.pos, r)
    BY <1>4 DEF PlaceOrder
  <2>2. placing # Idle
    BY <1>4 DEF PlaceOrder
  <2>3. PICK amount \in Nat :
          /\ amount <= orderbook[placing.pos].quantity /\ amount <= orderbook[r].quantity
          /\ Len(orderbook') = Len(orderbook)
          /\ \A i \in Position :
               orderbook'[i] = IF i \in {placing.pos, r} THEN Filled(orderbook[i], amount)
                                                        ELSE orderbook[i]
    BY <2>1, <2>2, TradeFacts
  <2>4. \A i \in {placing.pos, r} : i \in Position /\ Live(i)
    BY <2>1, <2>2, CounterpartyFacts
  <2>5. \A i \in {placing.pos, r} : OK(Filled(orderbook[i], amount))
    <3> TAKE i \in {placing.pos, r}
    <3> DEFINE o == orderbook[i]
    <3>1. o \in OrderType /\ o.quantity \in 1..MAX_QUANTITY /\ amount <= o.quantity
      BY <1>h, <2>3, <2>4, BookType DEF OK, Live
    <3>2. /\ Filled(o, amount).quantity = o.quantity - amount
          /\ amount = o.quantity => Filled(o, amount).completed = TRUE
      BY <3>1, FilledType, ZenonT(20)
    <3> HIDE DEF o
    <3> QED
      BY <3>1, <3>2, MarketAssumption DEF OK, o
  <2> QED
    BY <1>h, <2>3, <2>5, BookType DEF Position
<1>5. ASSUME NEW t \in Trader, Command(t) PROVE \A i \in Position' : OK(orderbook'[i])
  BY <1>5, <1>0, <1>1, <1>2, <1>3
  DEF Command, OrderRejected, AmendRejected, CancelRejected, InvalidMessage, book
<1> QED
  BY <1>0, <1>4, <1>5 DEF Next, PlacingDone, book, vars

\* A step that does not trade takes units from no order, and the order that it
\* may add has the quantity that newOrder() accepts.
LEMMA QuantityStep ==
    ASSUME TypeOK, [Next]_vars, ~PlaceOrder
    PROVE  /\ \A i \in Position : orderbook'[i].quantity = orderbook[i].quantity
           /\ \A i \in Position' \ Position : orderbook'[i].quantity \in 1..MAX_QUANTITY
<1> DEFINE Goal == /\ \A i \in Position : orderbook'[i].quantity = orderbook[i].quantity
                   /\ \A i \in Position' \ Position :
                        orderbook'[i].quantity \in 1..MAX_QUANTITY
<1>0. ASSUME orderbook' = orderbook PROVE Goal
  BY <1>0 DEF Position
<1>c. \A i \in Position : closeOrder(orderbook[i]).quantity = orderbook[i].quantity
  BY BookType, CloseFacts, ZenonT(20)
<1>n. ASSUME NEW t \in Trader, NEW side \in Side, NEW item \in Product, NEW id \in IdWord,
             NEW quantity \in QuantityWord, NEW price \in PriceWord,
             newOrderOK(t, id, quantity, price)
      PROVE  newOrder(t, side, id, item, quantity, price).quantity \in 1..MAX_QUANTITY
  BY <1>n, NewOrderType, ZenonT(20) DEF newOrder
<1>p. ASSUME Len(orderbook') = Len(orderbook) + 1
      PROVE  \A i \in Position' \ Position : i = Len(orderbook) + 1
  BY <1>p, BookType DEF Position
<1>1. ASSUME NEW t \in Trader, NEW side \in Side, NEW item \in Product, NEW id \in IdWord,
             NEW quantity \in QuantityWord, NEW price \in PriceWord,
             OrderReceived(t, side, id, item, quantity, price)
      PROVE  Goal
  <2>1. /\ Len(orderbook') = Len(orderbook) + 1
        /\ \A i \in Position : orderbook'[i] = orderbook[i]
        /\ orderbook'[Len(orderbook) + 1] = newOrder(t, side, id, item, quantity, price)
    BY <1>1, OrderReceivedFacts
  <2>2. orderbook'[Len(orderbook) + 1].quantity \in 1..MAX_QUANTITY
    BY <1>1, <1>n, <2>1 DEF OrderReceived
  <2> QED
    BY <1>p, <2>1, <2>2
<1>2. ASSUME NEW t \in Trader, NEW id \in IdWord,
             NEW quantity \in QuantityWord, NEW price \in PriceWord,
             AmendRequest(t, id, quantity, price)
      PROVE  Goal
  <2>1. PICK i \in Position :
          /\ orderbook[i].order_type \in Side /\ orderbook[i].item \in Product
          /\ Len(orderbook') = Len(orderbook) + 1
          /\ \A j \in Position : j # i => orderbook'[j] = orderbook[j]
          /\ orderbook'[i] = closeOrder(orderbook[i])
          /\ orderbook'[Len(orderbook) + 1] =
               newOrder(t, orderbook[i].order_type, id, orderbook[i].item, quantity, price)
    BY <1>2, AmendRequestFacts
  <2>v. newOrderOK(t, id, quantity, price)
    BY <1>2 DEF AmendRequest
  <2>2. orderbook'[Len(orderbook) + 1].quantity \in 1..MAX_QUANTITY
    BY <1>n, <2>1, <2>v
  <2>3. \A j \in Position : orderbook'[j].quantity = orderbook[j].quantity
    BY <1>c, <2>1
  <2> QED
    BY <1>p, <2>1, <2>2, <2>3
<1>3. ASSUME NEW t \in Trader, NEW id \in IdWord, CancelRequest(t, id) PROVE Goal
  <2>1. PICK i \in Position :
          /\ Len(orderbook') = Len(orderbook)
          /\ \A j \in Position : j # i => orderbook'[j] = orderbook[j]
          /\ orderbook'[i] = closeOrder(orderbook[i])
    BY <1>3, CancelRequestFacts
  <2>2. \A j \in Position : orderbook'[j].quantity = orderbook[j].quantity
    BY <1>c, <2>1
  <2> QED
    BY <2>1, <2>2 DEF Position
<1>4. ASSUME NEW t \in Trader, Command(t) PROVE Goal
  BY <1>4, <1>0, <1>1, <1>2, <1>3
  DEF Command, OrderRejected, AmendRejected, CancelRejected, InvalidMessage, book
<1> QED
  BY <1>0, <1>4 DEF Next, PlacingDone, book, vars

\* No order stays live with nothing left to trade, and none is closed by
\* being overfilled: the quantity tests of the place functions never decide.
THEOREM LiveUnits == Spec => []LiveOrdersHaveUnits
<1>1. Init => LiveOrdersHaveUnits
  BY DEF Init, LiveOrdersHaveUnits, Position
<1> QED
  BY <1>1, TypeCorrect, UnitsStep, PTL DEF Spec

-----------------------------------------------------------------------------
(* The trader's list leads to its live orders.                             *)

\* The inductive form of LiveOrdersReachable: some entry of the owner's list
\* is the order.
Listed(i) == \E k \in DOMAIN orders[orderbook[i].trader] :
                 orders[orderbook[i].trader][k] = i

ReachInv == NoIdReused => \A i \in Position : Live(i) => Listed(i)

IdOf(t, k) == orderbook[orders[t][k]].order_id

\* Entries stay in the list and keep their id, so that a reused id stays
\* reused.
LEMMA ListStep ==
    ASSUME TypeOK, [Next]_vars
    PROVE  \A t \in Trader : \A k \in DOMAIN orders[t] :
              k \in DOMAIN orders'[t] /\ IdOf(t, k)' = IdOf(t, k)
<1> DEFINE Goal == \A t \in Trader : \A k \in DOMAIN orders[t] :
                     k \in DOMAIN orders'[t] /\ IdOf(t, k)' = IdOf(t, k)
<1>l. /\ orders \in [Trader -> Seq(Nat)]
      /\ \A t \in Trader : \A k \in DOMAIN orders[t] : orders[t][k] \in Position
  BY DEF TypeOK
<1>b. \A i \in Position : orderbook'[i].order_id = orderbook[i].order_id
  BY BookStep DEF SameOrder
<1>0. ASSUME orders' = orders PROVE Goal
  BY <1>0, <1>l, <1>b DEF IdOf
<1>1. ASSUME NEW t \in Trader, NEW side \in Side, NEW item \in Product, NEW id \in IdWord,
             NEW quantity \in QuantityWord, NEW price \in PriceWord,
             OrderReceived(t, side, id, item, quantity, price)
      PROVE  Goal
  <2>1. orders' = [orders EXCEPT ![t] = Append(orders[t], Len(orderbook) + 1)]
    BY <1>1 DEF OrderReceived
  <2>2. \A u \in Trader : \A k \in DOMAIN orders[u] :
          k \in DOMAIN orders'[u] /\ orders'[u][k] = orders[u][k]
    <3> TAKE u \in Trader
    <3>1. CASE u = t
      <4>1. orders[t] \in Seq(Nat) /\ orders'[t] = Append(orders[t], Len(orderbook) + 1)
        BY <1>l, <2>1
      <4> QED
        BY <3>1, <4>1
    <3>2. CASE u # t
      BY <1>l, <2>1, <3>2
    <3> QED
      BY <3>1, <3>2
  <2> QED
    BY <1>l, <1>b, <2>2 DEF IdOf
<1>2. ASSUME NEW t \in Trader, NEW id \in IdWord,
             NEW quantity \in QuantityWord, NEW price \in PriceWord,
             AmendRequest(t, id, quantity, price)
      PROVE  Goal
  <2>1. /\ \A u \in Trader : u # t => orders'[u] = orders[u]
        /\ DOMAIN orders'[t] = DOMAIN orders[t]
        /\ \A k \in Entries(t, atoi(id)) : orders'[t][k] = Len(orderbook) + 1
        /\ \A k \in DOMAIN orders[t] :
             k \notin Entries(t, atoi(id)) => orders'[t][k] = orders[t][k]
        /\ orderbook'[Len(orderbook) + 1].order_id = atoi(id)
    BY <1>2, AmendListFacts
  <2>3. ASSUME NEW u \in Trader, NEW k \in DOMAIN orders[u]
        PROVE  k \in DOMAIN orders'[u] /\ IdOf(u, k)' = IdOf(u, k)
    <3>1. CASE u # t
      BY <1>l, <1>b, <2>1, <3>1 DEF IdOf
    <3>2. CASE u = t /\ k \notin Entries(t, atoi(id))
      BY <1>l, <1>b, <2>1, <3>2 DEF IdOf
    <3>3. CASE u = t /\ k \in Entries(t, atoi(id))
      <4>1. IdOf(t, k) = atoi(id)
        BY <3>3 DEF IdOf, Entries
      <4> QED
        BY <2>1, <3>3, <4>1 DEF IdOf
    <3> QED
      BY <3>1, <3>2, <3>3
  <2> QED
    BY <2>3
<1>3. ASSUME NEW t \in Trader, Command(t) PROVE Goal
  BY <1>3, <1>0, <1>1, <1>2
  DEF Command, OrderRejected, AmendRejected, CancelRejected, CancelRequest, InvalidMessage, book
<1> QED
  BY <1>0, <1>3 DEF Next, PlaceOrder, PlacingDone, book, vars

\* A step that leaves the ids distinct started from distinct ids.
LEMMA NoIdReusedBackwards ==
    ASSUME TypeOK, [Next]_vars, NoIdReused' PROVE NoIdReused
<1> SUFFICES ASSUME NEW t \in Trader, NEW k \in DOMAIN orders[t], NEW l \in DOMAIN orders[t],
                    IdOf(t, k) = IdOf(t, l)
             PROVE  k = l
  BY DEF NoIdReused, IdOf
<1>1. /\ k \in DOMAIN orders'[t] /\ l \in DOMAIN orders'[t]
      /\ IdOf(t, k)' = IdOf(t, l)'
  BY ListStep
<1> QED
  BY <1>1 DEF NoIdReused, IdOf

\* Reachability is kept by every step: a new order is appended to the list,
\* an amended one takes the place of the order it replaces, and only that
\* order drops out of the list.
LEMMA ReachStep == TypeOK /\ ReachInv /\ [Next]_vars => ReachInv'
<1> SUFFICES ASSUME TypeOK, ReachInv, [Next]_vars, NoIdReused',
                    NEW i \in Position', Live(i)'
             PROVE  Listed(i)'
  BY DEF ReachInv
<1>r. NoIdReused /\ \A j \in Position : Live(j) => Listed(j)
  BY NoIdReusedBackwards DEF ReachInv
<1>l. /\ orders \in [Trader -> Seq(Nat)]
      /\ \A t \in Trader : \A k \in DOMAIN orders[t] : orders[t][k] \in Position
  BY DEF TypeOK
<1>b. /\ orderbook' \in Seq(OrderType)
      /\ \A j \in Position : orderbook'[j].trader = orderbook[j].trader
      /\ \A j \in Position : ~Live(j) => orderbook'[j] = orderbook[j]
  BY BookStep DEF SameOrder
<1>o. \A j \in Position : orderbook[j].trader \in Trader
  BY BookType DEF OrderType
<1>i. i \in Position => Live(i) /\ Listed(i)
  BY <1>b, <1>r DEF Live
<1>0. ASSUME orders' = orders, Len(orderbook') = Len(orderbook) PROVE Listed(i)'
  <2>1. i \in Position
    BY <1>0 DEF Position
  <2> QED
    BY <1>0, <1>b, <1>i, <2>1 DEF Listed
<1>1. ASSUME NEW t \in Trader, NEW side \in Side, NEW item \in Product, NEW id \in IdWord,
             NEW quantity \in QuantityWord, NEW price \in PriceWord,
             OrderReceived(t, side, id, item, quantity, price)
      PROVE  Listed(i)'
  <2>1. /\ Len(orderbook') = Len(orderbook) + 1
        /\ orderbook'[Len(orderbook) + 1] = newOrder(t, side, id, item, quantity, price)
    BY <1>1, OrderReceivedFacts
  <2>2. orders' = [orders EXCEPT ![t] = Append(orders[t], Len(orderbook) + 1)]
    BY <1>1 DEF OrderReceived
  <2>3. orders[t] \in Seq(Nat) /\ orders'[t] = Append(orders[t], Len(orderbook) + 1)
    BY <1>l, <2>2
  <2>4. CASE i = Len(orderbook) + 1
    <3>1. orderbook'[i].trader = t
      BY <2>1, <2>4 DEF newOrder
    <3>2. Len(orders[t]) + 1 \in DOMAIN orders'[t] /\ orders'[t][Len(orders[t]) + 1] = i
      BY <2>3, <2>4
    <3> QED
      BY <3>1, <3>2 DEF Listed
  <2>5. CASE i \in Position
    <3>1. PICK k \in DOMAIN orders[orderbook[i].trader] : orders[orderbook[i].trader][k] = i
      BY <1>i, <2>5 DEF Listed
    <3>2. k \in DOMAIN orders'[orderbook[i].trader] /\ orders'[orderbook[i].trader][k] = i
      <4>1. CASE orderbook[i].trader = t
        <5>1. k \in DOMAIN orders[t] /\ orders[t][k] = i
          BY <3>1, <4>1
        <5>2. k \in DOMAIN orders'[t] /\ orders'[t][k] = orders[t][k]
          BY <2>3, <5>1
        <5> QED
          BY <4>1, <5>1, <5>2
      <4>2. CASE orderbook[i].trader # t
        BY <1>l, <1>o, <2>2, <2>5, <3>1, <4>2
      <4> QED
        BY <4>1, <4>2
    <3> QED
      BY <1>b, <2>5, <3>2 DEF Listed
  <2> QED
    BY <2>1, <2>4, <2>5, BookType DEF Position
<1>2. ASSUME NEW t \in Trader, NEW id \in IdWord,
             NEW quantity \in QuantityWord, NEW price \in PriceWord,
             AmendRequest(t, id, quantity, price)
      PROVE  Listed(i)'
  <2>1. PICK j \in Position :
          /\ Live(j) /\ orderbook[j].trader = t /\ orderbook[j].order_id = atoi(id)
          /\ Len(orderbook') = Len(orderbook) + 1
          /\ orderbook'[j] = closeOrder(orderbook[j])
    BY <1>2, AmendRequestFacts
  <2>2. /\ \A u \in Trader : u # t => orders'[u] = orders[u]
        /\ DOMAIN orders'[t] = DOMAIN orders[t]
        /\ \A k \in Entries(t, atoi(id)) : orders'[t][k] = Len(orderbook) + 1
        /\ \A k \in DOMAIN orders[t] :
             k \notin Entries(t, atoi(id)) => orders'[t][k] = orders[t][k]
        /\ orderbook'[Len(orderbook) + 1].trader = t
    BY <1>2, AmendListFacts
  <2>3. PICK kj \in DOMAIN orders[t] : orders[t][kj] = j
    BY <1>r, <2>1 DEF Listed
  <2>4. kj \in Entries(t, atoi(id)) /\ \A k \in Entries(t, atoi(id)) : k = kj
    BY <1>r, <2>1, <2>3 DEF Entries, NoIdReused
  <2>5. i # j
    <3>1. orderbook'[j].completed = TRUE
      BY <2>1, BookType, CloseFacts, ZenonT(60)
    <3>2. ~orderbook'[i].completed
      BY DEF Live
    <3> QED
      BY <3>1, <3>2
  <2>6. CASE i = Len(orderbook) + 1
    <3>1. kj \in DOMAIN orders'[t] /\ orders'[t][kj] = i
      BY <2>2, <2>3, <2>4, <2>6
    <3> QED
      BY <2>2, <2>6, <3>1 DEF Listed
  <2>7. CASE i \in Position
    <3>1. PICK k \in DOMAIN orders[orderbook[i].trader] : orders[orderbook[i].trader][k] = i
      BY <1>i, <2>7 DEF Listed
    <3>2. k \in DOMAIN orders'[orderbook[i].trader] /\ orders'[orderbook[i].trader][k] = i
      <4>1. CASE orderbook[i].trader = t
        <5>1. k \notin Entries(t, atoi(id))
          BY <2>3, <2>4, <2>5, <3>1, <4>1
        <5> QED
          BY <2>2, <3>1, <4>1, <5>1
      <4>2. CASE orderbook[i].trader # t
        BY <1>o, <2>2, <2>7, <3>1, <4>2
      <4> QED
        BY <4>1, <4>2
    <3> QED
      BY <1>b, <2>7, <3>2 DEF Listed
  <2> QED
    BY <2>1, <2>6, <2>7, BookType DEF Position
<1>3. ASSUME NEW t \in Trader, NEW id \in IdWord, CancelRequest(t, id) PROVE Listed(i)'
  <2>1. Len(orderbook') = Len(orderbook)
    BY <1>3, CancelRequestFacts
  <2> QED
    BY <1>3, <1>0, <2>1 DEF CancelRequest
<1>4. CASE PlaceOrder
  <2>1. PICK r \in Counterparty(placing.side, placing.pos) : Trade(placing.pos, r)
    BY <1>4 DEF PlaceOrder
  <2>2. Len(orderbook') = Len(orderbook)
    BY <1>4, <2>1, TradeFacts DEF PlaceOrder
  <2> QED
    BY <1>4, <1>0, <2>2 DEF PlaceOrder
<1>5. ASSUME NEW t \in Trader, Command(t) PROVE Listed(i)'
  BY <1>5, <1>0, <1>1, <1>2, <1>3
  DEF Command, OrderRejected, AmendRejected, CancelRejected, InvalidMessage, book
<1> QED
  BY <1>0, <1>4, <1>5 DEF Next, PlacingDone, book, vars

\* Hence it holds in every state.
LEMMA ReachAlways == Spec => []ReachInv
<1>1. Init => ReachInv
  BY DEF Init, ReachInv, Position
<1> QED
  BY <1>1, TypeCorrect, ReachStep, PTL DEF Spec

\* Whatever was traded, cancelled or amended before, CANCEL finds exactly the
\* order meant, for every live order of a trader that never reused an id.
THEOREM Reachable == Spec => []LiveOrdersReachable
<1>1. TypeOK /\ ReachInv => LiveOrdersReachable
  <2> SUFFICES ASSUME TypeOK, ReachInv, NoIdReused, NEW i \in Position, Live(i)
               PROVE  getOrder(orderbook[i].trader, orderbook[i].order_id) = {i}
    BY DEF LiveOrdersReachable
  <2> DEFINE t == orderbook[i].trader
             id == orderbook[i].order_id
  <2>1. PICK k \in DOMAIN orders[t] : orders[t][k] = i
    BY DEF ReachInv, Listed
  <2>2. t \in Trader
    BY BookType DEF OrderType
  <2>3. Entries(t, id) = {k}
    BY <2>1, <2>2 DEF Entries, NoIdReused
  <2>4. k \in Nat
    BY <2>2 DEF TypeOK
  <2> QED
    BY <2>1, <2>3, <2>4 DEF getOrder
<1> QED
  BY <1>1, TypeCorrect, ReachAlways, PTL

-----------------------------------------------------------------------------
(* The numbering of a trader's orders.                                     *)

IdsNatural == \A i \in Position : orderbook[i].order_id >= 0

\* The numbering is kept by every step: only an accepted BUY or SELL makes a
\* list longer, and the bound on its id leaves one number for it.
LEMMA NumberStep == TypeOK /\ IdsConsecutive /\ [Next]_vars => IdsConsecutive'
<1> SUFFICES ASSUME TypeOK, IdsConsecutive, [Next]_vars, NoIdReused', IdsNatural',
                    NEW t \in Trader, NEW k \in DOMAIN orders'[t]
             PROVE  IdOf(t, k)' = k - 1
  BY DEF IdsConsecutive, IdsNatural, IdOf
<1>b. /\ Len(orderbook') >= Len(orderbook) /\ orderbook' \in Seq(OrderType)
      /\ \A i \in Position : orderbook'[i].order_id = orderbook[i].order_id
  BY BookStep DEF SameOrder
<1>1. NoIdReused /\ IdsNatural
  <2>1. \A i \in Position : i \in Position'
    BY <1>b, BookType DEF Position
  <2> QED
    BY <1>b, <2>1, NoIdReusedBackwards DEF IdsNatural
<1>2. \A l \in DOMAIN orders[t] : IdOf(t, l) = l - 1 /\ IdOf(t, l)' = l - 1 /\ l \in DOMAIN orders'[t]
  BY <1>1, ListStep DEF IdsConsecutive, IdsNatural, IdOf
<1>3. orders[t] \in Seq(Nat) /\ orders \in [Trader -> Seq(Nat)]
  BY DEF TypeOK
<1>4. ASSUME NEW side \in Side, NEW item \in Product, NEW id \in IdWord,
             NEW quantity \in QuantityWord, NEW price \in PriceWord,
             OrderReceived(t, side, id, item, quantity, price), k \notin DOMAIN orders[t]
      PROVE  IdOf(t, k)' = k - 1
  <2>1. orders'[t] = Append(orders[t], Len(orderbook) + 1)
    BY <1>3, <1>4 DEF OrderReceived
  <2>2. k = Len(orders[t]) + 1 /\ orders'[t][k] = Len(orderbook) + 1
    BY <1>3, <1>4, <2>1
  <2>3. /\ Len(orderbook') = Len(orderbook) + 1
        /\ orderbook'[Len(orderbook) + 1] = newOrder(t, side, id, item, quantity, price)
    BY <1>4, OrderReceivedFacts
  <2>4. IdOf(t, k)' = atoi(id)
    BY <2>2, <2>3 DEF IdOf, newOrder
  <2>5. atoi(id) \in Int /\ atoi(id) <= Len(orders[t])
    BY <1>4, NewOrderType DEF OrderReceived, newOrderOK
  <2>6. atoi(id) >= 0
    BY <2>2, <2>3, <2>4, BookType DEF IdsNatural, Position, IdOf
  <2>7. CASE atoi(id) < Len(orders[t])
    <3>1. atoi(id) + 1 \in DOMAIN orders[t]
      BY <1>3, <2>5, <2>6, <2>7
    <3>2. IdOf(t, atoi(id) + 1)' = IdOf(t, k)' /\ atoi(id) + 1 \in DOMAIN orders'[t]
      BY <1>2, <2>4, <2>5, <3>1
    <3>3. k = atoi(id) + 1
      BY <3>2 DEF NoIdReused, IdOf
    <3> QED
      BY <1>4, <3>1, <3>3
  <2> QED
    BY <1>3, <2>2, <2>4, <2>5, <2>7
<1>5. CASE k \in DOMAIN orders[t]
  BY <1>2, <1>5
<1>6. CASE k \notin DOMAIN orders[t]
  <2>1. PICK u \in Trader : Command(u)
    BY <1>6 DEF Next, PlaceOrder, PlacingDone, book, vars
  <2>2. ASSUME NEW id \in IdWord, NEW quantity \in QuantityWord, NEW price \in PriceWord
        PROVE  ~AmendRequest(u, id, quantity, price)
    BY <1>3, <1>6, ZenonT(20) DEF AmendRequest
  <2>3. PICK side \in Side, item \in Product, id \in IdWord, quantity \in QuantityWord,
             price \in PriceWord : OrderReceived(u, side, id, item, quantity, price)
    BY <1>6, <2>1, <2>2 DEF Command, OrderRejected, AmendRejected, CancelRejected,
                            CancelRequest, InvalidMessage, book
  <2>4. u = t
    BY <1>3, <1>6, <2>3 DEF OrderReceived
  <2> QED
    BY <1>4, <1>6, <2>3, <2>4
<1> QED
  BY <1>5, <1>6

\* A trader that neither reuses an id nor wraps one numbers its orders from
\* zero on without gaps.
THEOREM IdsAreConsecutive == Spec => []IdsConsecutive
<1>1. Init => IdsConsecutive
  BY DEF Init, IdsConsecutive
<1> QED
  BY <1>1, TypeCorrect, NumberStep, PTL DEF Spec

-----------------------------------------------------------------------------
(* Price-time priority.                                                    *)

\* Two live orders that share trader and id are the same order, if no id was
\* reused.
LEMMA LiveKeysDistinct ==
    ASSUME TypeOK, ReachInv, NoIdReused,
           NEW i \in Position, NEW j \in Position, Live(i), Live(j),
           orderbook[i].trader = orderbook[j].trader,
           orderbook[i].order_id = orderbook[j].order_id
    PROVE  i = j
<1> DEFINE t == orderbook[i].trader
<1>1. PICK k \in DOMAIN orders[t] : orders[t][k] = i
  BY DEF ReachInv, Listed
<1>2. PICK l \in DOMAIN orders[t] : orders[t][l] = j
  BY DEF ReachInv, Listed
<1>3. t \in Trader
  BY BookType DEF OrderType
<1>4. k = l
  BY <1>1, <1>2, <1>3 DEF NoIdReused
<1> QED
  BY <1>1, <1>2, <1>4

\* What the step that records a trade looks like: an iteration of the
\* matching loop.
LEMMA TradeStep ==
    ASSUME TypeOK, [Next]_vars, Traded
    PROVE  /\ placing # Idle
           /\ \E r \in Counterparty(placing.side, placing.pos) :
                /\ Trade(placing.pos, r)
                /\ NewTrade = [incoming_order |-> placing.pos, order_in_book |-> r,
                     transaction_quantity |->
                        Smaller(orderbook[placing.pos].quantity, orderbook[r].quantity),
                     transaction_price |-> orderbook[r].unit_price,
                     tax |-> transaction_tax(
                        Smaller(orderbook[placing.pos].quantity, orderbook[r].quantity),
                        orderbook[r].unit_price)]
<1>1. completed_trades' # completed_trades
  BY DEF Traded
<1>2. PlaceOrder
  BY <1>1 DEF Next, Command, OrderReceived, OrderRejected, AmendRequest, AmendRejected,
              CancelRequest, CancelRejected, InvalidMessage, PlacingDone, ledger, vars
<1>3. PICK r \in Counterparty(placing.side, placing.pos) : Trade(placing.pos, r)
  BY <1>2 DEF PlaceOrder
<1> DEFINE q == Smaller(orderbook[placing.pos].quantity, orderbook[r].quantity)
           tr == [incoming_order |-> placing.pos, order_in_book |-> r,
                  transaction_quantity |-> q,
                  transaction_price |-> orderbook[r].unit_price,
                  tax |-> transaction_tax(q, orderbook[r].unit_price)]
<1>4. completed_trades' = Append(completed_trades, tr)
  BY <1>3, ZenonT(60) DEF Trade
<1>5. completed_trades \in Seq(TradeType)
  BY DEF TypeOK
<1> HIDE DEF tr
<1>6. NewTrade = tr
  BY <1>4, <1>5 DEF NewTrade
<1> QED
  BY <1>2, <1>3, <1>6 DEF PlaceOrder, tr

\* Without reused ids the counterparty is the best order itself, and it is
\* acceptable to the order placed.
LEMMA CounterpartyIsBest ==
    ASSUME TypeOK, ReachInv, NoIdReused, placing # Idle,
           NEW r \in Counterparty(placing.side, placing.pos)
    PROVE  /\ r \in Best(Opposite(placing.side), orderbook[placing.pos].item)
           /\ Acceptable(Opposite(placing.side), r, orderbook[placing.pos].unit_price)
<1>1. r \in getBestOrder(Opposite(placing.side), orderbook[placing.pos].item,
                         orderbook[placing.pos].unit_price)
  BY DEF Counterparty
<1>2. PICK i \in Best(Opposite(placing.side), orderbook[placing.pos].item) :
        /\ Acceptable(Opposite(placing.side), i, orderbook[placing.pos].unit_price)
        /\ SameKey(i, r)
  BY <1>1 DEF getBestOrder
<1>3. i \in Position /\ Live(i)
  BY <1>2, BookType DEF Best, Resting
<1>4. r \in Position /\ Live(r)
  BY CounterpartyFacts
<1>5. i = r
  BY <1>2, <1>3, <1>4, LiveKeysDistinct DEF SameKey
<1> QED
  BY <1>2, <1>5

\* Every trade of a market without reused ids consumes the best-priced and,
\* among those, the oldest live order of the other side of its product.
THEOREM BestOrderTraded == Spec => PriceTimePriority
<1>1. TypeOK /\ ReachInv /\ [Next]_vars => [Traded /\ NoIdReused => ConsumesBest]_vars
  <2> SUFFICES ASSUME TypeOK, ReachInv, [Next]_vars, Traded, NoIdReused PROVE ConsumesBest
    OBVIOUS
  <2>1. PICK r \in Counterparty(placing.side, placing.pos) :
          NewTrade.incoming_order = placing.pos /\ NewTrade.order_in_book = r
    BY TradeStep
  <2>2. placing # Idle
    BY TradeStep
  <2>3. r \in Best(Opposite(placing.side), orderbook[placing.pos].item)
    BY <2>2, CounterpartyIsBest
  <2>4. orderbook[placing.pos].order_type = placing.side
    BY <2>2, CounterpartyFacts
  <2> DEFINE side == placing.side
             rest == Resting(Opposite(side), orderbook[placing.pos].item)
  <2>5. side \in Side
    BY <2>2 DEF TypeOK
  <2>6. r \in rest /\ \A j \in rest : Ahead(Opposite(side), r, j)
    BY <2>3 DEF Best
  <2>7. \A j \in rest : j \in Position /\ orderbook[j].unit_price \in Int
    BY BookType DEF Resting, OrderType
  <2>8. \A j \in rest :
          /\ IF side = "BUY" THEN orderbook[r].unit_price <= orderbook[j].unit_price
                             ELSE orderbook[r].unit_price >= orderbook[j].unit_price
          /\ orderbook[r].unit_price = orderbook[j].unit_price => r <= j
    BY <2>5, <2>6, <2>7 DEF Ahead, Opposite, Side
  <2> HIDE DEF side
  <2> QED
    BY <2>1, <2>4, <2>6, <2>8 DEF ConsumesBest, side
<1> QED
  BY <1>1, TypeCorrect, ReachAlways, PTL DEF Spec, PriceTimePriority

\* Nor does a trade of such a market break the limit of either side, or mix
\* two products.
THEOREM LimitsKept == Spec => LimitsRespected
<1> DEFINE b == BuyerOf(NewTrade.incoming_order, NewTrade.order_in_book)
           s == SellerOf(NewTrade.incoming_order, NewTrade.order_in_book)
           Kept == /\ orderbook[b].item = orderbook[s].item
                   /\ orderbook[s].unit_price <= NewTrade.transaction_price
                   /\ NewTrade.transaction_price <= orderbook[b].unit_price
<1>1. TypeOK /\ ReachInv /\ [Next]_vars => [Traded /\ NoIdReused => Kept]_vars
  <2> SUFFICES ASSUME TypeOK, ReachInv, [Next]_vars, Traded, NoIdReused PROVE Kept
    OBVIOUS
  <2>1. PICK r \in Counterparty(placing.side, placing.pos) :
          /\ NewTrade.incoming_order = placing.pos /\ NewTrade.order_in_book = r
          /\ NewTrade.transaction_price = orderbook[r].unit_price
    BY TradeStep
  <2>2. placing # Idle
    BY TradeStep
  <2> DEFINE p == placing.pos
  <2>3. /\ r \in Best(Opposite(placing.side), orderbook[p].item)
        /\ Acceptable(Opposite(placing.side), r, orderbook[p].unit_price)
    BY <2>2, CounterpartyIsBest
  <2>4. /\ placing.side \in Side /\ orderbook[p].order_type = placing.side
        /\ orderbook[p] \in OrderType /\ orderbook[r] \in OrderType
    BY <2>2, CounterpartyFacts
  <2>5. orderbook[r].item = orderbook[p].item
    BY <2>3 DEF Best, Resting
  <2>6. orderbook[p].unit_price \in Nat /\ orderbook[r].unit_price \in Nat
    BY <2>4 DEF OrderType
  <2>7. CASE placing.side = "BUY"
    <3>1. b = p /\ s = r
      BY <2>1, <2>4, <2>7 DEF BuyerOf, SellerOf
    <3>2. orderbook[r].unit_price <= orderbook[p].unit_price
      BY <2>3, <2>7 DEF Acceptable, Opposite
    <3> QED
      BY <2>1, <2>5, <2>6, <3>1, <3>2
  <2>8. CASE placing.side = "SELL"
    <3>1. b = r /\ s = p
      BY <2>1, <2>4, <2>8 DEF BuyerOf, SellerOf
    <3>2. orderbook[r].unit_price >= orderbook[p].unit_price
      BY <2>3, <2>8 DEF Acceptable, Opposite
    <3> QED
      BY <2>1, <2>5, <2>6, <3>1, <3>2
  <2> QED
    BY <2>4, <2>7, <2>8 DEF Side
<1> QED
  BY <1>1, TypeCorrect, ReachAlways, PTL DEF Spec, LimitsRespected

\* Every trade, also with reused ids or after an AMEND, closes an order that
\* was live: the reason why the matching loop ends.
THEOREM TradesCloseOrders == Spec => EachTradeClosesAnOrder
<1> DEFINE Closes == \E i \in {NewTrade.incoming_order, NewTrade.order_in_book} :
                       Live(i) /\ orderbook'[i].completed
<1>1. TypeOK /\ [Next]_vars => [Traded => Closes]_vars
  <2> SUFFICES ASSUME TypeOK, [Next]_vars, Traded PROVE Closes
    OBVIOUS
  <2>1. PICK r \in Counterparty(placing.side, placing.pos) :
          /\ Trade(placing.pos, r)
          /\ NewTrade.incoming_order = placing.pos /\ NewTrade.order_in_book = r
    BY TradeStep
  <2>2. placing # Idle
    BY TradeStep
  <2> DEFINE p == placing.pos
  <2>3. PICK amount \in Nat :
          /\ amount <= orderbook[p].quantity /\ amount <= orderbook[r].quantity
          /\ amount = orderbook[p].quantity \/ amount = orderbook[r].quantity
          /\ \A i \in Position :
               orderbook'[i] = IF i \in {p, r} THEN Filled(orderbook[i], amount)
                                              ELSE orderbook[i]
    BY <2>1, <2>2, TradeFacts
  <2>4. /\ p \in Position /\ r \in Position /\ Live(p) /\ Live(r)
        /\ orderbook[p] \in OrderType /\ orderbook[r] \in OrderType
    BY <2>2, CounterpartyFacts
  <2>5. orderbook'[p] = Filled(orderbook[p], amount) /\ orderbook'[r] = Filled(orderbook[r], amount)
    BY <2>3, <2>4
  <2>6. \/ Filled(orderbook[p], amount).completed = TRUE
        \/ Filled(orderbook[r], amount).completed = TRUE
    BY <2>3, <2>4, FilledType, ZenonT(20)
  <2> QED
    BY <2>1, <2>4, <2>5, <2>6
<1> QED
  BY <1>1, TypeCorrect, PTL DEF Spec, EachTradeClosesAnOrder
=============================================================================
