------------------------------- MODULE Market -------------------------------
(***************************************************************************)
(* The matching engine of the private exchange: pe_market.c (orderbook,    *)
(* trades, price-time matching, fee), pe_mytrader.c (per-trader order      *)
(* list, inventory and bank), pe_order.c (order validation) and the        *)
(* commands of the event loop in pe_exchange.c that drive them (BUY/SELL,  *)
(* AMEND, CANCEL).                                                         *)
(*                                                                         *)
(* An Order is identified by its position in market->orderbook: positions  *)
(* are never reused, so a position stands for the pointer, and it is also  *)
(* order_index + 1.  NULL is 0.  The `while (trade != NULL)' loop of a     *)
(* command is not collapsed into one step: `placing' is the loop's control *)
(* state and each iteration is a step of its own.                          *)
(***************************************************************************)
EXTENDS Integers, Sequences, FiniteSets

CONSTANTS
    Trader,          \* the traders the exchange was started with
    Product,         \* the products listed in the products file
    IdWord,          \* words a command may carry as its order id
    QuantityWord,    \* ... as its quantity
    PriceWord,       \* ... as its price
    NotNumeric,      \* a word with a character that is not a digit
    INT_RANGE,       \* number of values of a C int (2^32)
    MAX_QUANTITY,    \* 999999 in pe_common.h
    MAX_UNIT_PRICE,  \* 999999 in pe_common.h
    MaxOrders        \* bound of the model: orders ever added to the book

ASSUME MarketAssumption ==
    /\ NotNumeric \notin Nat
    /\ IdWord \subseteq Nat \cup {NotNumeric}
    /\ QuantityWord \subseteq Nat \cup {NotNumeric}
    /\ PriceWord \subseteq Nat \cup {NotNumeric}
    /\ INT_RANGE \in Nat \ {0}
    /\ MAX_QUANTITY \in Nat
    /\ MAX_UNIT_PRICE \in Nat
    /\ MaxOrders \in Nat

VARIABLES
    orderbook,          \* market->orderbook, every order ever accepted
    completed_trades,   \* market->completed_trades
    transaction_fee,    \* market->transaction_fee
    orders,             \* trader->orders, as positions in orderbook
    inventory_quantity, \* trader->inventory_quantity, per product
    bank,               \* trader->bank, per product
    order,              \* main's local `order': what newOrder() last returned
    placing             \* the matching loop: the order being placed, or Idle

book   == <<orderbook, orders>>
ledger == <<completed_trades, transaction_fee, inventory_quantity, bank>>
vars   == <<orderbook, completed_trades, transaction_fee, orders,
            inventory_quantity, bank, order, placing>>

Side == {"BUY", "SELL"}
NULL == 0
Idle == [side |-> "none", pos |-> NULL]

Opposite(side) == IF side = "BUY" THEN "SELL" ELSE "BUY"

-----------------------------------------------------------------------------
(* Words and numbers.                                                      *)

isNumeric(word) == word # NotNumeric

LONG_MAX == (INT_RANGE * INT_RANGE) \div 2 - 1

\* atoi() of a digit string: strtol(), which stops at the largest long, cut to
\* an int.
atoi(word) ==
    LET long == IF word > LONG_MAX THEN LONG_MAX ELSE word
        low  == long % INT_RANGE
    IN  IF 2 * low >= INT_RANGE THEN low - INT_RANGE ELSE low

ValidQuantity(word) == isNumeric(word) /\ atoi(word) \in 1..MAX_QUANTITY

ValidPrice(word) == isNumeric(word) /\ atoi(word) \in 1..MAX_UNIT_PRICE

-----------------------------------------------------------------------------
(* The order book.                                                         *)

Live(i) == ~orderbook[i].completed

newOrderOK_OneMore(t, id, quantity, price) ==
    /\ isNumeric(id) /\ atoi(id) <= Len(orders[t]) + 1
    /\ ValidQuantity(quantity) /\ ValidPrice(price)

\* The accepted test on the order id is `order_id > trader->order_count'
\* only: an id that is already in use passes it.
newOrderOK(t, id, quantity, price) ==
    /\ isNumeric(id)
    /\ atoi(id) <= Len(orders[t])
    /\ ValidQuantity(quantity)
    /\ ValidPrice(price)

newOrder(t, side, id, item, quantity, price) ==
    [trader |-> t, order_type |-> side, order_id |-> atoi(id), item |-> item,
     quantity |-> atoi(quantity), unit_price |-> atoi(price),
     completed |-> FALSE]

closeOrder(o) == [o EXCEPT !.completed = TRUE]

Entries_StopsEarly(t, id) ==
    {k \in DOMAIN orders[t] : k < Len(orders[t]) /\ orderbook[orders[t][k]].order_id = id}

\* Entries k of trader->orders whose order carries the id.
Entries(t, id) == {k \in DOMAIN orders[t] : orderbook[orders[t][k]].order_id = id}

\* getOrder() returns the first of them: a set with at most one position.
getOrder(t, id) ==
    {orders[t][k] : k \in {k \in Entries(t, id) : \A l \in Entries(t, id) : k <= l}}

\* The orders of a trader with an id, anywhere in the book.
WithKey(t, id) ==
    {i \in DOMAIN orderbook : orderbook[i].trader = t /\ orderbook[i].order_id = id}

\* amend() stops at the first of them, and gives up if that one is closed.
AmendTarget(t, id) ==
    {i \in WithKey(t, id) : Live(i) /\ \A j \in WithKey(t, id) : i <= j}

-----------------------------------------------------------------------------
(* Price-time matching.                                                    *)

Resting(side, item) ==
    {i \in DOMAIN orderbook : /\ orderbook[i].item = item
                              /\ orderbook[i].order_type = side
                              /\ Live(i)}

Ahead_LatestFirst(side, i, j) ==
    \/ IF side = "SELL" THEN orderbook[i].unit_price < orderbook[j].unit_price
                        ELSE orderbook[i].unit_price > orderbook[j].unit_price
    \/ orderbook[i].unit_price = orderbook[j].unit_price /\ i >= j

\* Order i of the side comes before order j once the candidates are sorted:
\* the sort keeps the earliest of the best-priced orders in front.
Ahead(side, i, j) ==
    \/ IF side = "SELL" THEN orderbook[i].unit_price < orderbook[j].unit_price
                        ELSE orderbook[i].unit_price > orderbook[j].unit_price
    \/ orderbook[i].unit_price = orderbook[j].unit_price /\ i <= j

Best(side, item) ==
    {i \in Resting(side, item) : \A j \in Resting(side, item) : Ahead(side, i, j)}

Acceptable_Strict(side, i, limit) ==
    IF side = "SELL" THEN orderbook[i].unit_price < limit
                     ELSE orderbook[i].unit_price > limit

Acceptable_AnyPrice(side, i, limit) == TRUE

\* A resting order of the side is acceptable at the incoming limit price.
Acceptable(side, i, limit) ==
    IF side = "SELL" THEN orderbook[i].unit_price <= limit
                     ELSE orderbook[i].unit_price >= limit

SameKey_Closed(i, j) ==
    /\ orderbook[i].trader = orderbook[j].trader
    /\ orderbook[i].order_id = orderbook[j].order_id
    /\ orderbook[i].order_type = orderbook[j].order_type

\* What the candidate is looked up by once it has been chosen.
SameKey(i, j) ==
    /\ orderbook[i].trader = orderbook[j].trader
    /\ orderbook[i].order_id = orderbook[j].order_id
    /\ orderbook[i].order_type = orderbook[j].order_type
    /\ Live(j)

\* getBestSellOrder() and getBestBuyOrder(): the best candidate is not
\* returned itself but searched again in the book by trader, id and side.
getBestOrder(side, item, limit) ==
    {j \in DOMAIN orderbook :
        \E i \in Best(side, item) :
            /\ Acceptable(side, i, limit)
            /\ SameKey(i, j)
            /\ \A k \in DOMAIN orderbook : SameKey(i, k) => j <= k}

\* placeBuyOrder() and placeSellOrder() up to the trade: the counterparty of
\* the order at position pos when it is placed on a side, or none.
Counterparty(side, pos) ==
    IF pos = NULL \/ orderbook[pos].order_type # side \/ ~Live(pos)
    THEN {}
    ELSE {j \in getBestOrder(Opposite(side), orderbook[pos].item,
                             orderbook[pos].unit_price) :
             orderbook[pos].quantity > 0 /\ orderbook[j].quantity > 0}

transaction_tax_Truncated(amount, price) == (amount * price) \div 100

\* roundl(amount * price * 0.01): half a cent rounds up.
transaction_tax(amount, price) == (amount * price + 50) \div 100

-----------------------------------------------------------------------------
(* Settlement of one trade between the placed order and its counterparty.  *)

Smaller(a, b) == IF a > b THEN b ELSE a

Filled_NeverZero(o, amount) ==
    [o EXCEPT !.quantity = @ - amount, !.completed = o.quantity - amount < 0]

\* adjustAmount() on one order and closeOrder() when nothing is left.
Filled(o, amount) ==
    [o EXCEPT !.quantity = @ - amount, !.completed = o.quantity - amount <= 0]

\* Add an amount to what a trader holds of an item.
Credit(account, t, item, amount) == [account EXCEPT ![t][item] = @ + amount]

\* The orders of a trade by side, and the later of the two, which is charged.
BuyerOf(a, b)  == IF orderbook[a].order_type = "BUY" THEN a ELSE b
SellerOf(a, b) == IF orderbook[a].order_type = "BUY" THEN b ELSE a
ChargedOf(a, b) == IF a > b THEN a ELSE b

buy_sell_units_Swapped(b, s, amount) ==
    Credit(Credit(inventory_quantity, orderbook[b].trader, orderbook[b].item, -amount),
           orderbook[s].trader, orderbook[s].item, amount)

\* buy() and sell() on the inventories ...
buy_sell_units(b, s, amount) ==
    Credit(Credit(inventory_quantity, orderbook[b].trader, orderbook[b].item, amount),
           orderbook[s].trader, orderbook[s].item, -amount)

\* ... and on the banks.
buy_sell_bank(b, s, value) ==
    Credit(Credit(bank, orderbook[b].trader, orderbook[b].item, -value),
           orderbook[s].trader, orderbook[s].item, value)

tax_Refunded(account, c, fee) ==
    Credit(account, orderbook[c].trader, orderbook[c].item, fee)

\* tax() charges the trader of order c, for the item of order c.
tax(account, c, fee) ==
    Credit(account, orderbook[c].trader, orderbook[c].item, -fee)

Trade(incoming, resting) ==
    LET amount  == Smaller(orderbook[incoming].quantity, orderbook[resting].quantity)
        price   == orderbook[resting].unit_price
        fee     == transaction_tax(amount, price)
        b       == BuyerOf(incoming, resting)
        s       == SellerOf(incoming, resting)
        charged == ChargedOf(incoming, resting)
    IN  /\ completed_trades' =
             Append(completed_trades,
                    [incoming_order |-> incoming, order_in_book |-> resting,
                     transaction_quantity |-> amount,
                     transaction_price |-> price, tax |-> fee])
        /\ orderbook' = [i \in DOMAIN orderbook |->
                            IF i \in {incoming, resting} THEN Filled(orderbook[i], amount)
                                                        ELSE orderbook[i]]
        /\ inventory_quantity' = buy_sell_units(b, s, amount)
        /\ bank' = tax(buy_sell_bank(b, s, amount * price), charged, fee)
        /\ transaction_fee' = transaction_fee + fee

-----------------------------------------------------------------------------
(* The commands of the event loop.  A command is handled only when the     *)
(* matching loop of the one before it is over.                             *)

\* The order at the end of the book is placed on its side.
StartPlacing(side) == [side |-> side, pos |-> Len(orderbook) + 1]

\* BUY or SELL, valid: added to the book and to the trader's list.
OrderReceived(t, side, id, item, quantity, price) ==
    /\ placing = Idle
    /\ newOrderOK(t, id, quantity, price)
    /\ Len(orderbook) < MaxOrders
    /\ orderbook' = Append(orderbook, newOrder(t, side, id, item, quantity, price))
    /\ orders' = [orders EXCEPT ![t] = Append(@, Len(orderbook) + 1)]
    /\ order' = Len(orderbook) + 1
    /\ placing' = StartPlacing(side)
    /\ UNCHANGED ledger

\* BUY or SELL, rejected: newOrder() returns NULL, which `order' now holds.
OrderRejected(t, id, quantity, price) ==
    /\ placing = Idle
    /\ ~newOrderOK(t, id, quantity, price)
    /\ order' = NULL
    /\ UNCHANGED <<book, ledger, placing>>

\* AMEND of the order at i: a new order at the end of the book replaces it
\* in every entry of the trader's list with that id; the old one is closed.
\* The local `order' of main() is not assigned.
AmendRequest(t, id, quantity, price) ==
    /\ placing = Idle
    /\ newOrderOK(t, id, quantity, price)
    /\ Len(orderbook) < MaxOrders
    /\ \E i \in AmendTarget(t, atoi(id)) :
         LET old == orderbook[i]
             new == newOrder(t, old.order_type, id, old.item, quantity, price)
         IN  /\ orderbook' = Append([orderbook EXCEPT ![i] = closeOrder(@)], new)
             /\ placing' = StartPlacing(old.order_type)
    /\ orders' = [orders EXCEPT ![t] =
                    [k \in DOMAIN @ |-> IF k \in Entries(t, atoi(id))
                                       THEN Len(orderbook) + 1 ELSE @[k]]]
    /\ UNCHANGED <<ledger, order>>

AmendRejected(t, id, quantity, price) ==
    /\ placing = Idle
    /\ newOrderOK(t, id, quantity, price) => AmendTarget(t, atoi(id)) = {}
    /\ UNCHANGED <<book, ledger, order, placing>>

\* CANCEL closes the order getOrder() finds, if it is still live.
CancelRequest(t, id) ==
    /\ placing = Idle
    /\ isNumeric(id)
    /\ \E i \in getOrder(t, atoi(id)) :
         /\ Live(i)
         /\ orderbook' = [orderbook EXCEPT ![i] = closeOrder(@)]
    /\ UNCHANGED <<ledger, orders, order, placing>>

CancelRejected(t, id) ==
    /\ placing = Idle
    /\ isNumeric(id) => \A i \in getOrder(t, atoi(id)) : ~Live(i)
    /\ UNCHANGED <<book, ledger, order, placing>>

\* A message read_message() does not recognise, or an unlisted product.
InvalidMessage(t) ==
    /\ placing = Idle
    /\ UNCHANGED <<book, ledger, order, placing>>

\* An iteration of the matching loop that trades.  The next one places
\* `order': the order just accepted, but after an AMEND, which does not assign
\* it, what its stack slot still holds: whatever newOrder() returned for the
\* last BUY or SELL command (the build is -O0, and nothing else uses the slot).
PlaceOrder ==
    /\ placing # Idle
    /\ \E resting \in Counterparty(placing.side, placing.pos) :
         Trade(placing.pos, resting)
    /\ placing' = [placing EXCEPT !.pos = order]
    /\ UNCHANGED <<orders, order>>

PlacingDone_Again ==
    /\ placing # Idle
    /\ Counterparty(placing.side, placing.pos) = {}
    /\ placing' = [placing EXCEPT !.pos = order]
    /\ UNCHANGED <<book, ledger, order>>

\* The place function returned NULL: the loop, and the command, are over.
PlacingDone ==
    /\ placing # Idle
    /\ Counterparty(placing.side, placing.pos) = {}
    /\ placing' = Idle
    /\ UNCHANGED <<book, ledger, order>>

-----------------------------------------------------------------------------
Init ==
    /\ orderbook = <<>>
    /\ completed_trades = <<>>
    /\ transaction_fee = 0
    /\ orders = [t \in Trader |-> <<>>]
    /\ inventory_quantity = [t \in Trader |-> [p \in Product |-> 0]]
    /\ bank = [t \in Trader |-> [p \in Product |-> 0]]
    /\ order = NULL
    /\ placing = Idle

Command(t) ==
    \/ \E id \in IdWord, quantity \in QuantityWord, price \in PriceWord :
          \/ \E side \in Side, item \in Product :
                OrderReceived(t, side, id, item, quantity, price)
          \/ OrderRejected(t, id, quantity, price)
          \/ AmendRequest(t, id, quantity, price)
          \/ AmendRejected(t, id, quantity, price)
    \/ \E id \in IdWord : CancelRequest(t, id) \/ CancelRejected(t, id)
    \/ InvalidMessage(t)

Next ==
    \/ \E t \in Trader : Command(t)
    \/ PlaceOrder
    \/ PlacingDone

Spec == Init /\ [][Next]_vars

\* The exchange's own loop never waits between two iterations of matching.
FairSpec == Spec /\ WF_vars(PlaceOrder) /\ WF_vars(PlacingDone)
-----------------------------------------------------------------------------
(* Properties.                                                             *)

Position == 1..Len(orderbook)

OrderType ==
    [trader : Trader, order_type : Side, order_id : Int, item : Product,
     quantity : 0..MAX_QUANTITY, unit_price : 1..MAX_UNIT_PRICE, completed : BOOLEAN]

TradeType ==
    [incoming_order : Nat, order_in_book : Nat, transaction_quantity : Nat,
     transaction_price : Nat, tax : Nat]

\* The variables hold values of the C declarations of pe_market.h,
\* pe_mytrader.h and pe_order.h, every pointer to an order is NULL or points
\* into the book, and the trader's list points to the trader's own orders.
TypeOK ==
    /\ orderbook \in Seq(OrderType)
    /\ completed_trades \in Seq(TradeType)
    /\ transaction_fee \in Nat
    /\ orders \in [Trader -> Seq(Nat)]
    /\ \A t \in Trader : \A k \in DOMAIN orders[t] :
         orders[t][k] \in Position /\ orderbook[orders[t][k]].trader = t
    /\ inventory_quantity \in [Trader -> [Product -> Int]]
    /\ bank \in [Trader -> [Product -> Int]]
    /\ order \in 0..Len(orderbook)
    /\ placing \in {Idle} \cup [side : Side, pos : 0..Len(orderbook)]

\* The ids of the BUY and SELL commands a trader had accepted are distinct:
\* its list has one entry for each of them, and AMEND keeps the id of an entry.
NoIdReused ==
    \A t \in Trader : \A k, l \in DOMAIN orders[t] :
        orderbook[orders[t][k]].order_id = orderbook[orders[t][l]].order_id => k = l

\* A live order has units left: matching closes every order it exhausts
\* (pe_market.c:427-433, :503-509), so that the quantity tests of the place
\* functions (:379, :455) never keep a crossing order from trading.
LiveOrdersHaveUnits ==
    \A i \in Position : Live(i) => orderbook[i].quantity \in 1..MAX_QUANTITY

\* A closed order is out of the market for good: no later command or trade
\* of any trader changes or reopens it.
ClosedOrdersStayClosed ==
    [][\A i \in Position : ~Live(i) => orderbook'[i] = orderbook[i]]_vars

\* As long as ids are not reused, the trader's list leads getOrder(), and so
\* CANCEL, to every live order of the trader, across amendments and trades.
LiveOrdersReachable ==
    NoIdReused =>
        \A i \in Position :
            Live(i) => getOrder(orderbook[i].trader, orderbook[i].order_id) = {i}

\* The bound that newOrder() puts on ids (pe_order.c:29-31) makes a trader
\* that never reuses one, nor wraps an int, number its orders 0, 1, 2, ...,
\* and amendments keep the numbering.
IdsConsecutive ==
    (NoIdReused /\ \A i \in Position : orderbook[i].order_id >= 0) =>
        \A t \in Trader : \A k \in DOMAIN orders[t] :
            orderbook[orders[t][k]].order_id = k - 1

NewTrade == completed_trades'[Len(completed_trades')]
Traded   == Len(completed_trades') # Len(completed_trades)

\* Price-time priority: the order in the book that a trade consumes is the
\* one of its side and product that no other beats on price, nor on age at
\* the same price.
ConsumesBest ==
    LET o == orderbook[NewTrade.incoming_order]
        r == NewTrade.order_in_book
        price(i) == orderbook[i].unit_price
    IN  /\ r \in Resting(Opposite(o.order_type), o.item)
        /\ \A j \in Resting(Opposite(o.order_type), o.item) :
             /\ IF o.order_type = "BUY" THEN price(r) <= price(j) ELSE price(r) >= price(j)
             /\ price(r) = price(j) => r <= j

\* It holds when ids are not reused (the search by id finds the best order
\* itself), ...
PriceTimePriority == [][Traded /\ NoIdReused => ConsumesBest]_vars

\* ... but README.md:7 promises it of every trade.
PriceTimePriorityAlways == [][Traded => ConsumesBest]_vars

\* Nobody pays more than the buy order says or receives less than the sell
\* order says, for the item of both orders, when no id is reused.
LimitsRespected ==
    [][Traded /\ NoIdReused =>
          LET b == BuyerOf(NewTrade.incoming_order, NewTrade.order_in_book)
              s == SellerOf(NewTrade.incoming_order, NewTrade.order_in_book)
          IN  /\ orderbook[b].item = orderbook[s].item
              /\ orderbook[s].unit_price <= NewTrade.transaction_price
              /\ NewTrade.transaction_price <= orderbook[b].unit_price]_vars

\* Every trade exhausts at least one of its two orders, so the matching loop
\* trades at most once per live order.
EachTradeClosesAnOrder ==
    [][Traded =>
          \E i \in {NewTrade.incoming_order, NewTrade.order_in_book} :
              Live(i) /\ orderbook'[i].completed]_vars

\* A live buy order and a live sell order of an item that could trade.
Crossed(i, j) ==
    /\ Live(i) /\ Live(j)
    /\ orderbook[i].item = orderbook[j].item
    /\ orderbook[i].order_type = "BUY" /\ orderbook[j].order_type = "SELL"
    /\ orderbook[i].unit_price >= orderbook[j].unit_price

\* Between commands everything that could trade has traded.
BookUncrossed == placing = Idle => \A i, j \in Position : ~Crossed(i, j)

\* No two orders of a trader carry the same id: no id was reused, and no
\* order was amended into a later one.
KeysDistinct ==
    \A i, j \in Position :
        /\ orderbook[i].trader = orderbook[j].trader
        /\ orderbook[i].order_id = orderbook[j].order_id
        => i = j

\* The matching loop leaves no crossed book behind as long as no id is reused
\* and no order amended.  After an AMEND it may: from its second iteration on
\* the loop places `order' (pe_exchange.c:599, :601), not the amended order.
BookUncrossedWithoutAmend == KeysDistinct => BookUncrossed
=============================================================================
