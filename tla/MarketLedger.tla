---------------------------- MODULE MarketLedger ----------------------------
(***************************************************************************)
(* The matching engine keeps the books of the abstract ledger.  The        *)
(* accounts of the two modules are the same variables; the order book, the *)
(* lists and the loop are hidden by the refinement.                        *)
(***************************************************************************)
EXTENDS Market, Functions

\* The exchange is started with finitely many traders and products.
ASSUME LedgerAssumption == IsFiniteSet(Trader) /\ IsFiniteSet(Product)

L == INSTANCE Ledger WITH Quantity <- 1..MAX_QUANTITY, Price <- 1..MAX_UNIT_PRICE

\* Every step of every command either leaves all accounts alone or settles
\* one trade (pe_market.c:393-425, :469-500, pe_mytrader.c:83-130), also for
\* self-trades, reused ids and the stale order placed after an AMEND.
ImplementsLedger == L!LedgerSpec

\* What the traders hold of all products.
Total(account) == SumFunction([t \in Trader |-> SumFunction(account[t])])

\* No money is made or lost: what the traders' banks miss is what the
\* exchange collected (pe_exchange.c:740), whoever traded with whom.
MoneyConserved == Total(bank) + transaction_fee = 0

\* What a trade took from or added to a trader's units of a product.
UnitsOf(trade, t, p) ==
    LET a == trade.incoming_order
        b == trade.order_in_book
        q == trade.transaction_quantity
        Side1(i, n) == IF orderbook[i].trader = t /\ orderbook[i].item = p THEN n ELSE 0
    IN  Side1(BuyerOf(a, b), q) + Side1(SellerOf(a, b), -q)

\* The holdings of a trader are exactly what its recorded trades add up to:
\* nothing is settled twice, left out or booked on another trader.
HoldingsMatchTrades ==
    /\ \A t \in Trader, p \in Product :
         inventory_quantity[t][p] =
           SumFunction([n \in DOMAIN completed_trades |-> UnitsOf(completed_trades[n], t, p)])
    /\ transaction_fee =
         SumFunction([n \in DOMAIN completed_trades |-> completed_trades[n].tax])

\* The units that the recorded trades took from the order at position i.
TakenFrom(i) ==
    SumFunction([n \in DOMAIN completed_trades |->
        LET trade == completed_trades[n]
        IN  IF i \in {trade.incoming_order, trade.order_in_book}
            THEN trade.transaction_quantity ELSE 0])

\* An order is filled by its trades and by nothing else: what they took from
\* it and what is left of it (adjustAmount(), pe_market.c:403, :479) add up to
\* the same number, whatever is done to the order or to others.
FilledByTrades ==
    [][\A i \in Position :
          TakenFrom(i)' + orderbook'[i].quantity = TakenFrom(i) + orderbook[i].quantity]_vars

\* No order is filled beyond the quantity that newOrder() let it have, also
\* when its id is reused or a stale order is placed after an AMEND.
NeverOverfilled ==
    \A i \in Position : TakenFrom(i) + orderbook[i].quantity \in 1..MAX_QUANTITY

LiveOrders == {i \in Position : Live(i)}

\* There are no more trades than closed orders, over all commands.
TradesBounded == Len(completed_trades) <= Cardinality(Position \ LiveOrders)

\* Each iteration of the matching loop that trades leaves fewer live orders
\* and makes none, so the loop of a command (pe_exchange.c:439, :561) goes
\* round at most once for each order that was live when it began.
LoopShrinksBook ==
    [][PlaceOrder =>
          LiveOrders' \subseteq LiveOrders /\ Cardinality(LiveOrders') < Cardinality(LiveOrders)]_vars
=============================================================================
