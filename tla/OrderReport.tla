----------------------------- MODULE OrderReport -----------------------------
(***************************************************************************)
(* How pe_market.c selects and sorts the orders of one product and side,   *)
(* for matching (getBestSellOrder() with orderSort(), getBestBuyOrder()    *)
(* with orderSortReverse()) and for the report (printOrderByProduct(),     *)
(* always with orderSortReverse()), which then merges orders of one price  *)
(* into a level.  One loop iteration is a step; matched[i] is a pointer to *)
(* an order, that is, its position in the book.                            *)
(***************************************************************************)
EXTENDS Integers, Sequences, FiniteSets, Functions

CONSTANTS
    Price,     \* unit prices
    Units,     \* quantities of live orders
    MaxBook    \* bound of the model: orders in the book

ASSUME ReportAssumption ==
    Price \subseteq Nat /\ Units \subseteq Nat \ {0} /\ MaxBook \in Nat

VARIABLES
    book,      \* market->orderbook, never changed here
    sort,      \* which of the two functions sorts
    pc,        \* collect, sort, group or done
    matched,   \* the array of orders selected
    level,     \* prices counted while selecting
    i, j,      \* loop variables
    matching_orders_count,
    matching_orders_total_quantity,
    lines      \* the lines printed

totals == <<matching_orders_count, matching_orders_total_quantity>>
rvars  == <<book, sort, pc, matched, level, i, j, totals, lines>>

\* listed: of the product and side looked for, and not completed.
BookOrder ==
    [unit_price : Price, quantity : Units, listed : {TRUE}]
      \cup [unit_price : {0}, quantity : {0}, listed : {FALSE}]

price(a)    == book[matched[a]].unit_price
quantity(a) == book[matched[a]].quantity

-----------------------------------------------------------------------------
\* No order selected so far has the price of o: it opens a level.
new_price(o) == \A a \in DOMAIN matched : price(a) # o.unit_price

Collect ==
    /\ pc = "collect" /\ i <= Len(book)
    /\ IF book[i].listed
       THEN /\ matched' = Append(matched, i)
            /\ level' = IF new_price(book[i]) THEN level + 1 ELSE level
       ELSE UNCHANGED <<matched, level>>
    /\ i' = i + 1
    /\ UNCHANGED <<book, sort, pc, j, totals, lines>>

CollectDone ==
    /\ pc = "collect" /\ i > Len(book)
    /\ pc' = IF matched = <<>> THEN "done" ELSE "sort"
    /\ i' = 1 /\ j' = 1
    /\ UNCHANGED <<book, sort, matched, level, totals, lines>>

OutOfOrder_OrEqual(a, b) ==
    IF sort = "orderSort" THEN price(a) >= price(b) ELSE price(a) <= price(b)

\* The test of the two sort functions.
OutOfOrder(a, b) ==
    IF sort = "orderSort" THEN price(a) > price(b) ELSE price(a) < price(b)

Swap(a, b) == [matched EXCEPT ![a] = matched[b], ![b] = matched[a]]

Compare ==
    /\ pc = "sort" /\ i <= Len(matched) /\ j <= Len(matched)
    /\ matched' = IF OutOfOrder(i, j) THEN Swap(i, j) ELSE matched
    /\ j' = j + 1
    /\ UNCHANGED <<book, sort, pc, level, i, totals, lines>>

NextPlace ==
    /\ pc = "sort" /\ i <= Len(matched) /\ j > Len(matched)
    /\ i' = i + 1 /\ j' = i + 1
    /\ UNCHANGED <<book, sort, pc, matched, level, totals, lines>>

SortDone ==
    /\ pc = "sort" /\ i > Len(matched)
    /\ pc' = IF sort = "orderSort" THEN "done" ELSE "group"
    /\ i' = 1
    /\ UNCHANGED <<book, sort, matched, level, j, totals, lines>>

\* The line for order a, the last of its level.
Line(a) ==
    IF matching_orders_count = 0 /\ matching_orders_total_quantity = 0
    THEN [unit_price |-> price(a), quantity |-> quantity(a), orders |-> 1]
    ELSE [unit_price |-> price(a),
          quantity |-> matching_orders_total_quantity + quantity(a),
          orders |-> matching_orders_count + 1]

SameLevel ==
    /\ pc = "group" /\ i < Len(matched)
    /\ price(i) = price(i + 1)
    /\ matching_orders_count' = matching_orders_count + 1
    /\ matching_orders_total_quantity' = matching_orders_total_quantity + quantity(i)
    /\ i' = i + 1
    /\ UNCHANGED <<book, sort, pc, matched, level, j, lines>>

EndOfLevel_Keeps ==
    /\ pc = "group" /\ i < Len(matched)
    /\ price(i) # price(i + 1)
    /\ lines' = Append(lines, Line(i))
    /\ i' = i + 1
    /\ UNCHANGED <<book, sort, pc, matched, level, j, totals>>

EndOfLevel ==
    /\ pc = "group" /\ i < Len(matched)
    /\ price(i) # price(i + 1)
    /\ lines' = Append(lines, Line(i))
    /\ matching_orders_count' = 0 /\ matching_orders_total_quantity' = 0
    /\ i' = i + 1
    /\ UNCHANGED <<book, sort, pc, matched, level, j>>

LastLevel ==
    /\ pc = "group" /\ i = Len(matched)
    /\ lines' = Append(lines, Line(i))
    /\ pc' = "done"
    /\ UNCHANGED <<book, sort, matched, level, i, j, totals>>

Returned == pc = "done" /\ UNCHANGED rvars

-----------------------------------------------------------------------------
RInit ==
    /\ book \in UNION {[1..n -> BookOrder] : n \in 0..MaxBook}
    /\ sort \in {"orderSort", "orderSortReverse"}
    /\ pc = "collect" /\ matched = <<>> /\ level = 0 /\ i = 1 /\ j = 1
    /\ matching_orders_count = 0 /\ matching_orders_total_quantity = 0
    /\ lines = <<>>

RNext ==
    \/ Collect \/ CollectDone
    \/ Compare \/ NextPlace \/ SortDone
    \/ SameLevel \/ EndOfLevel \/ LastLevel
    \/ Returned

RSpec == RInit /\ [][RNext]_rvars

-----------------------------------------------------------------------------
(* Properties.                                                             *)

Listed == {p \in DOMAIN book : book[p].listed}

LineType == [unit_price : Nat, quantity : Nat, orders : Nat]

\* The variables hold what their declarations say; the array of orders holds
\* every order selected once, whatever was swapped (an exchange sort that
\* loses or doubles an order would match or report it twice).
RTypeOK ==
    /\ pc \in {"collect", "sort", "group", "done"}
    /\ matched \in Seq(Nat) /\ level \in Nat /\ i \in Nat /\ j \in Nat
    /\ matching_orders_count \in Nat /\ matching_orders_total_quantity \in Nat
    /\ lines \in Seq(LineType)
    /\ \A a, b \in DOMAIN matched : matched[a] = matched[b] => a = b
    /\ {matched[a] : a \in DOMAIN matched}
         = {p \in Listed : pc = "collect" => p < i}

\* The first order of the sorted array is the one that comes first in price-
\* time priority, although the sort is not stable: getBestBuyOrder() and
\* getBestSellOrder() rely on it, and Market's operator Best says it.
BestIsFirst ==
    pc \in {"group", "done"} /\ matched # <<>> =>
        \A p \in Listed :
            \/ IF sort = "orderSort" THEN price(1) < book[p].unit_price
                                     ELSE price(1) > book[p].unit_price
            \/ price(1) = book[p].unit_price /\ matched[1] <= p

\* The reference: the orders of a price and what they add up to.
At(x)   == {p \in Listed : book[p].unit_price = x}
Sum(ps) == SumFunctionOnSet([p \in DOMAIN book |-> book[p].quantity], ps)

\* The report has one line for each price, the highest first, with the number
\* and the units of its orders, and as many lines as levels are announced.
ReportExact ==
    pc = "done" /\ sort = "orderSortReverse" =>
        /\ level = Len(lines)
        /\ \A a, b \in DOMAIN lines : a < b => lines[a].unit_price > lines[b].unit_price
        /\ {lines[a] : a \in DOMAIN lines}
             = {[unit_price |-> book[p].unit_price,
                 quantity |-> Sum(At(book[p].unit_price)),
                 orders |-> Cardinality(At(book[p].unit_price))] : p \in Listed}
=============================================================================
