------------------------------- MODULE Ledger -------------------------------
(***************************************************************************)
(* What the settlement of trades promises, whatever the order book looks   *)
(* like: traders' holdings change only by settling a trade, a settlement   *)
(* moves units from a seller to a buyer and their value from the buyer to  *)
(* the seller, and the exchange takes one percent of the value, rounded to *)
(* the nearest unit, from one of the two.                                  *)
(*                                                                         *)
(* The item of the buyer and the item of the seller are separate: buy()    *)
(* and sell() of pe_mytrader.c are each called with the item of the        *)
(* order of their own trader.                                              *)
(***************************************************************************)
EXTENDS Integers

CONSTANTS Trader, Product,
          Quantity,   \* quantities a trade may have
          Price       \* prices a trade may have

VARIABLES inventory_quantity, bank, transaction_fee

accounts == <<inventory_quantity, bank, transaction_fee>>

Start ==
    /\ inventory_quantity = [t \in Trader |-> [p \in Product |-> 0]]
    /\ bank = [t \in Trader |-> [p \in Product |-> 0]]
    /\ transaction_fee = 0

Move(account, t, item, amount) == [account EXCEPT ![t][item] = @ + amount]

OnePercent(value) == (value + 50) \div 100

\* The buyer b takes units of item bi, the seller s gives units of item si.
Settle(b, bi, s, si, quantity) ==
    /\ inventory_quantity' = Move(Move(inventory_quantity, b, bi, quantity), s, si, -quantity)
    /\ \E price \in Price :
         LET value == quantity * price
             paid  == Move(Move(bank, b, bi, -value), s, si, value)
             fee   == OnePercent(value)
         IN  /\ bank' \in {Move(paid, b, bi, -fee), Move(paid, s, si, -fee)}
             /\ transaction_fee' = transaction_fee + fee

SettleAny ==
    \E b, s \in Trader, bi, si \in Product, quantity \in Quantity :
        Settle(b, bi, s, si, quantity)

LedgerSpec == Start /\ [][SettleAny]_accounts
=============================================================================
