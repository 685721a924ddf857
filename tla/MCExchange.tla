----------------------------- MODULE MCExchange -----------------------------
(* Small instances of the exchange process for TLC.                        *)
EXTENDS Exchange

\* Commands that the traders 0, 1, ... send.
OneEach   == [t \in Trader |-> 1]
TwoAndOne == [t \in Trader |-> IF t = 0 THEN 2 ELSE 1]
Three     == [t \in Trader |-> 3]

-----------------------------------------------------------------------------
(* A market after five commands, each answered before the next was sent:   *)
(*    trader 1  SELL 0, 1 unit at 50                                       *)
(*    trader 0  BUY 0, 1 unit at 40                                        *)
(*    trader 1  SELL 1, 1 unit at 70                                       *)
(*    trader 1  SELL 2, 1 unit at 55                                       *)
(*    trader 0  AMEND 0 to 3 units at 60                                   *)
(* The amended order has bought one unit at 50; then the loop placed the   *)
(* last SELL, and left two units that would trade at 55.  From here an     *)
(* AMEND of SELL 1 trades twice, the second time with SELL 2.              *)

Opened(t, side, id, quantity, price, completed) ==
    [trader |-> t, order_type |-> side, order_id |-> id, item |-> CHOOSE p \in Product : TRUE,
     quantity |-> quantity, unit_price |-> price, completed |-> completed]

\* One more command from each of the two traders.
OneMore == [t \in Trader |-> IF t = 0 THEN 3 ELSE 4]

OpenedInit ==
    /\ orderbook = << Opened(1, "SELL", 0, 0, 50, TRUE), Opened(0, "BUY", 0, 1, 40, TRUE),
                      Opened(1, "SELL", 1, 1, 70, FALSE), Opened(1, "SELL", 2, 1, 55, FALSE),
                      Opened(0, "BUY", 0, 2, 60, FALSE) >>
    /\ completed_trades = << [incoming_order |-> 5, order_in_book |-> 1,
                              transaction_quantity |-> 1, transaction_price |-> 50, tax |-> 1] >>
    /\ transaction_fee = 1
    /\ orders = [t \in Trader |-> IF t = 0 THEN <<5>> ELSE <<1, 3, 4>>]
    /\ inventory_quantity = [t \in Trader |-> [p \in Product |-> IF t = 0 THEN 1 ELSE -1]]
    /\ bank = [t \in Trader |-> [p \in Product |-> IF t = 0 THEN -51 ELSE 50]]
    /\ order = 4 /\ placing = Idle
    /\ pc = "poll" /\ incoming_trader = 0 /\ outq = <<>> /\ other = 2
    /\ pending = None /\ signal_array = <<1, 0, 1, 1, 0>> /\ sig_ptr = 5
    /\ sizeofSignalArray = MAX_SIGNALS
    /\ proc = [t \in Trader |-> "running"] /\ disconnected = [t \in Trader |-> FALSE]
    /\ pipe = [t \in Trader |-> <<>>] /\ writing = [t \in Trader |-> FALSE]
    /\ sent = [t \in Trader |-> IF t = 0 THEN 2 ELSE 3]
    /\ answered = sent /\ last = sent
    /\ unsignalled = [t \in Trader |-> IF t = 0 THEN {} ELSE {"FILL"}]
    /\ filled = [t \in Trader |-> 1]

OpenedSpec == OpenedInit /\ [][XNext]_xvars /\ XFairness
=============================================================================
