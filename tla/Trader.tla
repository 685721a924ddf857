------------------------------- MODULE Trader -------------------------------
(***************************************************************************)
(* The automatic trader, pe_trader.c: a handler that counts signals, a     *)
(* loop that reads one message per counted signal, a BUY order in reply to *)
(* every MARKET SELL, and an order id that grows with every reply and with *)
(* every message taken for invalid.                                        *)
(*                                                                         *)
(* The exchange at the other end is reduced to what the trader sees of it: *)
(* the messages of Exchange with the kill() calls that go with them, and   *)
(* the test newOrder() makes on the trader's order ids.  The kernel is     *)
(* modelled as in Exchange: signals coalesce, read() is interrupted by one.*)
(***************************************************************************)
EXTENDS Fifo, FiniteSets

CONSTANTS
    Quantity,       \* quantities of MARKET messages; 0 announces a CANCEL
    MAX_QUANTITY,   \* 999999 in pe_common.h
    TooMany,        \* 1000, the quantity that makes the trader leave
    MaxMessages     \* bound of the model: after so many messages only answers

ASSUME TraderAssumption ==
    /\ Quantity \subseteq 0..MAX_QUANTITY
    /\ MAX_QUANTITY \in Nat /\ TooMany \in Nat /\ MaxMessages \in Nat

VARIABLES
    fifo,          \* messages in the FIFO from the exchange
    pending,       \* a SIGUSR1 is pending for the trader
    signal_count,
    signal_ptr,
    pc,            \* where the trader's loop is
    newOrder,      \* the MARKET SELL that is being answered
    orderID,
    commands,      \* orders in the FIFO to the exchange
    sent,          \* every order written to it
    unheard,       \* SIGUSR1s from the trader its loop has still to deal with
    accepted,      \* ids of the trader's orders the exchange accepted
    rejected,      \* the exchange rejected an order for its id
    kills,         \* kill() calls the exchange still makes for its last message
    written,       \* messages the exchange wrote so far
    sells,         \* numbers of the MARKET SELLs the trader should answer
    crowded        \* a message was written before the last one was dealt with

channel  == <<fifo, pending>>
trader   == <<signal_count, signal_ptr, pc, newOrder, orderID>>
answers  == <<commands, sent, unheard>>
exchange == <<accepted, rejected, kills, written, sells, crowded>>
tvars    == <<channel, trader, answers, exchange>>

NoOrder == [cmd |-> "none", n |-> 0]

-----------------------------------------------------------------------------
(* The trader.                                                             *)

SigHandler_Flag ==
    /\ pending
    /\ pc \notin {"blocked", "done"}
    /\ signal_count' = 1
    /\ pending' = FALSE
    /\ UNCHANGED <<fifo, signal_ptr, pc, newOrder, orderID, answers, exchange>>

\* sig_handler(); a read() in progress is interrupted instead, see below.
SigHandler ==
    /\ pending
    /\ pc \notin {"blocked", "done"}
    /\ signal_count' = signal_count + 1
    /\ pending' = FALSE
    /\ UNCHANGED <<fifo, signal_ptr, pc, newOrder, orderID, answers, exchange>>

Poll ==
    /\ pc = "poll"
    /\ signal_ptr < signal_count
    /\ pc' = "read"
    /\ UNCHANGED <<channel, signal_count, signal_ptr, newOrder, orderID, answers, exchange>>

\* process_order(): a MARKET message for an order, not for a cancellation.
IsOrder(m) == m.cmd \in {"BUY", "SELL"} /\ m.quantity \in 1..MAX_QUANTITY

\* The message is done with, and orderID becomes id.
DoneWith(id) ==
    /\ orderID' = id
    /\ signal_ptr' = signal_ptr + 1
    /\ pc' = "poll"
    /\ UNCHANGED newOrder

Leave(m) ==
    /\ IsOrder(m) /\ m.quantity >= TooMany
    /\ pc' = "done"
    /\ signal_ptr' = signal_ptr + 1
    /\ UNCHANGED <<newOrder, orderID>>

Reply(m) ==
    /\ IsOrder(m) /\ m.quantity < TooMany /\ m.cmd = "SELL"
    /\ newOrder' = m
    /\ pc' = "write"
    /\ UNCHANGED <<signal_ptr, orderID>>

Invalid_StartsOver(m) ==
    /\ \/ m.cmd \in {"BUY", "SELL"} /\ (m.cmd = "BUY" \/ ~IsOrder(m)) /\ m.quantity < TooMany
       \/ m.cmd \in {"OTHER", "JUNK"}
    /\ DoneWith(IF m.cmd = "OTHER" THEN 0 ELSE orderID + 1)

\* A BUY order, or a MARKET message process_order() refuses, falls through to
\* the case of an invalid message: everything the trader does not know, the
\* answers AMENDED, CANCELLED and INVALID, and a read that returned nothing.
Invalid(m) ==
    /\ \/ IsOrder(m) /\ m.quantity < TooMany /\ m.cmd = "BUY"
       \/ m.cmd \in {"BUY", "SELL"} /\ ~IsOrder(m)
       \/ m.cmd \in {"OTHER", "JUNK"}
    /\ DoneWith(orderID + 1)

Noted(m) == m.cmd \in {"OPEN", "ACCEPTED", "FILL"} /\ DoneWith(orderID)

Read_Again ==
    /\ pc \in {"read", "blocked"}
    /\ fifo # <<>>
    /\ fifo' \in {fifo} \cup AfterRead(fifo)
    /\ LET m == Head(fifo) IN Leave(m) \/ Reply(m) \/ Invalid(m) \/ Noted(m)
    /\ UNCHANGED <<pending, signal_count, answers, exchange>>

Read ==
    /\ pc \in {"read", "blocked"}
    /\ fifo # <<>>
    /\ fifo' \in AfterRead(fifo)
    /\ LET m == Head(fifo) IN Leave(m) \/ Reply(m) \/ Invalid(m) \/ Noted(m)
    /\ UNCHANGED <<pending, signal_count, answers, exchange>>

ReadBlocks ==
    /\ pc = "read" /\ fifo = <<>>
    /\ pc' = "blocked"
    /\ UNCHANGED <<channel, signal_count, signal_ptr, newOrder, orderID, answers, exchange>>

\* The handler runs, read() fails with EINTR: the buffer is empty.
ReadInterrupted ==
    /\ pc = "blocked" /\ fifo = <<>>
    /\ pending
    /\ pending' = FALSE
    /\ signal_count' = signal_count + 1
    /\ DoneWith(orderID + 1)
    /\ UNCHANGED <<fifo, answers, exchange>>

WriteOrder ==
    /\ pc = "write"
    /\ LET o == [cmd |-> "ORDER", n |-> newOrder.n, id |-> orderID]
       IN  commands' = Append(commands, o) /\ sent' = Append(sent, o)
    /\ pc' = "kill"
    /\ UNCHANGED <<channel, signal_count, signal_ptr, newOrder, orderID, unheard, exchange>>

KillExchange_SameId ==
    /\ pc = "kill"
    /\ unheard' \in {unheard, unheard + 1}
    /\ DoneWith(orderID)
    /\ UNCHANGED <<channel, signal_count, commands, sent, exchange>>

\* The signal is lost if another one is pending for the exchange; the id of
\* the next order is the next one.
KillExchange ==
    /\ pc = "kill"
    /\ unheard' \in {unheard, unheard + 1}
    /\ DoneWith(orderID + 1)
    /\ UNCHANGED <<channel, signal_count, commands, sent, exchange>>

-----------------------------------------------------------------------------
(* The exchange.                                                           *)

\* Nothing of what the exchange wrote so far is still to be read.
DealtWith ==
    /\ fifo = <<>> /\ ~pending
    /\ pc = "blocked" \/ (pc = "poll" /\ signal_ptr = signal_count)

Tell(m, k) ==
    /\ kills = 0 /\ pc # "done"
    /\ fifo' = Append(fifo, m)
    /\ kills' = k
    /\ written' = written + 1
    /\ crowded' = (crowded \/ ~DealtWith)
    /\ UNCHANGED <<pending, trader, sent>>

\* An order of another trader was accepted, amended or cancelled.
Market(side, quantity) ==
    /\ written < MaxMessages
    /\ Tell([cmd |-> side, n |-> written + 1, quantity |-> quantity], 1)
    /\ sells' = IF side = "SELL" /\ quantity \in 1..(TooMany - 1)
                THEN sells \cup {written + 1} ELSE sells
    /\ UNCHANGED <<commands, unheard, accepted, rejected>>

\* A FILL comes with two kill() calls for the incoming order, with none for
\* the order in the book, and with one each when both are the trader's.
Fill(k) ==
    /\ accepted # <<>>
    /\ written < MaxMessages
    /\ Tell([cmd |-> "FILL", n |-> written + 1], k)
    /\ UNCHANGED <<commands, unheard, accepted, rejected, sells>>

\* newOrder() of pe_order.c: order_id > trader->order_count is refused.
InSequence(o) == o.cmd = "ORDER" /\ o.id <= Len(accepted)

\* For one signal one of the trader's orders is read and answered ...
Answer ==
    /\ unheard > 0 /\ unheard' = unheard - 1
    /\ commands # <<>>
    /\ commands' \in AfterRead(commands)
    /\ LET o == Head(commands)
       IN  /\ accepted' = IF InSequence(o) THEN Append(accepted, o.id) ELSE accepted
           /\ rejected' = (rejected \/ (o.cmd = "ORDER" /\ ~InSequence(o)))
           /\ Tell([cmd |-> IF InSequence(o) THEN "ACCEPTED" ELSE "OTHER",
                    n |-> written + 1], 1)
    /\ UNCHANGED sells

\* ... or none is left, since an earlier read() took two: it waits until a
\* signal of another trader interrupts it, and INVALID is the answer.
AnswerNothing ==
    /\ unheard > 0 /\ unheard' = unheard - 1
    /\ commands = <<>>
    /\ Tell([cmd |-> "OTHER", n |-> written + 1], 1)
    /\ UNCHANGED <<commands, accepted, rejected, sells>>

Kill ==
    /\ kills > 0
    /\ kills' = kills - 1
    /\ pending' = (pc # "done")
    /\ UNCHANGED <<fifo, trader, answers, accepted, rejected, written, sells, crowded>>

-----------------------------------------------------------------------------
\* The FIFOs are open and MARKET OPEN is the first message in them; the
\* handler was installed before (pe_trader.c:179-204).
TInit ==
    /\ fifo = <<[cmd |-> "OPEN", n |-> 1]>> /\ pending = FALSE
    /\ signal_count = 0 /\ signal_ptr = 0 /\ pc = "poll"
    /\ newOrder = NoOrder /\ orderID = 0
    /\ commands = <<>> /\ sent = <<>> /\ unheard = 0
    /\ accepted = <<>> /\ rejected = FALSE
    /\ kills = 1 /\ written = 1 /\ sells = {} /\ crowded = FALSE

TraderStep == Poll \/ Read \/ ReadBlocks \/ ReadInterrupted \/ WriteOrder \/ KillExchange

ExchangeStep ==
    \/ \E side \in {"BUY", "SELL"}, quantity \in Quantity : Market(side, quantity)
    \/ \E k \in 0..2 : Fill(k)
    \/ Answer
    \/ AnswerNothing
    \/ Kill

TNext == TraderStep \/ SigHandler \/ ExchangeStep

\* The trader runs, the kernel delivers signals, and the exchange gets from a
\* write() to the kill() after it.  Nothing obliges it to write.
TFairness == WF_tvars(TraderStep) /\ WF_tvars(SigHandler) /\ WF_tvars(Kill)

TSpec == TInit /\ [][TNext]_tvars /\ TFairness

-----------------------------------------------------------------------------
(* Properties.                                                             *)

OrderType == [cmd : {"ORDER"}, n : Nat, id : Nat]
TailType  == [cmd : {"JUNK"}, n : Nat]
MarketType == [cmd : {"BUY", "SELL"}, n : Nat, quantity : Nat]
AnswerType == [cmd : {"OPEN", "ACCEPTED", "FILL", "OTHER"}, n : Nat]

\* The variables hold what their declarations say, and no signal is handled
\* that was not counted.
TTypeOK ==
    /\ fifo \in Seq(MarketType \cup AnswerType \cup TailType)
    /\ pending \in BOOLEAN
    /\ signal_count \in Nat /\ signal_ptr \in 0..signal_count
    /\ pc \in {"poll", "read", "blocked", "write", "kill", "done"}
    /\ newOrder \in MarketType \cup {NoOrder} /\ orderID \in Nat
    /\ commands \in Seq(OrderType \cup TailType)
    /\ sent \in Seq(OrderType) /\ unheard \in Nat
    /\ accepted \in Seq(Nat) /\ rejected \in BOOLEAN
    /\ kills \in 0..2 /\ written \in Nat /\ sells \subseteq Nat
    /\ crowded \in BOOLEAN

\* README.md:12, ids are never reused: whatever the exchange reads of the
\* trader's orders, those it accepts carry the ids 0, 1, 2, ..., so the
\* hypothesis NoIdReused of the matching engine's properties holds of them.
AcceptedInSequence == \A k \in DOMAIN accepted : accepted[k] = k - 1

\* An id that was skipped is never made up for: once an order was refused for
\* its id no later order of the trader is accepted.
RefusedForGood == [][rejected => accepted' = accepted]_tvars

\* The replies follow the MARKET SELLs they answer: none is answered twice,
\* and no two in the wrong order.
RepliesInOrder ==
    \A i, j \in DOMAIN sent : i < j => sent[i].n < sent[j].n

Replied(n) == \E i \in DOMAIN sent : sent[i].n = n

\* README.md:12, ``If there is an incoming sell order and passes safety check,
\* the trader will reply'': it does, as long as the exchange leaves it the time
\* to deal with one message before it writes the next.
SellsAnswered ==
    \A n \in 1..MaxMessages :
        n \in sells ~> (Replied(n) \/ pc = "done" \/ crowded)
=============================================================================
